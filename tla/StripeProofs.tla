----------------------------- MODULE StripeProofs ------------------------------
(***************************************************************************)
(* The service beside Stripe, for all users, calls and bounds: accounts    *)
(* follow Stripe's subscriptions, and who has one on record is not sold    *)
(* another.                                                                *)
(***************************************************************************)
EXTENDS SerialProofs, StripeProperties, SequenceTheorems

\* All events are those of StripeSide, and no account is closed.
StripeOnly == \A c \in Calls : c.op \notin {"stripe_webhook", "lago_webhook", "delete_account"}

-----------------------------------------------------------------------------
(* The invariant.  What is stored at Stripe, and what was delivered.       *)

\* One request or delivery runs.
OneAlive == \A r, s \in Request : proc[r].pc # "new" /\ proc[s].pc # "new" => r = s

StripeStored ==
  /\ sessions \in Seq(Session)
  /\ subscriptions \in Seq(StripeSubscription)
  /\ events \in Seq(Delivery)

\* The inline sessions are of subscriptions.
Inline == \A i \in DOMAIN sessions : sessions[i].kind = "inline" => sessions[i].amount \in DOMAIN subscriptions

\* Events are of the owners of their subscriptions.
Owned ==
  \A i \in DOMAIN events :
    /\ events[i].id = i /\ ~events[i].lookup
    /\ events[i].event \in StatusTypes =>
         /\ events[i].subscription \in Subscription
         /\ events[i].subscription.id \in DOMAIN subscriptions
         /\ events[i].user = subscriptions[events[i].subscription.id].user

UpdatePcs == {"subscription.updated", "subscription.create", "subscription.put"} \cup ReferralPcs

DeletedPcs == {"subscription.deleted", "deleted.put"}

FailedPcs == {"invoice.payment_failed", "failed.put"}

\* The steps of a delivery are those of its event.
OnEvent(p) ==
  /\ p.call.id \in DOMAIN events /\ p.call = events[p.call.id]
  /\ p.pc \in WebhookPcs \cup {"stripe_webhook", "done"} /\ p.pc # "resolve"
  /\ p.pc \in UpdatePcs => p.call.event = "subscription.updated"
  /\ p.pc \in DeletedPcs => p.call.event = "subscription.deleted"
  /\ p.pc \in FailedPcs => p.call.event = "invoice.payment_failed"
  /\ p.pc \in WebhookPcs \ (UpdatePcs \cup DeletedPcs \cup FailedPcs \cup {"record"}) =>
       p.call.event \notin StatusTypes
  /\ p.pc = "record" => p.call.id \in applied

Deliveries ==
  \A r \in Request : proc[r].pc # "new" /\ Arg(r).op = "stripe_webhook" => OnEvent(proc[r])

History ==
  /\ late \subseteq applied /\ applied \subseteq DOMAIN events
  /\ acknowledged \subseteq applied /\ processed_webhooks \subseteq applied

-----------------------------------------------------------------------------
(* ... what the account has of them.                                       *)

StatusOf(u, ids) == {i \in ids : events[i].event \in StatusTypes /\ events[i].user = u}

\* The subscription an account has after an event about its status.
Says(i) ==
  IF events[i].event = "subscription.deleted" THEN None
  ELSE [events[i].subscription EXCEPT
          !.status = IF events[i].event = "invoice.payment_failed" THEN "past_due"
                     ELSE MappedStatus(events[i].reason)]

\* What the last event about the status of u says is so, but a payment that
\* failed says nothing alone.
Follows(u) ==
  StatusInOrder => \A k \in StatusOf(u, applied) :
    (\A j \in StatusOf(u, applied) : j <= k) /\ (events[k].event = "invoice.payment_failed" => k - 1 \in applied)
      => SubscriptionOf(u) = Says(k)

\* It is so before the event counts as applied.
PutFollows ==
  \A r \in Request : proc[r].pc \in ReferralPcs =>
    /\ SubscriptionOf(Arg(r).user) = Says(Arg(r).id)
    /\ Exists(Arg(r).user)

\* Each of the subscriptions of u that it was told of is forgotten.
Settled(u, ids) ==
  \A i \in ids : events[i].event = "subscription.updated" /\ events[i].user = u => ForgottenSince(i, u, ids)

\* A user without a subscription on record has none left that was told of.
Forgets(u) == StatusInOrder /\ SubscriptionOf(u) = None => Settled(u, applied)

SoldAfter ==
  StatusInOrder =>
    /\ \A i \in DOMAIN sessions : sessions[i].kind = "checkout" => Settled(sessions[i].user, sessions[i].known)
    /\ \A n \in DOMAIN subscriptions : Settled(subscriptions[n].user, subscriptions[n].known)

KnownApplied ==
  /\ \A i \in DOMAIN sessions : sessions[i].known \subseteq applied
  /\ \A n \in DOMAIN subscriptions : subscriptions[n].known \subseteq applied

\* Who was told of a subscription has an account.
Opened == \A i \in applied : events[i].event = "subscription.updated" => Exists(events[i].user)

-----------------------------------------------------------------------------
(* ... and what the last event of a subscription says of it.               *)

Describes(i, s) ==
  /\ events[i].event = "subscription.deleted" <=> s.status = "ended"
  /\ events[i].event = "subscription.updated" => events[i].reason = s.status
  /\ events[i].event = "invoice.payment_failed" => s.status = "past_due"
  /\ LET sub == events[i].subscription
     IN  sub.plan = s.plan /\ sub.start = s.start /\ sub.end = s.end

EventsOf(n) == {i \in DOMAIN events : events[i].event \in StatusTypes /\ events[i].subscription.id = n}

Described ==
  \A n \in DOMAIN subscriptions :
    /\ \E i \in EventsOf(n) : events[i].event = "subscription.updated"
    /\ \A k \in EventsOf(n) : (\A j \in EventsOf(n) : j <= k) => Describes(k, subscriptions[n])

\* The event of a payment that failed follows the one of the status.
Paired ==
  \A i \in DOMAIN events : events[i].event = "invoice.payment_failed" =>
    /\ i - 1 \in DOMAIN events /\ events[i-1].event = "subscription.updated"
    /\ events[i-1].user = events[i].user /\ events[i-1].reason = "past_due"
    /\ events[i-1].subscription = events[i].subscription

AllFollow == \A u \in User : Follows(u)
AllForgotten == \A u \in User : Forgets(u)

-----------------------------------------------------------------------------
(* What happens at Stripe: the events.                                     *)

\* An event before it has an id, and the event it becomes.
Draft ==
  {c \in Call : /\ c.op = "stripe_webhook" /\ c.other = None /\ ~c.lookup
                /\ c.event \in {"checkout.payment", "invoice.paid"} \cup StatusTypes
                /\ c.event = "checkout.payment" => c.amount \in Nat
                /\ c.event \in StatusTypes => c.subscription \in Subscription}

Numbered(e, i, c) ==
  /\ e.id = i /\ ~e.lookup
  /\ e.event = c.event /\ e.user = c.user /\ e.subscription = c.subscription /\ e.reason = c.reason

Grows == \A i \in DOMAIN events : i \in DOMAIN events' /\ events'[i] = events[i]

LEMMA DraftDelivered ==
  ASSUME NEW c \in Draft, NEW i \in 1..MaxEvents
  PROVE  [c EXCEPT !.id = i] \in Delivery /\ Numbered([c EXCEPT !.id = i], i, c)
<1> DEFINE d == [c EXCEPT !.id = i]
<1>1. i \in WebhookId
  BY StripeAssumption
<1>2. d \in Call
  BY <1>1 DEF Draft, Call
<1>3. /\ d.op = c.op /\ d.event = c.event /\ d.user = c.user /\ d.other = c.other
      /\ d.amount = c.amount /\ d.id = i /\ d.subscription = c.subscription
      /\ d.reason = c.reason /\ d.lookup = c.lookup
  BY DEF Draft, Call
<1> HIDE DEF d
<1>4. d.event \in StripeEvents /\ d.op \in Routes
  BY <1>3 DEF Draft, StatusTypes, StripeEvents, Routes
<1>5. WellFormed(d)
  BY <1>1, <1>3, <1>4, NoneAssumption DEF WellFormed, Draft, StatusTypes
<1>6. d \in Delivery /\ Numbered(d, i, c)
  BY <1>2, <1>3, <1>5 DEF Delivery, Draft, Numbered
<1> QED
  BY <1>6 DEF d

LEMMA Emitted ==
  ASSUME events \in Seq(Delivery), NEW cs \in Seq(Draft), Emit(cs)
  PROVE  /\ events' \in Seq(Delivery) /\ Grows
         /\ Len(events) \in Nat /\ DOMAIN events = 1..Len(events)
         /\ DOMAIN events' = 1..(Len(events) + Len(cs))
         /\ \A i \in 1..Len(cs) : Numbered(events'[Len(events) + i], Len(events) + i, cs[i])
<1> DEFINE added == [i \in DOMAIN cs |-> [cs[i] EXCEPT !.id = Len(events) + i]]
<1>1. Len(events) \in Nat /\ Len(cs) \in Nat /\ DOMAIN cs = 1..Len(cs) /\ Len(events) + Len(cs) <= MaxEvents
      /\ DOMAIN events = 1..Len(events) /\ MaxEvents \in Nat
  BY StripeAssumption DEF Emit
<1>2. \A i \in 1..Len(cs) : added[i] \in Delivery /\ Numbered(added[i], Len(events) + i, cs[i])
  <2> TAKE i \in 1..Len(cs)
  <2>1. Len(events) + i \in 1..MaxEvents /\ cs[i] \in Draft
    BY <1>1
  <2> QED
    BY <1>1, <2>1, DraftDelivered
<1>3. added \in Seq(Delivery) /\ Len(added) = Len(cs)
  <2>1. added \in [1..Len(cs) -> Delivery]
    BY <1>1, <1>2
  <2> QED
    BY <1>1, <2>1
<1>4. events' = events \o added
  BY DEF Emit
<1> HIDE DEF added
<1>6. /\ events' \in Seq(Delivery)
      /\ Len(events') = Len(events) + Len(cs)
      /\ \A i \in 1..(Len(events) + Len(cs)) :
           events'[i] = IF i <= Len(events) THEN events[i] ELSE added[i - Len(events)]
  <2>1. /\ events \o added \in Seq(Delivery)
        /\ Len(events \o added) = Len(events) + Len(added)
        /\ \A i \in 1..(Len(events) + Len(added)) :
             (events \o added)[i] = IF i <= Len(events) THEN events[i] ELSE added[i - Len(events)]
    BY <1>3, ConcatProperties, Zenon
  <2> QED
    BY <1>3, <1>4, <2>1
<1>7. DOMAIN events' = 1..(Len(events) + Len(cs))
  BY <1>6
<1>8. \A i \in 1..Len(cs) : events'[Len(events) + i] = added[i]
  <2> TAKE i \in 1..Len(cs)
  <2>1. Len(events) + i \in 1..(Len(events) + Len(cs)) /\ ~(Len(events) + i <= Len(events))
        /\ (Len(events) + i) - Len(events) = i
    BY <1>1
  <2> QED
    BY <1>6, <2>1
<1>9. \A i \in DOMAIN events : i \in DOMAIN events' /\ events'[i] = events[i]
  BY <1>1, <1>6, <1>7
<1> QED
  BY <1>1, <1>2, <1>6, <1>7, <1>8, <1>9 DEF Grows

LEMMA Emptied ==
  ASSUME NEW u \in User, NEW type \in {"checkout.payment", "invoice.paid"} \cup StatusTypes
  PROVE  /\ EventCall(type, u).op = "stripe_webhook" /\ EventCall(type, u).other = None
         /\ EventCall(type, u).lookup = FALSE /\ EventCall(type, u).event = type
         /\ EventCall(type, u).user = u
         /\ EventCall(type, u) \in Call
<1>1. type \in STRING /\ "" \in STRING /\ "stripe_webhook" \in STRING /\ 0 \in Int /\ FALSE \in BOOLEAN
  <2>1. type \in STRING
    BY StringsAssumption, Zenon DEF StatusTypes
  <2>2. "" \in STRING /\ "stripe_webhook" \in STRING
    BY StringsAssumption, Zenon
  <2>3. 0 \in Int /\ FALSE \in BOOLEAN
    OBVIOUS
  <2> QED
    BY <2>1, <2>2, <2>3, Zenon
<1>2. None \in User \cup {None} /\ None \in UsageId \cup WebhookId \cup {None}
      /\ None \in Subscription \cup {None} /\ None \in AutoRefill \cup {None}
  OBVIOUS
<1>3. EventCall(type, u) \in Call
  BY <1>1, <1>2, Zenon DEF EventCall, Call
<1> QED
  BY <1>3 DEF EventCall

Reasons == {"incomplete", "active", "past_due", "ending", "ended", "", "paid", "subscription_create",
            "subscription_update", "subscription_cycle"}

\* An event about the n-th subscription, which is now s.
Tells(c, n, s) ==
  /\ c \in Draft /\ c.user = s.user
  /\ c.subscription \in Subscription /\ c.subscription.id = n
  /\ c.subscription.plan = s.plan /\ c.subscription.start = s.start /\ c.subscription.end = s.end

OfSubscription(n, s) ==
  [id |-> n, plan |-> s.plan, status |-> "active", start |-> s.start, end |-> s.end]

LEMMA AboutDraft ==
  ASSUME NEW n \in Nat, NEW s \in StripeSubscription, NEW type \in {"invoice.paid"} \cup StatusTypes,
         NEW reason \in Reasons
  PROVE  /\ Tells(About(n, s, type, reason), n, s)
         /\ About(n, s, type, reason).event = type /\ About(n, s, type, reason).reason = reason
         /\ About(n, s, type, reason).subscription = OfSubscription(n, s)
<1> DEFINE c == EventCall(type, s.user)
           sub == OfSubscription(n, s)
           d == [c EXCEPT !.reason = reason, !.subscription = sub]
<1>1. s.user \in User /\ s.plan \in Plan /\ s.start \in Day /\ s.end \in Day
  BY DEF StripeSubscription
<1>2. /\ sub \in Subscription /\ sub.id = n /\ sub.plan = s.plan /\ sub.start = s.start /\ sub.end = s.end
  BY <1>1 DEF Subscription, OfSubscription
<1>3. c.op = "stripe_webhook" /\ c.other = None /\ c.lookup = FALSE /\ c.event = type /\ c.user = s.user /\ c \in Call
  <2>1. type \in {"checkout.payment", "invoice.paid"} \cup StatusTypes
    BY Zenon
  <2> QED
    BY <1>1, <2>1, Emptied, ZenonT(60)
<1>4. reason \in STRING
  BY StringsAssumption DEF Reasons
<1>5. About(n, s, type, reason) = d
  BY DEF About, OfSubscription
<1> HIDE DEF c, sub
<1>6. /\ d \in Call /\ d.op = c.op /\ d.other = c.other /\ d.lookup = c.lookup /\ d.event = c.event
      /\ d.user = c.user /\ d.reason = reason /\ d.subscription = sub
  BY <1>2, <1>3, <1>4 DEF Call
<1> HIDE DEF d
<1>7. d \in Draft
  BY <1>2, <1>3, <1>6 DEF Draft, StatusTypes
<1>8. Tells(d, n, s)
  BY <1>2, <1>3, <1>6, <1>7 DEF Tells
<1>9. d.event = type /\ d.reason = reason /\ d.subscription = OfSubscription(n, s)
  <2>1. d.event = type /\ d.reason = reason /\ d.subscription = sub
    BY <1>3, <1>6
  <2> QED
    BY <2>1 DEF sub
<1> QED
  BY <1>5, <1>8, <1>9, Zenon

LEMMA InvoiceDraft ==
  ASSUME NEW n \in Nat, NEW s \in StripeSubscription, NEW reason \in Reasons, NEW amount \in Int
  PROVE  /\ Tells(Invoice(n, s, reason, amount), n, s)
         /\ Invoice(n, s, reason, amount).event = "invoice.paid"
<1> DEFINE c == About(n, s, "invoice.paid", reason)
           d == [c EXCEPT !.amount = amount]
<1>1. Tells(c, n, s) /\ c.event = "invoice.paid"
  BY AboutDraft
<1> HIDE DEF c
<1>2. c \in Call
  BY <1>1 DEF Tells, Draft
<1>3. /\ d \in Call /\ d.op = c.op /\ d.other = c.other /\ d.lookup = c.lookup /\ d.event = c.event
      /\ d.user = c.user /\ d.subscription = c.subscription
  BY <1>2 DEF Call
<1> HIDE DEF d
<1>4. Tells(d, n, s) /\ d.event = "invoice.paid"
  BY <1>1, <1>3 DEF Tells, Draft, StatusTypes
<1> QED
  BY <1>4 DEF d, c, Invoice

LEMMA PaymentDraft ==
  ASSUME NEW u \in User, NEW n \in Nat
  PROVE  /\ [EventCall("checkout.payment", u) EXCEPT !.amount = n, !.reason = "paid"] \in Draft
         /\ [EventCall("checkout.payment", u) EXCEPT !.amount = n, !.reason = "paid"].event = "checkout.payment"
<1> DEFINE c == EventCall("checkout.payment", u)
           e == [c EXCEPT !.amount = n]
           d == [e EXCEPT !.reason = "paid"]
<1>1. c.op = "stripe_webhook" /\ c.other = None /\ c.lookup = FALSE /\ c.event = "checkout.payment" /\ c \in Call
  <2>1. "checkout.payment" \in {"checkout.payment", "invoice.paid"} \cup StatusTypes
    BY Zenon
  <2> QED
    BY <2>1, Emptied, ZenonT(60)
<1>2. "paid" \in STRING
  BY StringsAssumption
<1> HIDE DEF c
<1>3. /\ e \in Call /\ e.op = c.op /\ e.other = c.other /\ e.lookup = c.lookup /\ e.event = c.event /\ e.amount = n
      /\ [c EXCEPT !.amount = n, !.reason = "paid"] = d
  BY <1>1 DEF Call
<1> HIDE DEF e
<1>4. /\ d \in Call /\ d.op = e.op /\ d.other = e.other /\ d.lookup = e.lookup /\ d.event = e.event /\ d.amount = n
  BY <1>2, <1>3 DEF Call
<1> HIDE DEF d
<1>5. d \in Draft /\ d.event = "checkout.payment"
  BY <1>1, <1>3, <1>4 DEF Draft, StatusTypes
<1> QED
  BY <1>3, <1>5 DEF c

-----------------------------------------------------------------------------
(* ... and the subscriptions.                                              *)

\* The n-th subscription is now s, and these events say so.
Announces(n, s, cs) ==
  /\ cs \in Seq(Draft) /\ Len(cs) \in 1..2
  /\ \A j \in 1..Len(cs) : Tells(cs[j], n, s)
  /\ \/ cs[1].event = "subscription.updated" /\ cs[1].reason = s.status /\ s.status # "ended"
     \/ cs[1].event = "subscription.deleted" /\ s.status = "ended" /\ Len(cs) = 1
  /\ Len(cs) = 2 =>
       \/ cs[2].event = "invoice.paid"
       \/ /\ cs[2].event = "invoice.payment_failed" /\ s.status = "past_due"
          /\ cs[1].event = "subscription.updated" /\ cs[2].subscription = cs[1].subscription

Becoming(n, s) ==
  /\ subscriptions' \in Seq(StripeSubscription)
  /\ DOMAIN subscriptions' = DOMAIN subscriptions \cup {n} /\ subscriptions'[n] = s
  /\ \A m \in DOMAIN subscriptions \ {n} : subscriptions'[m] = subscriptions[m]
  /\ n \in DOMAIN subscriptions => s.user = subscriptions[n].user /\ s.known = subscriptions[n].known

LEMMA NewsStep ==
  ASSUME StripeStored, Owned, Described, Paired, NEW n \in Nat, NEW s \in StripeSubscription, NEW cs,
         Announces(n, s, cs), Emit(cs), Becoming(n, s),
         n \in DOMAIN subscriptions \/ cs[1].event = "subscription.updated"
  PROVE  /\ events' \in Seq(Delivery) /\ Grows
         /\ Owned' /\ Described' /\ Paired'
<1> DEFINE len == Len(events)
           Fresh1(i, c) == /\ events'[i].id = i /\ ~events'[i].lookup /\ events'[i].event = c.event
                           /\ events'[i].user = s.user /\ events'[i].reason = c.reason
                           /\ events'[i].subscription = c.subscription
                           /\ c.subscription \in Subscription /\ c.subscription.id = n
                           /\ c.subscription.plan = s.plan /\ c.subscription.start = s.start
                           /\ c.subscription.end = s.end
<1>1. /\ events' \in Seq(Delivery) /\ Grows
      /\ len \in Nat /\ DOMAIN events = 1..len /\ DOMAIN events' = 1..(len + Len(cs))
      /\ \A i \in 1..Len(cs) : Numbered(events'[len + i], len + i, cs[i])
  BY Emitted DEF StripeStored, Announces
<1>2. Len(cs) \in 1..2 /\ 1 \in 1..Len(cs) /\ (Len(cs) = 2 => 2 \in 1..Len(cs))
  BY DEF Announces
<1>3. Fresh1(len + 1, cs[1]) /\ (Len(cs) = 2 => Fresh1(len + 2, cs[2]))
  BY <1>1, <1>2 DEF Announces, Tells, Numbered
<1>4. \A i \in DOMAIN events' : i \in DOMAIN events \/ i = len + 1 \/ (i = len + 2 /\ Len(cs) = 2)
  BY SMTT(30), <1>1, <1>2
<1>5. len + 1 \in DOMAIN events' /\ len + 1 \notin DOMAIN events /\ len + 2 \notin DOMAIN events
      /\ \A i \in DOMAIN events : i < len + 1 /\ i \in Nat
  BY <1>1, <1>2
<1>6. /\ \A i \in DOMAIN events : i \in DOMAIN events' /\ events'[i] = events[i]
      /\ \A m \in DOMAIN subscriptions : m \in DOMAIN subscriptions' /\ subscriptions'[m].user = subscriptions[m].user
      /\ n \in DOMAIN subscriptions' /\ subscriptions'[n] = s
  BY <1>1 DEF Grows, Becoming
<1> HIDE DEF len
<1>7. Owned'
  <2> SUFFICES ASSUME NEW i \in DOMAIN events'
               PROVE  /\ events'[i].id = i /\ ~events'[i].lookup
                      /\ events'[i].event \in StatusTypes =>
                           /\ events'[i].subscription \in Subscription
                           /\ events'[i].subscription.id \in DOMAIN subscriptions'
                           /\ events'[i].user = subscriptions'[events'[i].subscription.id].user
    BY DEF Owned
  <2>1. CASE i \in DOMAIN events
    BY <1>6, <2>1 DEF Owned
  <2>2. CASE i \notin DOMAIN events
    BY <1>3, <1>4, <1>6, <2>2
  <2> QED
    BY <2>1, <2>2
<1>8. Paired'
  <2> SUFFICES ASSUME NEW i \in DOMAIN events', events'[i].event = "invoice.payment_failed"
               PROVE  /\ i - 1 \in DOMAIN events' /\ events'[i-1].event = "subscription.updated"
                      /\ events'[i-1].user = events'[i].user /\ events'[i-1].reason = "past_due"
                      /\ events'[i-1].subscription = events'[i].subscription
    BY DEF Paired
  <2>1. CASE i \in DOMAIN events
    BY <1>6, <2>1 DEF Paired
  <2>2. CASE i = len + 1
    BY <1>3, <2>2 DEF Announces
  <2>3. CASE i = len + 2 /\ Len(cs) = 2
    <3>1. i - 1 = len + 1
      BY <1>1, <2>3 DEF len
    <3>2. /\ cs[1].event = "subscription.updated" /\ cs[1].reason = s.status /\ s.status = "past_due"
          /\ cs[2].subscription = cs[1].subscription
      BY <1>3, <2>3 DEF Announces
    <3> QED
      BY <1>3, <1>5, <2>3, <3>1, <3>2
  <2> QED
    BY <1>4, <2>1, <2>2, <2>3
<1>9. Described'
  <2> SUFFICES ASSUME NEW m \in DOMAIN subscriptions'
               PROVE  /\ \E i \in EventsOf(m)' : events'[i].event = "subscription.updated"
                      /\ \A k \in EventsOf(m)' : (\A j \in EventsOf(m)' : j <= k)
                           => Describes(k, subscriptions[m])'
    BY DEF Described
  <2>0. EventsOf(m)' = {i \in DOMAIN events' : events'[i].event \in StatusTypes /\ events'[i].subscription.id = m}
    BY DEF EventsOf
  <2>1. CASE m # n
    <3>1. m \in DOMAIN subscriptions /\ subscriptions'[m] = subscriptions[m]
      BY <2>1 DEF Becoming
    <3>2. EventsOf(m)' = EventsOf(m)
      BY <1>3, <1>4, <1>6, <2>0, <2>1 DEF EventsOf
    <3>3. \A k \in EventsOf(m) : k \in DOMAIN events /\ events'[k] = events[k]
      BY <1>6 DEF EventsOf
    <3> QED
      BY <3>1, <3>2, <3>3 DEF Described, Describes
  <2>2. CASE m = n
    <3>1. len + 1 \in EventsOf(n)'
      BY <1>3, <1>5, <2>0, <2>2 DEF Announces, StatusTypes
    <3>2. \E i \in EventsOf(n)' : events'[i].event = "subscription.updated"
      <4>1. CASE cs[1].event = "subscription.updated"
        BY <1>3, <3>1, <4>1
      <4>2. CASE n \in DOMAIN subscriptions
        <5>1. PICK i \in EventsOf(n) : events[i].event = "subscription.updated"
          BY <4>2 DEF Described
        <5>2. i \in DOMAIN events /\ events'[i] = events[i] /\ i \in DOMAIN events' /\ events[i].event \in StatusTypes
              /\ events[i].subscription.id = n
          BY <1>6 DEF EventsOf
        <5> QED
          BY <2>0, <2>2, <5>1, <5>2
      <4> QED
        BY <4>1, <4>2
    <3>3. ASSUME NEW k \in EventsOf(n)', \A j \in EventsOf(n)' : j <= k
          PROVE  Describes(k, subscriptions[n])'
      <4>1. k \in DOMAIN events' /\ len + 1 <= k /\ events'[k].event \in StatusTypes
        BY <2>0, <2>2, <3>1, <3>3
      <4>2. k = len + 1 \/ (k = len + 2 /\ Len(cs) = 2)
        BY <1>1, <1>4, <1>5, <4>1 DEF len
      <4>3. /\ events'[k].event = "subscription.deleted" <=> s.status = "ended"
            /\ events'[k].event = "subscription.updated" => events'[k].reason = s.status
            /\ events'[k].event = "invoice.payment_failed" => s.status = "past_due"
        BY <1>3, <4>1, <4>2 DEF Announces, StatusTypes
      <4>4. /\ events'[k].subscription.plan = s.plan /\ events'[k].subscription.start = s.start
            /\ events'[k].subscription.end = s.end
        BY <1>3, <4>2
      <4> QED
        BY <1>6, <4>3, <4>4 DEF Describes
    <3> QED
      BY <2>2, <3>2, <3>3
  <2> QED
    BY <2>1, <2>2
<1> QED
  BY <1>1, <1>7, <1>8, <1>9

LEMMA StatusDrafts ==
  ASSUME NEW n \in Nat, NEW s \in StripeSubscription
  PROVE  /\ LET d == Updated(n, s)
            IN  /\ Tells(d, n, s) /\ d.event = "subscription.updated" /\ d.reason = s.status
                /\ d.subscription = OfSubscription(n, s)
         /\ LET d == About(n, s, "invoice.payment_failed", "")
            IN  /\ Tells(d, n, s) /\ d.event = "invoice.payment_failed"
                /\ d.subscription = OfSubscription(n, s)
         /\ LET d == About(n, s, "subscription.deleted", "")
            IN  Tells(d, n, s) /\ d.event = "subscription.deleted"
<1>1. s.status \in Reasons /\ "" \in Reasons
  BY DEF StripeSubscription, Reasons
<1>2. /\ "subscription.updated" \in {"invoice.paid"} \cup StatusTypes
      /\ "subscription.deleted" \in {"invoice.paid"} \cup StatusTypes
      /\ "invoice.payment_failed" \in {"invoice.paid"} \cup StatusTypes
  BY DEF StatusTypes
<1>3. ASSUME NEW type \in {"invoice.paid"} \cup StatusTypes, NEW reason \in Reasons
      PROVE  /\ Tells(About(n, s, type, reason), n, s) /\ About(n, s, type, reason).event = type
             /\ About(n, s, type, reason).reason = reason
             /\ About(n, s, type, reason).subscription = OfSubscription(n, s)
  <2>1. Tells(About(n, s, type, reason), n, s)
    BY AboutDraft
  <2>2. About(n, s, type, reason).event = type
    BY AboutDraft
  <2>3. About(n, s, type, reason).reason = reason
    BY AboutDraft
  <2>4. About(n, s, type, reason).subscription = OfSubscription(n, s)
    BY AboutDraft
  <2> QED
    BY <2>1, <2>2, <2>3, <2>4
<1> QED
  BY <1>1, <1>2, <1>3, ZenonT(60) DEF Updated

LEMMA OneNews ==
  ASSUME NEW n \in Nat, NEW s \in StripeSubscription, NEW c, Tells(c, n, s),
         \/ c.event = "subscription.updated" /\ c.reason = s.status /\ s.status # "ended"
         \/ c.event = "subscription.deleted" /\ s.status = "ended"
  PROVE  Announces(n, s, <<c>>) /\ <<c>>[1] = c
<1>1. <<c>> \in Seq(Draft) /\ Len(<<c>>) = 1 /\ <<c>>[1] = c
  BY DEF Tells
<1> QED
  BY <1>1 DEF Announces

LEMMA TwoNews ==
  ASSUME NEW n \in Nat, NEW s \in StripeSubscription, NEW c, NEW d, Tells(c, n, s), Tells(d, n, s),
         c.event = "subscription.updated" /\ c.reason = s.status /\ s.status # "ended",
         \/ d.event = "invoice.paid"
         \/ d.event = "invoice.payment_failed" /\ s.status = "past_due" /\ d.subscription = c.subscription
  PROVE  Announces(n, s, <<c, d>>) /\ <<c, d>>[1] = c
<1>1. <<c, d>> \in Seq(Draft) /\ Len(<<c, d>>) = 2 /\ <<c, d>>[1] = c /\ <<c, d>>[2] = d
  BY DEF Tells
<1> QED
  BY <1>1 DEF Announces

\* What is announced of subscription n is what it becomes.
Tidings(n, s) ==
  \E cs : /\ Announces(n, s, cs) /\ Emit(cs) /\ Becoming(n, s)
          /\ n \in DOMAIN subscriptions \/ cs[1].event = "subscription.updated"

LEMMA TidingsStep ==
  ASSUME NEW n \in Nat, NEW s \in StripeSubscription, Becoming(n, s)
  PROVE  /\ Emit(<<Updated(n, s)>>) /\ s.status # "ended" => Tidings(n, s)
         /\ \A reason \in Reasons : \A amount \in Int :
              Emit(<<Updated(n, s), Invoice(n, s, reason, amount)>>) /\ s.status # "ended" => Tidings(n, s)
         /\ /\ Emit(<<Updated(n, s), About(n, s, "invoice.payment_failed", "")>>) /\ s.status = "past_due"
            => Tidings(n, s)
         /\ /\ Emit(<<About(n, s, "subscription.deleted", "")>>) /\ s.status = "ended" /\ n \in DOMAIN subscriptions
            => Tidings(n, s)
<1>2. /\ Tells(Updated(n, s), n, s) /\ Updated(n, s).event = "subscription.updated"
      /\ Updated(n, s).reason = s.status /\ Updated(n, s).subscription = OfSubscription(n, s)
  BY StatusDrafts
<1>3. Emit(<<Updated(n, s)>>) /\ s.status # "ended" => Tidings(n, s)
  BY <1>2, OneNews DEF Tidings
<1>4. ASSUME NEW reason \in Reasons, NEW amount \in Int, s.status # "ended",
             Emit(<<Updated(n, s), Invoice(n, s, reason, amount)>>)
      PROVE  Tidings(n, s)
  <2>1. Tells(Invoice(n, s, reason, amount), n, s) /\ Invoice(n, s, reason, amount).event = "invoice.paid"
    BY InvoiceDraft
  <2> QED
    BY <1>2, <1>4, <2>1, TwoNews DEF Tidings
<1>5. ASSUME Emit(<<Updated(n, s), About(n, s, "invoice.payment_failed", "")>>), s.status = "past_due"
      PROVE  Tidings(n, s)
  <2> DEFINE d == About(n, s, "invoice.payment_failed", "")
  <2>1. Tells(d, n, s) /\ d.event = "invoice.payment_failed" /\ d.subscription = OfSubscription(n, s)
    BY StatusDrafts
  <2> HIDE DEF d
  <2>2. Announces(n, s, <<Updated(n, s), d>>) /\ <<Updated(n, s), d>>[1] = Updated(n, s)
    BY <1>2, <1>5, <2>1, TwoNews
  <2>3. Emit(<<Updated(n, s), d>>)
    BY <1>5 DEF d
  <2> QED
    BY <1>2, <2>2, <2>3 DEF Tidings
<1>6. ASSUME Emit(<<About(n, s, "subscription.deleted", "")>>), s.status = "ended", n \in DOMAIN subscriptions
      PROVE  Tidings(n, s)
  <2> DEFINE d == About(n, s, "subscription.deleted", "")
  <2>1. Tells(d, n, s) /\ d.event = "subscription.deleted"
    BY StatusDrafts
  <2> HIDE DEF d
  <2>2. Announces(n, s, <<d>>)
    BY <1>6, <2>1, OneNews
  <2>3. Emit(<<d>>)
    BY <1>6 DEF d
  <2> QED
    BY <1>6, <2>2, <2>3 DEF Tidings
<1> QED
  BY <1>3, <1>4, <1>5, <1>6

LEMMA SubscriptionEdits ==
  ASSUME NEW s \in StripeSubscription
  PROVE  /\ \A status \in {"incomplete", "active", "past_due", "ending", "ended"} :
              LET t == [s EXCEPT !.status = status]
              IN  t \in StripeSubscription /\ t.user = s.user /\ t.known = s.known /\ t.status = status
         /\ \A plan \in Plan :
              LET t == [s EXCEPT !.plan = plan]
              IN  t \in StripeSubscription /\ t.user = s.user /\ t.known = s.known /\ t.status = s.status
         /\ \A status \in {"active", "past_due"} :
              LET t == NextPeriod(s, status)
              IN  t \in StripeSubscription /\ t.user = s.user /\ t.known = s.known /\ t.status = status
<1>1. ASSUME NEW status \in {"incomplete", "active", "past_due", "ending", "ended"}
      PROVE  LET t == [s EXCEPT !.status = status]
             IN  t \in StripeSubscription /\ t.user = s.user /\ t.known = s.known /\ t.status = status
  BY DEF StripeSubscription
<1>2. ASSUME NEW plan \in Plan
      PROVE  LET t == [s EXCEPT !.plan = plan]
             IN  t \in StripeSubscription /\ t.user = s.user /\ t.known = s.known /\ t.status = s.status
  BY DEF StripeSubscription
<1>3. ASSUME NEW status \in {"active", "past_due"}
      PROVE  LET t == NextPeriod(s, status)
             IN  t \in StripeSubscription /\ t.user = s.user /\ t.known = s.known /\ t.status = status
  <2> DEFINE later == s.end + PeriodDays
             t1 == [s EXCEPT !.status = status]
             t2 == [t1 EXCEPT !.start = s.end]
             t3 == [t2 EXCEPT !.end = later]
  <2>1. later \in Day /\ s.end \in Day
    BY StripeAssumption DEF StripeSubscription, Day
  <2>2. NextPeriod(s, status) = t3
    BY DEF NextPeriod, StripeSubscription
  <2> HIDE DEF later
  <2>3. t1 \in StripeSubscription /\ t1.user = s.user /\ t1.known = s.known /\ t1.status = status
    BY <1>1
  <2> HIDE DEF t1
  <2>4. t2 \in StripeSubscription /\ t2.user = s.user /\ t2.known = s.known /\ t2.status = status
    BY <2>1, <2>3 DEF StripeSubscription
  <2> HIDE DEF t2
  <2>5. t3 \in StripeSubscription /\ t3.user = s.user /\ t3.known = s.known /\ t3.status = status
    BY <2>1, <2>4 DEF StripeSubscription
  <2> QED
    BY <2>2, <2>5
<1> QED
  BY <1>1, <1>2, <1>3

LEMMA Became ==
  ASSUME subscriptions \in Seq(StripeSubscription), NEW s \in StripeSubscription
  PROVE  /\ subscriptions' = Append(subscriptions, s) =>
              Becoming(Len(subscriptions) + 1, s) /\ Len(subscriptions) + 1 \in Nat
         /\ \A n \in DOMAIN subscriptions :
              /\ subscriptions' = [subscriptions EXCEPT ![n] = s]
              /\ s.user = subscriptions[n].user /\ s.known = subscriptions[n].known
              => Becoming(n, s) /\ n \in Nat
<1>1. DOMAIN subscriptions = 1..Len(subscriptions) /\ Len(subscriptions) \in Nat
  OBVIOUS
<1>2. ASSUME subscriptions' = Append(subscriptions, s)
      PROVE  Becoming(Len(subscriptions) + 1, s) /\ Len(subscriptions) + 1 \in Nat
  <2>1. /\ Append(subscriptions, s) \in Seq(StripeSubscription)
        /\ DOMAIN Append(subscriptions, s) = 1..(Len(subscriptions) + 1)
        /\ Append(subscriptions, s)[Len(subscriptions) + 1] = s
        /\ \A m \in 1..Len(subscriptions) : Append(subscriptions, s)[m] = subscriptions[m]
    BY <1>1, AppendProperties
  <2>2. /\ 1..(Len(subscriptions) + 1) = 1..Len(subscriptions) \cup {Len(subscriptions) + 1}
        /\ Len(subscriptions) + 1 \notin 1..Len(subscriptions) /\ Len(subscriptions) + 1 \in Nat
    BY <1>1
  <2> QED
    BY <1>1, <1>2, <2>1, <2>2 DEF Becoming
<1>3. ASSUME NEW n \in DOMAIN subscriptions, subscriptions' = [subscriptions EXCEPT ![n] = s],
             s.user = subscriptions[n].user, s.known = subscriptions[n].known
      PROVE  Becoming(n, s) /\ n \in Nat
  <2>1. /\ [subscriptions EXCEPT ![n] = s] \in Seq(StripeSubscription)
        /\ DOMAIN [subscriptions EXCEPT ![n] = s] = DOMAIN subscriptions
        /\ [subscriptions EXCEPT ![n] = s][n] = s
        /\ \A m \in DOMAIN subscriptions \ {n} : [subscriptions EXCEPT ![n] = s][m] = subscriptions[m]
    BY <1>1, <1>3, ExceptSeq
  <2> QED
    BY <1>1, <1>3, <2>1 DEF Becoming
<1> QED
  BY <1>2, <1>3

-----------------------------------------------------------------------------
(* ... and the sessions.                                                   *)

SessionsKept ==
  /\ sessions' \in Seq(Session)
  /\ \A i \in DOMAIN sessions :
       /\ i \in DOMAIN sessions'
       /\ sessions'[i].kind = sessions[i].kind /\ sessions'[i].user = sessions[i].user
       /\ sessions'[i].amount = sessions[i].amount /\ sessions'[i].known = sessions[i].known

LEMMA ClosedKept ==
  ASSUME sessions \in Seq(Session), NEW i \in DOMAIN sessions, Close(i)
  PROVE  SessionsKept /\ DOMAIN sessions' = DOMAIN sessions
<1> DEFINE s == [sessions[i] EXCEPT !.open = FALSE]
<1>1. sessions[i] \in Session /\ DOMAIN sessions = 1..Len(sessions) /\ Len(sessions) \in Nat
  OBVIOUS
<1>2. s \in Session /\ s.kind = sessions[i].kind /\ s.user = sessions[i].user
      /\ s.amount = sessions[i].amount /\ s.known = sessions[i].known
  BY <1>1 DEF Session
<1>3. sessions' = [sessions EXCEPT ![i] = s]
  BY DEF Close
<1> HIDE DEF s
<1>4. /\ [sessions EXCEPT ![i] = s] \in Seq(Session)
      /\ DOMAIN [sessions EXCEPT ![i] = s] = DOMAIN sessions
      /\ \A j \in 1..Len(sessions) : [sessions EXCEPT ![i] = s][j] = IF j = i THEN s ELSE sessions[j]
  BY <1>1, <1>2, ExceptSeq
<1> QED
  BY <1>1, <1>2, <1>3, <1>4 DEF SessionsKept

LEMMA OpenKept ==
  ASSUME sessions \in Seq(Session), applied \subseteq Nat,
         NEW kind \in {"checkout", "inline", "payment", "portal"}, NEW u \in User, NEW plan \in Plan,
         NEW amount \in Nat, Open(kind, u, plan, amount)
  PROVE  /\ SessionsKept
         /\ \A i \in DOMAIN sessions' \ DOMAIN sessions :
              /\ sessions'[i].kind = kind /\ sessions'[i].user = u
              /\ sessions'[i].amount = amount /\ sessions'[i].known = applied
<1> DEFINE s == [kind |-> kind, user |-> u, plan |-> plan, amount |-> amount,
                 known |-> applied, open |-> TRUE]
           len == Len(sessions)
<1>1. DOMAIN sessions = 1..len /\ len \in Nat
  OBVIOUS
<1>2. s \in Session /\ s.kind = kind /\ s.user = u /\ s.amount = amount /\ s.known = applied
  BY DEF Session
<1>3. sessions' = Append(sessions, s)
  BY DEF Open
<1> HIDE DEF s
<1>4. /\ Append(sessions, s) \in Seq(Session)
      /\ DOMAIN Append(sessions, s) = 1..(len + 1)
      /\ Append(sessions, s)[len + 1] = s
      /\ \A m \in 1..len : Append(sessions, s)[m] = sessions[m]
  BY <1>1, <1>2, AppendProperties
<1> HIDE DEF len
<1>5. \A i \in 1..(len + 1) : i \in 1..len \/ i = len + 1
  BY <1>1
<1>6. \A i \in 1..len : i \in 1..(len + 1)
  BY <1>1
<1> QED
  BY <1>1, <1>2, <1>3, <1>4, <1>5, <1>6 DEF SessionsKept

-----------------------------------------------------------------------------
(* ... together: what Stripe has, and when the service asked for it.       *)

Sold ==
  /\ StripeStored /\ Inline /\ Owned /\ Described /\ Paired
  /\ KnownApplied /\ SoldAfter

\* What was asked for just now, or for a session that was.
AskedWell(u, known) == known \subseteq applied /\ (StatusInOrder => Settled(u, known))

LEMMA SettledKept ==
  ASSUME Grows, NEW u, NEW ids, ids \subseteq DOMAIN events
  PROVE  Settled(u, ids)' <=> Settled(u, ids)
BY DEF Grows, Settled, ForgottenSince

LEMMA OrderKept ==
  ASSUME Grows, History, late' = late
  PROVE  StatusInOrder' <=> StatusInOrder
BY DEF Grows, History, StatusInOrder, Status

LEMMA SoldStep ==
  ASSUME Sold, History, applied' = applied, late' = late, Grows, SessionsKept,
         events' \in Seq(Delivery), Owned', Described', Paired',
         subscriptions' \in Seq(StripeSubscription),
         \A n \in DOMAIN subscriptions :
           /\ n \in DOMAIN subscriptions'
           /\ subscriptions'[n].user = subscriptions[n].user
           /\ subscriptions'[n].known = subscriptions[n].known,
         \A n \in DOMAIN subscriptions' \ DOMAIN subscriptions :
           AskedWell(subscriptions'[n].user, subscriptions'[n].known),
         \A i \in DOMAIN sessions' \ DOMAIN sessions :
           /\ sessions'[i].known \subseteq applied
           /\ sessions'[i].kind = "checkout" => AskedWell(sessions'[i].user, sessions'[i].known)
           /\ sessions'[i].kind = "inline" => sessions'[i].amount \in DOMAIN subscriptions'
  PROVE  Sold'
<1>1. \A u, ids : ids \subseteq applied => (Settled(u, ids)' <=> Settled(u, ids))
  BY SettledKept DEF History
<1>2. StatusInOrder' <=> StatusInOrder
  BY OrderKept
<1>3. StripeStored' /\ Inline'
  BY DEF Sold, StripeStored, Inline, SessionsKept
<1>4. \A i \in DOMAIN sessions' :
        /\ sessions'[i].known \subseteq applied
        /\ sessions'[i].kind = "checkout" /\ StatusInOrder => Settled(sessions'[i].user, sessions'[i].known)
  BY DEF Sold, SessionsKept, KnownApplied, SoldAfter, AskedWell
<1>5. \A n \in DOMAIN subscriptions' :
        /\ subscriptions'[n].known \subseteq applied
        /\ StatusInOrder => Settled(subscriptions'[n].user, subscriptions'[n].known)
  BY DEF Sold, KnownApplied, SoldAfter, AskedWell
<1>6. KnownApplied'
  BY <1>4, <1>5 DEF KnownApplied
<1>7. \A i \in DOMAIN sessions' : sessions'[i].kind = "checkout" /\ StatusInOrder
        => \A u, ids : u = sessions'[i].user /\ ids = sessions'[i].known => Settled(u, ids)'
  BY <1>1, <1>4
<1>8. \A n \in DOMAIN subscriptions' : StatusInOrder
        => \A u, ids : u = subscriptions'[n].user /\ ids = subscriptions'[n].known => Settled(u, ids)'
  BY <1>1, <1>5
<1>9. SoldAfter'
  BY SMTT(30), <1>2, <1>7, <1>8 DEF SoldAfter, Settled, ForgottenSince
<1> QED
  BY <1>3, <1>6, <1>9 DEF Sold

\* A payment is about no subscription.
LEMMA PaymentStep ==
  ASSUME Sold, NEW c \in Draft, c.event = "checkout.payment", Emit(<<c>>), UNCHANGED subscriptions
  PROVE  /\ events' \in Seq(Delivery) /\ Grows
         /\ Owned' /\ Described' /\ Paired'
<1> DEFINE len == Len(events)
<1>0. <<c>> \in Seq(Draft) /\ Len(<<c>>) = 1 /\ <<c>>[1] = c /\ 1 \in 1..Len(<<c>>)
  OBVIOUS
<1>1. /\ events' \in Seq(Delivery) /\ Grows
      /\ len \in Nat /\ DOMAIN events = 1..len /\ DOMAIN events' = 1..(len + 1)
      /\ Numbered(events'[len + 1], len + 1, c)
  BY <1>0, Emitted DEF Sold, StripeStored
<1>2. events'[len + 1].id = len + 1 /\ ~events'[len + 1].lookup /\ events'[len + 1].event = "checkout.payment"
  BY <1>1 DEF Numbered
<1>3. \A i \in DOMAIN events' : i \in DOMAIN events \/ i = len + 1
  BY <1>1
<1>4. \A i \in DOMAIN events : i \in DOMAIN events' /\ events'[i] = events[i]
  BY <1>1 DEF Grows
<1> HIDE DEF len
<1>5. Owned'
  BY <1>2, <1>3, <1>4 DEF Sold, Owned, StatusTypes
<1>6. Paired'
  BY <1>2, <1>3, <1>4 DEF Sold, Paired
<1>7. \A m \in DOMAIN subscriptions : EventsOf(m)' = EventsOf(m)
  BY <1>2, <1>3, <1>4 DEF EventsOf, StatusTypes
<1>8. \A m : \A k \in EventsOf(m) : events'[k] = events[k]
  BY <1>4 DEF EventsOf
<1>9. Described'
  BY <1>7, <1>8 DEF Sold, Described, Describes
<1> QED
  BY <1>1, <1>5, <1>6, <1>9

LEMMA NewsSold ==
  ASSUME Sold, History, applied' = applied, late' = late, SessionsKept,
         NEW n \in Nat, NEW s \in StripeSubscription, Tidings(n, s),
         n \in DOMAIN subscriptions \/ AskedWell(s.user, s.known),
         \A i \in DOMAIN sessions' \ DOMAIN sessions :
           /\ sessions'[i].known \subseteq applied
           /\ sessions'[i].kind # "checkout"
           /\ sessions'[i].kind = "inline" => sessions'[i].amount = n
  PROVE  Sold' /\ Grows
<1>1. PICK cs : /\ Announces(n, s, cs) /\ Emit(cs) /\ Becoming(n, s)
                /\ n \in DOMAIN subscriptions \/ cs[1].event = "subscription.updated"
  BY DEF Tidings
<1>2. /\ events' \in Seq(Delivery) /\ Grows
      /\ Owned' /\ Described' /\ Paired'
  BY <1>1, NewsStep DEF Sold
<1>3. /\ subscriptions' \in Seq(StripeSubscription)
      /\ \A m \in DOMAIN subscriptions :
           /\ m \in DOMAIN subscriptions'
           /\ subscriptions'[m].user = subscriptions[m].user
           /\ subscriptions'[m].known = subscriptions[m].known
      /\ n \in DOMAIN subscriptions'
      /\ \A m \in DOMAIN subscriptions' \ DOMAIN subscriptions :
           AskedWell(subscriptions'[m].user, subscriptions'[m].known)
  BY <1>1 DEF Becoming
<1> QED
  BY <1>2, <1>3, SoldStep

LEMMA Today ==
  ASSUME Inv, NEW u \in User, NEW plan \in Plan, NEW status \in {"incomplete", "active"},
         NEW known \in SUBSET Nat
  PROVE  LET s == NewSubscription(u, plan, status, known)
         IN  s \in StripeSubscription /\ s.user = u /\ s.known = known /\ s.status = status
<1>1. today \in Day /\ today + PeriodDays \in Day
  BY StripeAssumption DEF Inv, StoreType, Day
<1> QED
  BY <1>1 DEF NewSubscription, StripeSubscription

LEMMA PagePaid ==
  ASSUME Inv, Sold, History, applied' = applied, late' = late, NEW i \in DOMAIN sessions,
         PayPurchase(i) \/ PayCheckout(i) \/ PayInline(i)
  PROVE  Sold' /\ Grows
<1>1. /\ sessions[i] \in Session /\ sessions \in Seq(Session) /\ Close(i)
      /\ subscriptions \in Seq(StripeSubscription)
  BY DEF Sold, StripeStored, PayPurchase, PayCheckout, PayInline
<1>2. SessionsKept /\ DOMAIN sessions' \ DOMAIN sessions = {}
  BY <1>1, ClosedKept
<1>3. CASE PayPurchase(i)
  <2> DEFINE c == [EventCall("checkout.payment", sessions[i].user) EXCEPT
                     !.amount = sessions[i].amount, !.reason = "paid"]
  <2>1. sessions[i].user \in User /\ sessions[i].amount \in Nat
    BY <1>1 DEF Session
  <2>2. c \in Draft /\ c.event = "checkout.payment"
    BY <2>1, PaymentDraft
  <2>3. Emit(<<c>>) /\ UNCHANGED subscriptions
    BY <1>3 DEF PayPurchase
  <2> HIDE DEF c
  <2>4. /\ events' \in Seq(Delivery) /\ Grows
        /\ Owned' /\ Described' /\ Paired'
    BY <2>2, <2>3, PaymentStep
  <2> QED
    BY <1>1, <1>2, <2>3, <2>4, SoldStep
<1>4. CASE PayCheckout(i)
  <2> DEFINE s == NewSubscription(sessions[i].user, sessions[i].plan, "active", sessions[i].known)
             n == Len(subscriptions) + 1
  <2>1. sessions[i].user \in User /\ sessions[i].plan \in Plan /\ sessions[i].known \in SUBSET Nat
    BY <1>1 DEF Session
  <2>2. s \in StripeSubscription /\ s.user = sessions[i].user /\ s.known = sessions[i].known
        /\ s.status = "active"
    BY <2>1, Today
  <2>3. /\ subscriptions' = Append(subscriptions, s)
        /\ Emit(<<Updated(n, s), Invoice(n, s, "subscription_create", 1)>>)
        /\ sessions[i].kind = "checkout"
    BY <1>4 DEF PayCheckout
  <2> HIDE DEF s
  <2>4. Becoming(n, s) /\ n \in Nat
    BY <1>1, <2>2, <2>3, Became
  <2> HIDE DEF n
  <2>5. "subscription_create" \in Reasons /\ 1 \in Int
    BY DEF Reasons
  <2>6. Tidings(n, s)
    BY <2>2, <2>3, <2>4, <2>5, TidingsStep
  <2>7. AskedWell(s.user, s.known)
    BY <2>2, <2>3 DEF Sold, KnownApplied, SoldAfter, AskedWell
  <2> QED
    BY <1>2, <2>2, <2>4, <2>6, <2>7, NewsSold
<1>5. CASE PayInline(i)
  <2> DEFINE n == sessions[i].amount
             s == [subscriptions[n] EXCEPT !.status = "active"]
  <2>1. n \in DOMAIN subscriptions
    BY <1>5 DEF PayInline, Sold, Inline
  <2>2. subscriptions[n] \in StripeSubscription /\ n \in Nat
    BY <1>1, <2>1
  <2>3. s \in StripeSubscription /\ s.user = subscriptions[n].user /\ s.known = subscriptions[n].known
        /\ s.status = "active"
    BY <2>2, SubscriptionEdits
  <2>4. /\ subscriptions' = [subscriptions EXCEPT ![n] = s]
        /\ Emit(<<Updated(n, s), Invoice(n, s, "subscription_create", 1)>>)
    BY <1>5 DEF PayInline
  <2> HIDE DEF s, n
  <2>5. Becoming(n, s)
    BY <1>1, <2>1, <2>3, <2>4, Became
  <2>6. "subscription_create" \in Reasons /\ 1 \in Int
    BY DEF Reasons
  <2>7. Tidings(n, s)
    BY <2>2, <2>3, <2>4, <2>5, <2>6, TidingsStep
  <2> QED
    BY <1>2, <2>1, <2>2, <2>3, <2>7, NewsSold
<1> QED
  BY <1>3, <1>4, <1>5

LEMMA SubscriptionChanged ==
  ASSUME Inv, Sold, History, applied' = applied, late' = late, NEW n \in DOMAIN subscriptions,
         ChangePlan(n) \/ Renew(n) \/ FailToRenew(n) \/ End(n)
  PROVE  Sold' /\ Grows
<1>1. /\ sessions \in Seq(Session) /\ subscriptions \in Seq(StripeSubscription)
      /\ subscriptions[n] \in StripeSubscription /\ n \in Nat
  BY DEF Sold, StripeStored
<1>2. UNCHANGED sessions => SessionsKept /\ DOMAIN sessions' \ DOMAIN sessions = {}
  BY <1>1 DEF SessionsKept
<1>3. ASSUME NEW s \in StripeSubscription, s.user = subscriptions[n].user, s.known = subscriptions[n].known,
             NEW cs, Changes(n, s, cs),
             \/ \E reason \in Reasons : \E amount \in Int :
                  cs = <<Updated(n, s), Invoice(n, s, reason, amount)>> /\ s.status # "ended"
             \/ cs = <<Updated(n, s), About(n, s, "invoice.payment_failed", "")>> /\ s.status = "past_due"
             \/ cs = <<About(n, s, "subscription.deleted", "")>> /\ s.status = "ended"
      PROVE  Sold' /\ Grows
  <2>1. Becoming(n, s) /\ UNCHANGED sessions /\ Emit(cs)
    BY <1>1, <1>3, Became DEF Changes
  <2>2. Tidings(n, s)
    BY <1>1, <1>3, <2>1, TidingsStep
  <2> QED
    BY <1>1, <1>2, <2>1, <2>2, NewsSold
<1>4. CASE ChangePlan(n)
  <2>1. PICK plan \in PaidPlan :
          LET s == [subscriptions[n] EXCEPT !.plan = plan]
          IN  /\ s.status = "active"
              /\ \E amount \in {0, 1} : Changes(n, s, <<Updated(n, s), Invoice(n, s, "subscription_update", amount)>>)
    BY <1>4 DEF ChangePlan
  <2> DEFINE s == [subscriptions[n] EXCEPT !.plan = plan]
  <2>2. plan \in Plan /\ "subscription_update" \in Reasons
    BY DEF PaidPlan, Plan, Reasons
  <2>3. s \in StripeSubscription /\ s.user = subscriptions[n].user /\ s.known = subscriptions[n].known
    BY <1>1, <2>2 DEF StripeSubscription
  <2>4. PICK amount \in Int : Changes(n, s, <<Updated(n, s), Invoice(n, s, "subscription_update", amount)>>)
    BY <2>1
  <2>5. s.status # "ended"
    BY <2>1
  <2> HIDE DEF s
  <2> QED
    BY <1>3, <2>2, <2>3, <2>4, <2>5
<1>5. CASE Renew(n)
  <2> DEFINE s == NextPeriod(subscriptions[n], "active")
  <2>1. s \in StripeSubscription /\ s.user = subscriptions[n].user /\ s.known = subscriptions[n].known
        /\ s.status = "active"
    BY <1>1, SubscriptionEdits
  <2>2. Changes(n, s, <<Updated(n, s), Invoice(n, s, "subscription_cycle", 1)>>)
    BY <1>5 DEF Renew
  <2>3. "subscription_cycle" \in Reasons /\ 1 \in Int
    BY DEF Reasons
  <2> HIDE DEF s
  <2> QED
    BY <1>3, <2>1, <2>2, <2>3
<1>6. CASE FailToRenew(n)
  <2> DEFINE s == NextPeriod(subscriptions[n], "past_due")
  <2>1. s \in StripeSubscription /\ s.user = subscriptions[n].user /\ s.known = subscriptions[n].known
        /\ s.status = "past_due"
    BY <1>1, SubscriptionEdits
  <2>2. Changes(n, s, <<Updated(n, s), About(n, s, "invoice.payment_failed", "")>>)
    BY <1>6 DEF FailToRenew
  <2> HIDE DEF s
  <2> QED
    BY <1>3, <2>1, <2>2
<1>7. CASE End(n)
  <2> DEFINE s == [subscriptions[n] EXCEPT !.status = "ended"]
  <2>1. s \in StripeSubscription /\ s.user = subscriptions[n].user /\ s.known = subscriptions[n].known
        /\ s.status = "ended"
    BY <1>1, SubscriptionEdits
  <2>2. Changes(n, s, <<About(n, s, "subscription.deleted", "")>>)
    BY <1>7 DEF End
  <2> HIDE DEF s
  <2> QED
    BY <1>3, <2>1, <2>2
<1> QED
  BY <1>4, <1>5, <1>6, <1>7

LEMMA AtStripeStep ==
  ASSUME Inv, Sold, History, AtStripe
  PROVE  Sold' /\ Grows
BY PagePaid, SubscriptionChanged DEF AtStripe, historyVars

LEMMA OpenedSold ==
  ASSUME Sold, History, applied' = applied, late' = late, UNCHANGED <<subscriptions, events>>,
         NEW kind \in {"checkout", "payment", "portal"}, NEW u \in User, NEW plan \in Plan,
         NEW amount \in Nat, Open(kind, u, plan, amount),
         kind = "checkout" => AskedWell(u, applied)
  PROVE  Sold' /\ Grows
<1>1. applied \subseteq Nat /\ sessions \in Seq(Session) /\ events \in Seq(Delivery)
      /\ subscriptions \in Seq(StripeSubscription)
  BY DEF History, Sold, StripeStored
<1>2. /\ SessionsKept
      /\ \A i \in DOMAIN sessions' \ DOMAIN sessions :
           /\ sessions'[i].kind = kind /\ sessions'[i].user = u
           /\ sessions'[i].amount = amount /\ sessions'[i].known = applied
  BY <1>1, OpenKept
<1>3. Grows /\ Owned' /\ Described' /\ Paired'
  BY DEF Sold, Grows, Owned, Described, Describes, EventsOf, Paired
<1> QED
  BY <1>1, <1>2, <1>3, SoldStep

LEMMA HearsStep ==
  ASSUME Inv, Serial, Sold, History, AllForgotten, NEW r \in Request, Hears(r),
         applied' = applied, late' = late
  PROVE  Sold' /\ Grows
<1> USE DEF At, Arg, Copy
<1> DEFINE u == proc[r].call.user
<1>1. /\ sessions \in Seq(Session) /\ subscriptions \in Seq(StripeSubscription)
      /\ applied \subseteq Nat
  BY DEF Sold, StripeStored, History
<1>2. proc[r].pc \in StripePcs
  BY DEF Hears, StripePcs
<1>3. u \in User /\ HoldsCall(proc[r].pc, proc[r].call)
  BY <1>2, Stepping DEF StripePcs
<1>4. proc[r].pc \in SalePcs => AskedWell(u, applied)
  BY <1>3 DEF Serial, Fresh, AllForgotten, Forgets, AskedWell
<1> HIDE DEF u
<1>5. CASE At(r, "purchase.session") /\ CreateCheckoutSession(u, proc[r].call.amount)
  <2>1. proc[r].call.amount \in Nat
    BY <1>3, <1>5 DEF HoldsCall
  <2> QED
    BY <1>3, <1>5, <2>1, OpenedSold DEF CreateCheckoutSession, Plan
<1>6. CASE At(r, "checkout.session") /\ CreateSubscriptionCheckout(u, proc[r].call.reason)
  <2>1. proc[r].call.reason \in Plan
    BY <1>3, <1>6 DEF HoldsCall, PaidPlan, Plan
  <2>2. AskedWell(u, applied)
    BY <1>4, <1>6 DEF SalePcs
  <2> QED
    BY <1>3, <1>6, <2>1, <2>2, OpenedSold DEF CreateSubscriptionCheckout
<1>7. CASE At(r, "portal.session") /\ CreatePortalSession(u)
  BY <1>3, <1>7, OpenedSold DEF CreatePortalSession, Plan
<1>8. CASE At(r, "subscribe.pay") /\ CreateInlineSubscription(u)
  <2> DEFINE n == Len(subscriptions) + 1
             s == NewSubscription(u, "pro", "incomplete", applied)
  <2>1. s \in StripeSubscription /\ s.user = u /\ s.known = applied /\ s.status = "incomplete"
    BY <1>1, <1>3, Today DEF Plan
  <2>2. /\ Open("inline", u, "pro", n)
        /\ subscriptions' = Append(subscriptions, s)
        /\ Emit(<<Updated(n, s)>>)
    BY <1>8 DEF CreateInlineSubscription
  <2> HIDE DEF s
  <2>3. Becoming(n, s) /\ n \in Nat
    BY <1>1, <2>1, <2>2, Became
  <2> HIDE DEF n
  <2>4. /\ SessionsKept
        /\ \A i \in DOMAIN sessions' \ DOMAIN sessions :
             /\ sessions'[i].kind = "inline" /\ sessions'[i].user = u
             /\ sessions'[i].amount = n /\ sessions'[i].known = applied
    BY <1>1, <1>3, <2>2, <2>3, OpenKept DEF Plan
  <2>5. Tidings(n, s)
    BY <2>1, <2>2, <2>3, TidingsStep
  <2>6. AskedWell(u, applied)
    BY <1>4, <1>8 DEF SalePcs
  <2> QED
    BY <2>1, <2>3, <2>4, <2>5, <2>6, NewsSold
<1>9. CASE At(r, "cancel.end") /\ CancelSubscriptionAtPeriodEnd(proc[r].copy.subscription.id)
  <2> DEFINE n == proc[r].copy.subscription.id
             s == [subscriptions[n] EXCEPT !.status = "ending"]
  <2>1. /\ n \in DOMAIN subscriptions
        /\ subscriptions' = [subscriptions EXCEPT ![n].status = "ending"]
        /\ Emit(<<Updated(n, subscriptions'[n])>>) /\ UNCHANGED sessions
    BY <1>9 DEF CancelSubscriptionAtPeriodEnd
  <2>2. subscriptions[n] \in StripeSubscription /\ n \in Nat
    BY <1>1, <2>1
  <2>3. s \in StripeSubscription /\ s.user = subscriptions[n].user /\ s.known = subscriptions[n].known
        /\ s.status = "ending"
    BY <2>2, SubscriptionEdits
  <2>4. subscriptions' = [subscriptions EXCEPT ![n] = s]
    BY <2>1
  <2> HIDE DEF s, n
  <2>5. Becoming(n, s)
    BY <1>1, <2>1, <2>3, <2>4, Became
  <2>6. Tidings(n, s)
    BY <2>1, <2>2, <2>3, <2>5, TidingsStep DEF Becoming
  <2>7. SessionsKept /\ DOMAIN sessions' \ DOMAIN sessions = {}
    BY <1>1, <2>1 DEF SessionsKept
  <2> QED
    BY <2>1, <2>2, <2>3, <2>6, <2>7, NewsSold
<1> QED
  BY <1>5, <1>6, <1>7, <1>8, <1>9 DEF Hears, u

-----------------------------------------------------------------------------
(* What the service does: one request or delivery at a time.               *)

Served == Inv /\ Serial /\ OneAlive

LEMMA HandlerServed ==
  ASSUME Served, NEW r \in Request, Handler(r)
  PROVE  /\ Served'
         /\ proc[r].pc \notin {"new", "done"} /\ proc'[r].call = proc[r].call
         /\ \A s \in Request \ {r} : proc[s].pc = "new" /\ proc'[s] = proc[s]
<1>1. Inv /\ Serial /\ OneAlive /\ OneRuns
  BY DEF Served, Serial
<1>2. Inv'
  BY <1>1, HandlerEffect, StoreStep DEF Inv
<1>3. /\ proc[r].pc \notin {"new", "done"}
      /\ Busy(r)' => Busy(r)
      /\ Busy(r)' \/ proc'[r].pc = "new" => proc'[r].answer = None
      /\ \A s \in Request \ {r} : proc'[s] = proc[s]
  BY <1>1, HandlerBusy
<1>4. OneRuns'
  BY <1>1, <1>3 DEF OneRuns, Busy
<1>5. Serial'
  BY <1>1, <1>4, HandlerKeepsSerial DEF Serial
<1>6. \A s \in Request \ {r} : proc[s].pc = "new"
  BY <1>1, <1>3 DEF OneAlive
<1>7. OneAlive'
  BY <1>3, <1>6 DEF OneAlive
<1>8. proc'[r].call = proc[r].call
  BY <1>1, HandlerRecords DEF Inv, Goes, Becomes
<1> QED
  BY <1>2, <1>3, <1>5, <1>6, <1>7, <1>8 DEF Served

LEMMA ForgottenServed ==
  ASSUME Served, NEW r \in Request, Forgotten(r), UNCHANGED storeVars, proc[r].pc # "new"
  PROVE  Served' /\ \A s \in Request : proc'[s].pc = "new"
<1>1. Inv /\ OneAlive /\ OneRuns /\ ProcInv /\ proc \in [Request -> Proc]
  BY DEF Served, Serial, Inv, ProcInv
<1>2. proc'[r] = NotSent /\ \A s \in Request \ {r} : proc'[s] = proc[s]
  BY <1>1 DEF Forgotten
<1>3. NotSent \in Proc /\ Held(NotSent) /\ NotSent.pc = "new" /\ NotSent.answer = None
  BY DEF NotSent, Proc, ProcAt, Held, HoldsCall, HoldsCopy, WebhookPcs, StripeEvents, LagoEvents,
     CopyPcs, ReferralPcs, RefillPcs
<1>4. ProcInv'
  BY <1>1, <1>3, ProcStep DEF Forgotten
<1>5. Inv'
  BY <1>1, <1>4, StoreStep, NoEffect DEF Inv
<1>6. \A s \in Request : proc'[s].pc = "new" /\ proc'[s].answer = None
  BY <1>1, <1>2, <1>3 DEF OneAlive, OneRuns
<1>7. Serial'
  BY <1>6, IdleSerial DEF Serial, OneRuns, Busy
<1>8. OneAlive'
  BY <1>6 DEF OneAlive
<1> QED
  BY <1>5, <1>6, <1>7, <1>8 DEF Served

LEMMA CalledServed ==
  ASSUME Served, Idle, NEW r \in Request, NEW c \in Callable, UNCHANGED storeVars,
         proc' = [proc EXCEPT ![r].pc = c.op, ![r].call = c]
  PROVE  /\ Served'
         /\ proc'[r].pc = c.op /\ proc'[r].call = c
         /\ \A s \in Request \ {r} : proc'[s] = proc[s] /\ proc[s].pc = "new"
<1>1. Inv /\ Serial /\ OneRuns /\ ProcInv
  BY DEF Served, Serial, Inv
<1>2. Inv'
  BY <1>1, CalledStep, StoreStep, NoEffect DEF Inv
<1>3. /\ proc'[r].pc = c.op /\ proc'[r].call = c /\ proc'[r].answer = proc[r].answer
      /\ \A s \in Request \ {r} : proc'[s] = proc[s]
  BY <1>1 DEF ProcInv, Proc, ProcAt
<1>4. \A s \in Request : proc[s].pc = "new" /\ proc[s].answer = None
  BY <1>1 DEF Idle, At, OneRuns
<1>5. c.op \in Routes
  BY CallsAssumption DEF Callable, Delivery, WellFormed
<1>6. Fresh(proc[r])' /\ CallAt(proc[r])'
  BY <1>3, <1>5 DEF Fresh, CallAt, Routes, FreshPcs, AbsentPcs, RewardPcs, RereadPcs, SalePcs, SentPcs,
     SignupPcs, AllowancePcs, AllowanceOps, WebhookPcs, StripeEvents, LagoEvents
<1>7. \A s \in Request \ {r} : Fresh(proc[s])' /\ CallAt(proc[s])'
  BY <1>3, <1>4, IdleSerial DEF Busy
<1>8. OneRuns'
  <2>1. \A s \in Request \ {r} : ~Busy(s)'
    BY <1>3, <1>4 DEF Busy
  <2>2. \A s \in Request : proc'[s].answer = None
    BY <1>3, <1>4
  <2> QED
    BY <2>1, <2>2 DEF OneRuns
<1>9. OneAlive'
  BY <1>3, <1>4 DEF OneAlive
<1> QED
  BY <1>2, <1>3, <1>4, <1>6, <1>7, <1>8, <1>9 DEF Served, Serial

LEMMA IdleServed ==
  ASSUME Served, Idle, Tick \/ UNCHANGED vars
  PROVE  Served' /\ \A s \in Request : proc'[s].pc = "new"
<1>1. Inv /\ OneRuns /\ ProcInv /\ proc' = proc
  BY DEF Served, Serial, Inv, Tick, vars
<1>2. ProcInv'
  BY <1>1 DEF ProcInv
<1>3. Inv'
  BY <1>1, <1>2, StoreStep, NoEffect DEF Inv, vars, storeVars
<1>4. \A s \in Request : proc'[s].pc = "new" /\ proc'[s].answer = None
  BY <1>1 DEF Idle, At, OneRuns
<1>5. Serial'
  BY <1>4, IdleSerial DEF Serial, OneRuns, Busy
<1>6. OneAlive'
  BY <1>4 DEF OneAlive
<1> QED
  BY <1>3, <1>4, <1>5, <1>6 DEF Served

\* Where a step of a delivery leads.
Lands(r, pcs) ==
  /\ proc'[r].pc \in pcs \cup {"done"}
  /\ proc'[r].answer \in {proc[r].answer, "not_found"}

LEMMA HelpersLand ==
  ASSUME ProcInv, NEW r \in Request
  PROVE  /\ \A pc : Goto(r, pc) => Lands(r, {pc})
         /\ \A pc, a : Keep(r, a, pc) => Lands(r, {pc})
         /\ \A pc, n : Compute(r, n, pc) => Lands(r, {pc})
         /\ \A pc, a, n : KeepAndCompute(r, a, n, pc) => Lands(r, {pc})
         /\ \A u, create, pc : GetOrElse(r, u, create, pc) => Lands(r, {create, pc})
         /\ \A u, pc : GetOrNotFound(r, u, pc) => Lands(r, {pc})
         /\ \A u, pc : Reread(r, u, pc) => Lands(r, {pc})
         /\ \A u, pc : Create(r, u, pc) => Lands(r, {pc})
         /\ \A u, n, type, pc : Credit(r, u, n, type, pc) => Lands(r, {pc})
<1>1. /\ \A pc : Goto(r, pc) => Lands(r, {pc})
      /\ \A pc, a : Keep(r, a, pc) => Lands(r, {pc})
      /\ \A pc, n : Compute(r, n, pc) => Lands(r, {pc})
      /\ \A pc, a, n : KeepAndCompute(r, a, n, pc) => Lands(r, {pc})
      /\ \A pcs : Answer(r, "not_found") => Lands(r, pcs)
  BY Locals DEF Becomes, Lands
<1>2. \A pc, qc : Lands(r, {pc}) => Lands(r, {pc, qc}) /\ Lands(r, {qc, pc})
  BY DEF Lands
<1> QED
  BY <1>1, <1>2 DEF GetOrElse, GetOrNotFound, Reread, Create, Credit, NoAccount

\* The steps of a delivery that are about no status of a subscription.
OtherPcs ==
  {"checkout.subscription", "checkout.payment", "invoice.paid", "lago.started",
   "checkout.create", "checkout.put", "purchase.add", "invoice.prorate", "invoice.add",
   "invoice.reread", "invoice.mark", "lago.create", "lago.add"}

LEMMA OtherDeliveries ==
  ASSUME ProcInv, NEW r \in Request, Checkout(r) \/ InvoicePaid(r) \/ LagoSubscriptionStarted(r)
  PROVE  proc[r].pc \in OtherPcs /\ Lands(r, OtherPcs \cup {"record"})
<1> USE DEF At, Done
<1>1. \A pc, qc \in OtherPcs \cup {"record"} :
        (Lands(r, {pc}) \/ Lands(r, {pc, qc})) => Lands(r, OtherPcs \cup {"record"})
  BY DEF Lands
<1>2. CASE Checkout(r)
  BY <1>1, <1>2, HelpersLand
  DEF Checkout, CheckoutGet, CheckoutCreate, CheckoutPut, PurchaseGet, PurchaseAdd, OtherPcs
<1>3. CASE InvoicePaid(r)
  BY <1>1, <1>3, HelpersLand
  DEF InvoicePaid, InvoiceGet, InvoiceProrate, InvoiceAdd, InvoiceReread, InvoiceMark, OtherPcs
<1>4. CASE LagoSubscriptionStarted(r)
  BY <1>1, <1>4, HelpersLand DEF LagoSubscriptionStarted, LagoGet, LagoCreate, LagoAdd, OtherPcs
<1> QED
  BY <1>2, <1>3, <1>4

LEMMA StatusDeliveries ==
  ASSUME ProcInv, NEW r \in Request, SubscriptionUpdate(r) \/ SubscriptionDeleted(r) \/ PaymentFailed(r)
  PROVE  \/ /\ proc[r].pc \in {"subscription.updated", "subscription.create"}
            /\ Lands(r, {"subscription.create", "subscription.put"})
         \/ proc[r].pc \in {"subscription.put"} \cup ReferralPcs /\ Lands(r, ReferralPcs \cup {"record"})
         \/ proc[r].pc = "subscription.deleted" /\ Lands(r, {"deleted.put", "record"})
         \/ proc[r].pc = "invoice.payment_failed" /\ Lands(r, {"failed.put", "record"})
         \/ proc[r].pc \in {"deleted.put", "failed.put"} /\ Lands(r, {"record"})
<1> USE DEF At, Done
<1>1. \A pc, qc \in ReferralPcs \cup {"record"} :
        (Lands(r, {pc}) \/ Lands(r, {pc, qc})) => Lands(r, ReferralPcs \cup {"record"})
  BY DEF Lands
<1>2. \A pc, qc : Lands(r, {pc}) => Lands(r, {pc, qc}) /\ Lands(r, {qc, pc})
  BY DEF Lands
<1>3. CASE SubscriptionGet(r) \/ SubscriptionCreate(r)
  BY <1>2, <1>3, HelpersLand DEF SubscriptionGet, SubscriptionCreate
<1>4. CASE SubscriptionPut(r) \/ SubscriptionReferral(r) \/ SubscriptionInvitee(r)
           \/ SubscriptionInviterGet(r) \/ SubscriptionInviterCreate(r) \/ SubscriptionInviter(r)
  BY <1>1, <1>4, HelpersLand
  DEF SubscriptionPut, SubscriptionReferral, SubscriptionInvitee, SubscriptionInviterGet,
      SubscriptionInviterCreate, SubscriptionInviter, ReferralPcs
<1>5. CASE SubscriptionDeleted(r) \/ PaymentFailed(r)
  BY <1>2, <1>5, HelpersLand
  DEF SubscriptionDeleted, DeletedGet, DeletedPut, PaymentFailed, FailedGet, FailedPut
<1> QED
  BY <1>3, <1>4, <1>5 DEF SubscriptionUpdate, SubscriptionDeleted, PaymentFailed

\* No other handler steps from the steps of a delivery.
LEMMA OnlyWebhooks ==
  ASSUME NEW r \in Request, Handler(r), proc[r].pc \in WebhookPcs \cup {"stripe_webhook"}
  PROVE  Webhooks(r)
<1> USE DEF At, WebhookPcs, StripeEvents, LagoEvents
<1>1. ~Credits(r)
  BY DEF Credits, GetBalance, DailyGrantHandler, TryMonthlyAllowance, MonthlyCheck,
     MonthlyAdd, MonthlyReread, MonthlyMark, MonthlyRefresh, TryDailyGrant, DailyAdd,
     DailyReread, DailyMark, Signup, SignupGet, SignupCreate, SignupAdd, SignupReread,
     SignupMark, Referral, ReferralGet, ReferralCreate, ReferralCheck, ReferralInvitee,
     ReferralInviterGet, ReferralInviterCreate, ReferralInviter, AdminAddCredits,
     AdminGet, AdminAdd, ConfigureAutoRefill, ConfigureGet, ConfigurePut,
     PurchaseCredits, PurchaseAsk, PurchaseSession
<1>2. ~Usage(r)
  BY DEF Usage, ReportUsage, ReportGet, ReportCreate, BatchGet, UsageExists, UsageCommit,
     Refill, RefillPay, RefillGet, RefillAdd, CheckBalance, CheckGet, CheckCreate
<1>3. ~Accounts(r) /\ ~Subscribe(r)
  BY DEF Accounts, CreateAccount, CreateGet, CreateCustomer, CreatePut, GetAccount,
     GetAccountGet, GetAccountCreate, DeleteAccountHandler, Subscribe, ZeroPro,
     SubscribeGet, SubscribeCustomer, SubscribePut, SubscribePay, CheckoutAsk, PortalAsk,
     CancelAsk, StripeCall
<1> QED
  BY <1>1, <1>2, <1>3 DEF Handler

-----------------------------------------------------------------------------
(* ... and what it notes of the deliveries.                                *)

\* Only events of Stripe are delivered.
LEMMA OnlyStripe ==
  ASSUME StripeOnly, ProcInv, NEW r \in Request, proc[r].pc # "new"
  PROVE  proc[r].call.op \notin {"lago_webhook", "delete_account"}
BY DEF StripeOnly, ProcInv, Held, Callable, Delivery

\* The other requests take no step of a delivery, and so note nothing.
LEMMA OtherRequests ==
  ASSUME StripeOnly, Served, NEW r \in Request, Handler(r), Arg(r).op # "stripe_webhook"
  PROVE  /\ proc[r].pc \notin WebhookPcs /\ proc'[r].pc \notin WebhookPcs
         /\ processed_webhooks' = processed_webhooks
<1>1. /\ Served' /\ proc[r].pc \notin {"new", "done"} /\ proc'[r].call = proc[r].call
  BY HandlerServed
<1>2. proc[r].call.op \notin {"lago_webhook", "stripe_webhook"}
  BY <1>1, OnlyStripe DEF Served, Inv, Arg
<1>3. CallAt(proc[r]) /\ CallAt(proc[r])'
  BY <1>1 DEF Served, Serial
<1>4. proc[r].pc \notin WebhookPcs /\ proc'[r].pc \notin WebhookPcs
  BY <1>1, <1>2, <1>3 DEF CallAt
<1>5. ~RecordEvent(r)
  BY <1>4 DEF RecordEvent, At, WebhookPcs, StripeEvents
<1> QED
  BY <1>4, <1>5, HandlerRecords DEF Served, Inv

\* What the step of a request notes.
Applies(r) ==
  \/ /\ Arg(r).op = "stripe_webhook" /\ proc[r].pc # "subscription.create"
     /\ <<accounts, ledger>>' # <<accounts, ledger>>
  \/ proc[r].pc # "record" /\ proc'[r].pc = "record"

Notes(r) ==
  /\ proc[r].pc \notin StripePcs /\ Handler(r)
  /\ acknowledged' = IF Acknowledges(r) THEN acknowledged \cup {Arg(r).id} ELSE acknowledged
  /\ applied' = IF Applies(r) THEN applied \cup {Arg(r).id} ELSE applied
  /\ late' = IF Applies(r) /\ Overtaken(Arg(r).id) THEN late \cup {Arg(r).id} ELSE late
  /\ UNCHANGED <<stripeVars, cut>>

LEMMA StepNotes == ASSUME NEW r \in Request, Step(r) PROVE Notes(r)
BY DEF Step, Notes, Applies

LEMMA OthersNoteNothing ==
  ASSUME StripeOnly, Served, NEW r \in Request, Notes(r), Arg(r).op # "stripe_webhook"
  PROVE  ~Applies(r) /\ UNCHANGED <<acknowledged, applied, late, processed_webhooks>>
<1>1. proc'[r].pc \notin WebhookPcs /\ processed_webhooks' = processed_webhooks
  BY OtherRequests DEF Notes
<1>2. proc'[r].pc # "record"
  BY <1>1 DEF WebhookPcs, StripeEvents
<1> QED
  BY <1>1, <1>2 DEF Notes, Applies, Acknowledges

\* The steps of a delivery, and where they lead.
LEMMA DeliverySteps ==
  ASSUME Served, Owned, NEW r \in Request, Handler(r), OnEvent(proc[r])
  PROVE  /\ Webhooks(r)
         /\ \/ StripeReceive(r)
            \/ RecordEvent(r) /\ proc[r].pc = "record"
            \/ proc[r].pc \in OtherPcs /\ Lands(r, OtherPcs \cup {"record"})
            \/ /\ proc[r].pc \in {"subscription.updated", "subscription.create"}
               /\ Lands(r, {"subscription.create", "subscription.put"})
            \/ proc[r].pc \in {"subscription.put"} \cup ReferralPcs /\ Lands(r, ReferralPcs \cup {"record"})
            \/ proc[r].pc = "subscription.deleted" /\ Lands(r, {"deleted.put", "record"})
            \/ proc[r].pc = "invoice.payment_failed" /\ Lands(r, {"failed.put", "record"})
            \/ proc[r].pc \in {"deleted.put", "failed.put"} /\ Lands(r, {"record"})
<1>1. proc[r].pc \notin {"new", "done"} /\ ProcInv
  BY HandlerServed DEF Served, Inv
<1>2. proc[r].pc \in WebhookPcs \cup {"stripe_webhook"} /\ proc[r].pc # "resolve"
  BY <1>1 DEF OnEvent
<1>3. Webhooks(r)
  BY <1>2, OnlyWebhooks
<1>4. ~Resolve(r) /\ ~LagoReceive(r)
  BY <1>2 DEF Resolve, LagoReceive, At, WebhookPcs, StripeEvents, LagoEvents
<1>5. CASE StripeReceive(r)
  BY <1>3, <1>5
<1>6. CASE RecordEvent(r)
  BY <1>3, <1>6 DEF RecordEvent, At
<1>7. CASE Checkout(r) \/ InvoicePaid(r) \/ LagoSubscriptionStarted(r)
  BY <1>1, <1>3, <1>7, OtherDeliveries
<1>8. CASE SubscriptionUpdate(r) \/ SubscriptionDeleted(r) \/ PaymentFailed(r)
  BY <1>1, <1>3, <1>8, StatusDeliveries
<1> QED
  BY <1>3, <1>4, <1>5, <1>6, <1>7, <1>8 DEF Webhooks

LEMMA DeliveryGoesOn ==
  ASSUME Served, Owned, StripeStored, History, NEW r \in Request, Notes(r), OnEvent(proc[r]),
         Arg(r).op = "stripe_webhook"
  PROVE  OnEvent(proc[r])' /\ History'
<1> DEFINE c == proc[r].call
<1>1. /\ Served' /\ proc[r].pc \notin {"new", "done"} /\ proc'[r].call = proc[r].call /\ ProcInv
  BY HandlerServed DEF Served, Inv, Notes
<1>2. /\ c.id \in DOMAIN events /\ c = events[c.id] /\ events' = events /\ ~c.lookup
      /\ c.event \in StripeEvents
  BY DEF OnEvent, Notes, stripeVars, Owned, StripeStored, Delivery, WellFormed
<1>3. proc'[r].pc = "record" => c.id \in applied'
  BY DEF Notes, Applies, OnEvent, Arg
<1>4. proc[r].answer = None
  <2>1. Busy(r)
    BY <1>1 DEF Busy, OnEvent, RefillPcs, WebhookPcs, StripeEvents, LagoEvents
  <2> QED
    BY <2>1 DEF Served, Serial, OneRuns
<1>5. CASE StripeReceive(r)
  <2>1. \/ proc'[r].pc = "done" /\ c.id \in processed_webhooks
        \/ proc'[r].pc = c.event /\ proc'[r].answer = None
    BY <1>1, <1>2, <1>4, <1>5, Locals DEF StripeReceive, Becomes, Arg
  <2>2. processed_webhooks' = processed_webhooks
    BY <1>5 DEF StripeReceive, storeVars
  <2>3. OnEvent(proc[r])'
    BY <1>1, <1>2, <1>3, <2>1 DEF OnEvent, WebhookPcs, StripeEvents, LagoEvents, UpdatePcs, DeletedPcs,
       FailedPcs, ReferralPcs, StatusTypes
  <2>4. Acknowledges(r) => c.id \in applied
    BY <2>1, ResponseAssumption DEF Acknowledges, History, Response
  <2> QED
    BY <1>2, <2>2, <2>3, <2>4 DEF Notes, History, Arg
<1>6. CASE RecordEvent(r) /\ proc[r].pc = "record"
  <2>1. proc'[r].pc = "done"
    BY <1>1, <1>6, Locals DEF RecordEvent, Becomes
  <2>2. processed_webhooks' = processed_webhooks \cup {c.id}
    BY <1>6 DEF RecordEvent, RecordWebhookEvent, Arg
  <2>3. c.id \in applied
    BY <1>6 DEF OnEvent
  <2>4. OnEvent(proc[r])'
    BY <1>1, <1>2, <2>1 DEF OnEvent, WebhookPcs, StripeEvents, LagoEvents, UpdatePcs, DeletedPcs,
       FailedPcs, ReferralPcs
  <2> QED
    BY <1>2, <2>2, <2>3, <2>4 DEF Notes, History, Arg
<1>7. CASE ~StripeReceive(r) /\ ~RecordEvent(r)
  <2>1. processed_webhooks' = processed_webhooks
    BY <1>1, <1>7, HandlerRecords DEF Notes
  <2>2. /\ \/ proc[r].pc \in OtherPcs /\ proc'[r].pc \in OtherPcs \cup {"record", "done"}
           \/ proc[r].pc \in UpdatePcs /\ proc'[r].pc \in UpdatePcs \cup {"record", "done"}
           \/ proc[r].pc \in DeletedPcs /\ proc'[r].pc \in {"deleted.put", "record", "done"}
           \/ proc[r].pc \in FailedPcs /\ proc'[r].pc \in {"failed.put", "record", "done"}
        /\ proc'[r].answer \in {None, "not_found"}
    BY <1>4, <1>7, DeliverySteps DEF Notes, Lands, UpdatePcs, DeletedPcs, FailedPcs
  <2>3. OnEvent(proc[r])'
    BY <1>1, <1>2, <1>3, <2>2 DEF OnEvent, WebhookPcs, StripeEvents, LagoEvents, UpdatePcs, DeletedPcs,
       FailedPcs, ReferralPcs, OtherPcs, StatusTypes
  <2>4. ~Acknowledges(r)
    BY <2>2, ResponseAssumption DEF Acknowledges, Response
  <2> QED
    BY <1>2, <2>1, <2>3, <2>4 DEF Notes, History, Arg
<1> QED
  BY <1>5, <1>6, <1>7 DEF RecordEvent, At

LEMMA DeliveriesStep ==
  ASSUME StripeOnly, Served, Owned, StripeStored, History, Deliveries, NEW r \in Request, Notes(r)
  PROVE  Deliveries' /\ History'
<1>1. /\ Served' /\ proc[r].pc \notin {"new", "done"} /\ proc'[r].call = proc[r].call
      /\ \A s \in Request \ {r} : proc'[s].pc = "new"
  BY HandlerServed DEF Notes
<1>2. CASE Arg(r).op = "stripe_webhook"
  <2>1. OnEvent(proc[r])' /\ History'
    BY <1>1, <1>2, DeliveryGoesOn DEF Deliveries
  <2> QED
    BY <1>1, <2>1 DEF Deliveries, OnEvent
<1>3. CASE Arg(r).op # "stripe_webhook"
  <2>1. UNCHANGED <<acknowledged, applied, late, processed_webhooks>> /\ events' = events
    BY <1>3, OthersNoteNothing DEF Notes, stripeVars
  <2> QED
    BY <1>1, <1>3, <2>1 DEF Deliveries, History, Arg
<1> QED
  BY <1>2, <1>3

-----------------------------------------------------------------------------
(* ... and what it does to the subscriptions on record.                    *)

PutPcs == {"subscription.put", "deleted.put", "failed.put"}

\* The subscription u has after the step.
Leaves(u) == IF accounts'[u] # None THEN accounts'[u].subscription ELSE None

KeptOf(u) == Leaves(u) = SubscriptionOf(u) /\ (Exists(u) => Stays(u))

KeepsSubscriptions == \A u \in User : KeptOf(u)

LEMMA SubscriptionOnPut ==
  ASSUME Inv, NEW u \in User, NEW a \in Account, PutAccount(u, a)
  PROVE  /\ Leaves(u) = a.subscription /\ Stays(u)
         /\ \A v \in User \ {u} : KeptOf(v)
BY NoneAssumption DEF Inv, StoreType, PutAccount, SubscriptionOf, Exists, KeptOf, Leaves, Stays

LEMMA EditsKeepSubscription ==
  ASSUME NEW a \in Account
  PROVE  /\ \A d \in Nat : /\ [a EXCEPT !.signup_grant = d] \in Account
                           /\ [a EXCEPT !.signup_grant = d].subscription = a.subscription
                           /\ [a EXCEPT !.last_daily = d] \in Account
                           /\ [a EXCEPT !.last_daily = d].subscription = a.subscription
                           /\ [a EXCEPT !.last_monthly = d] \in Account
                           /\ [a EXCEPT !.last_monthly = d].subscription = a.subscription
         /\ \A v \in User \cup {None} : /\ [a EXCEPT !.referred_by = v] \in Account
                                       /\ [a EXCEPT !.referred_by = v].subscription = a.subscription
         /\ \A b \in BOOLEAN : /\ [a EXCEPT !.stripe_customer = b] \in Account
                               /\ [a EXCEPT !.stripe_customer = b].subscription = a.subscription
         /\ \A s \in Subscription \cup {None} : /\ [a EXCEPT !.subscription = s] \in Account
                                               /\ [a EXCEPT !.subscription = s].subscription = s
BY DEF Account, Day

LEMMA MarksKeepSubscription ==
  ASSUME Inv, NEW r \in Request, Fresh(proc[r]),
         SignupMark(r) \/ DailyMark(r) \/ MonthlyMark(r) \/ InvoiceMark(r)
  PROVE  KeepsSubscriptions
<1> DEFINE c == proc[r].copy
           u == proc[r].call.user
<1>1. proc[r].pc \in {"signup.mark", "daily.mark", "monthly.mark", "invoice.mark"}
  BY DEF SignupMark, DailyMark, MonthlyMark, InvoiceMark, At
<1>2. /\ proc[r].pc # "new" /\ c \in Account /\ u \in User /\ today \in Nat
      /\ proc[r].pc = "monthly.mark" => proc[r].kept \in Nat
      /\ proc[r].call.other \in User \cup {None}
  BY <1>1, Stepping DEF CopyPcs, Sound, HoldsCopy, Call
<1>3. AsRow(c, u)
  BY <1>1 DEF Fresh, FreshPcs
<1>4. c.subscription = SubscriptionOf(u)
  BY <1>3 DEF AsRow, SubscriptionOf, SameMarks
<1>5. \E a \in Account : PutAccount(u, a) /\ a.subscription = c.subscription
  <2>1. CASE SignupMark(r)
    <3> DEFINE a1 == [c EXCEPT !.signup_grant = today]
               a == [a1 EXCEPT !.referred_by = proc[r].call.other]
    <3>1. PutAccount(u, a)
      BY <2>1 DEF SignupMark, Copy, Arg
    <3>2. a1 \in Account /\ a1.subscription = c.subscription
      BY <1>2, EditsKeepSubscription
    <3> HIDE DEF a1
    <3>3. a \in Account /\ a.subscription = c.subscription
      BY <1>2, <3>2, EditsKeepSubscription
    <3> QED
      BY <3>1, <3>3
  <2>2. CASE DailyMark(r)
    <3> DEFINE a == [c EXCEPT !.last_daily = today]
    <3>1. PutAccount(u, a)
      BY <2>2 DEF DailyMark, Copy, Arg
    <3>2. a \in Account /\ a.subscription = c.subscription
      BY <1>2, EditsKeepSubscription
    <3> HIDE DEF a
    <3> QED
      BY <3>1, <3>2
  <2>3. CASE MonthlyMark(r)
    <3> DEFINE a == [c EXCEPT !.last_monthly = proc[r].kept]
    <3>0. proc[r].kept \in Nat
      BY <1>2, <2>3 DEF MonthlyMark, At
    <3>1. PutAccount(u, a)
      BY <2>3 DEF MonthlyMark, Copy, Arg
    <3>2. a \in Account /\ a.subscription = c.subscription
      BY <1>2, <3>0, EditsKeepSubscription
    <3> HIDE DEF a
    <3> QED
      BY <3>1, <3>2
  <2>4. CASE InvoiceMark(r)
    <3> DEFINE a == [c EXCEPT !.last_monthly = today]
    <3>1. PutAccount(u, a)
      BY <2>4 DEF InvoiceMark, Copy, Arg
    <3>2. a \in Account /\ a.subscription = c.subscription
      BY <1>2, EditsKeepSubscription
    <3> HIDE DEF a
    <3> QED
      BY <3>1, <3>2
  <2> QED
    BY <2>1, <2>2, <2>3, <2>4
<1> HIDE DEF c, u
<1>6. Leaves(u) = SubscriptionOf(u) /\ Stays(u) /\ \A v \in User \ {u} : KeptOf(v)
  BY <1>2, <1>4, <1>5, SubscriptionOnPut
<1> QED
  BY <1>6 DEF KeepsSubscriptions, KeptOf

LEMMA SubscriptionsKept ==
  ASSUME StripeOnly, Served, NEW r \in Request, Handler(r), proc[r].pc \notin PutPcs
  PROVE  KeepsSubscriptions
<1>1. Inv /\ Fresh(proc[r]) /\ CallAt(proc[r]) /\ ProcInv
  BY DEF Served, Serial, Inv
<1>2. proc[r].pc # "new"
  BY HandlerServed
<1>3. ~DeleteAccountHandler(r)
  BY <1>1, <1>2, OnlyStripe DEF DeleteAccountHandler, At, CallAt, SentPcs
<1>4. ~SubscriptionPut(r) /\ ~DeletedPut(r) /\ ~FailedPut(r)
  BY DEF SubscriptionPut, DeletedPut, FailedPut, At, PutPcs
<1>5. Serially(r)
  BY <1>1, HandlerSerial
<1>6. Unmarked => KeepsSubscriptions
  BY DEF Unmarked, SameMarks, KeepsSubscriptions, KeptOf, Leaves, Stays, SubscriptionOf, Exists
<1> QED
  BY <1>1, <1>3, <1>4, <1>5, <1>6, MarksKeepSubscription DEF Serially

\* Which step of a delivery it is.
LEMMA StatusSteps ==
  ASSUME NEW r \in Request, Webhooks(r)
  PROVE  /\ proc[r].pc = "subscription.updated" => SubscriptionGet(r)
         /\ proc[r].pc = "subscription.create" => SubscriptionCreate(r)
         /\ proc[r].pc = "subscription.put" => SubscriptionPut(r)
         /\ proc[r].pc = "subscription.deleted" => DeletedGet(r)
         /\ proc[r].pc = "deleted.put" => DeletedPut(r)
         /\ proc[r].pc = "invoice.payment_failed" => FailedGet(r)
         /\ proc[r].pc = "failed.put" => FailedPut(r)
         /\ proc[r].pc = "record" => RecordEvent(r)
BY DEF Webhooks, SubscriptionUpdate, SubscriptionGet, SubscriptionCreate, SubscriptionPut,
   SubscriptionReferral, SubscriptionInvitee, SubscriptionInviterGet, SubscriptionInviterCreate,
   SubscriptionInviter, StripeReceive, Resolve, Checkout, CheckoutGet, CheckoutCreate, CheckoutPut,
   PurchaseGet, PurchaseAdd, SubscriptionDeleted, DeletedGet, DeletedPut, PaymentFailed, FailedGet,
   FailedPut, InvoicePaid, InvoiceGet, InvoiceProrate, InvoiceAdd, InvoiceReread, InvoiceMark,
   LagoReceive, LagoSubscriptionStarted, LagoGet, LagoCreate, LagoAdd, RecordEvent, At

\* What the puts write is what the event says, but a payment that failed
\* marks whichever subscription is on record.
LEMMA PutSays ==
  ASSUME Served, Owned, NEW r \in Request, Handler(r), OnEvent(proc[r]), proc[r].pc \in PutPcs
  PROVE  LET u == proc[r].call.user
             id == proc[r].call.id
         IN  /\ Stays(u) /\ \A v \in User \ {u} : KeptOf(v)
             /\ proc[r].pc # "failed.put" => Leaves(u) = Says(id)
             /\ proc[r].pc = "failed.put" =>
                  /\ SubscriptionOf(u) \in Subscription
                  /\ Leaves(u) = [SubscriptionOf(u) EXCEPT !.status = "past_due"]
<1> DEFINE c == proc[r].copy
           u == proc[r].call.user
           id == proc[r].call.id
<1>1. Inv /\ Fresh(proc[r]) /\ proc[r].pc # "new"
  BY DEF Served, Serial, PutPcs
<1>2. c \in Account /\ u \in User /\ HoldsCall(proc[r].pc, proc[r].call)
      /\ HoldsCopy(proc[r].pc, c, proc[r].kept)
  BY <1>1, Stepping DEF CopyPcs, Sound, PutPcs
<1>3. AsRow(c, u)
  BY <1>1 DEF Fresh, FreshPcs, PutPcs
<1>4. c.subscription = SubscriptionOf(u)
  BY <1>3 DEF AsRow, SubscriptionOf, SameMarks
<1>5. proc[r].call = events[id] /\ Webhooks(r)
  BY DeliverySteps DEF OnEvent
<1>6. \A a \in Account : PutAccount(u, a) =>
        Leaves(u) = a.subscription /\ Stays(u) /\ \A v \in User \ {u} : KeptOf(v)
  BY <1>1, <1>2, SubscriptionOnPut
<1>7. CASE proc[r].pc = "subscription.put"
  <2> DEFINE sub == [proc[r].call.subscription EXCEPT !.status = MappedStatus(proc[r].call.reason)]
             a1 == [c EXCEPT !.subscription = sub]
             a == [a1 EXCEPT !.stripe_customer = TRUE]
  <2>1. SubscriptionPut(r)
    BY <1>5, <1>7, StatusSteps
  <2>2. PutAccount(u, a)
    BY <2>1 DEF SubscriptionPut, Copy, Arg
  <2>3. sub \in Subscription
    <3>1. MappedStatus(proc[r].call.reason) \in {"active", "cancelled", "past_due"}
      BY DEF MappedStatus
    <3>2. proc[r].call.subscription \in Subscription
      BY <1>2, <1>7 DEF HoldsCall
    <3> QED
      BY <3>1, <3>2 DEF Subscription
  <2>4. sub = Says(id)
    <3>1. events[id].event = "subscription.updated"
      BY <1>5, <1>7 DEF OnEvent, UpdatePcs
    <3> QED
      BY <1>5, <3>1 DEF Says
  <2> HIDE DEF sub
  <2>5. a1 \in Account /\ a1.subscription = sub
    BY <1>2, <2>3, EditsKeepSubscription
  <2> HIDE DEF a1
  <2>6. a \in Account /\ a.subscription = sub
    BY <2>5, EditsKeepSubscription
  <2> QED
    BY <1>6, <1>7, <2>2, <2>4, <2>6
<1>8. CASE proc[r].pc = "deleted.put"
  <2> DEFINE a == [c EXCEPT !.subscription = None]
  <2>1. DeletedPut(r)
    BY <1>5, <1>8, StatusSteps
  <2>2. PutAccount(u, a)
    BY <2>1 DEF DeletedPut, Copy, Arg
  <2>3. a \in Account /\ a.subscription = None
    BY <1>2, EditsKeepSubscription
  <2>4. Says(id) = None
    BY <1>5, <1>8 DEF Says, OnEvent, DeletedPcs
  <2> HIDE DEF a
  <2> QED
    BY <1>6, <1>8, <2>2, <2>3, <2>4
<1>9. CASE proc[r].pc = "failed.put"
  <2> DEFINE s == [c.subscription EXCEPT !.status = "past_due"]
             a == [c EXCEPT !.subscription = s]
  <2>1. FailedPut(r)
    BY <1>5, <1>9, StatusSteps
  <2>2. PutAccount(u, a)
    BY <1>2, <2>1 DEF FailedPut, Copy, Arg, Account
  <2>3. c.subscription \in Subscription
    BY <1>2, <1>9 DEF HoldsCopy
  <2>4. s \in Subscription
    BY <2>3 DEF Subscription
  <2>5. s = [SubscriptionOf(u) EXCEPT !.status = "past_due"] /\ SubscriptionOf(u) \in Subscription
    BY <1>4, <2>3
  <2> HIDE DEF s
  <2>6. a \in Account /\ a.subscription = s
    BY <1>2, <2>4, EditsKeepSubscription
  <2> HIDE DEF a
  <2> QED
    BY <1>6, <1>9, <2>2, <2>5, <2>6
<1> QED
  BY <1>7, <1>8, <1>9 DEF PutPcs

-----------------------------------------------------------------------------
(* ... and so what is on record follows the events.                        *)

\* The status before a payment failed was the one the event is about.
LEMMA FailedSays ==
  ASSUME Sold, History, StatusInOrder, NEW id \in DOMAIN events,
         events[id].event = "invoice.payment_failed", id - 1 \in applied, ~Overtaken(id),
         Follows(events[id].user)
  PROVE  SubscriptionOf(events[id].user) = Says(id)
<1> DEFINE u == events[id].user
<1>1. /\ DOMAIN events \subseteq Int /\ applied \subseteq DOMAIN events
      /\ events[id].event \in StatusTypes
  BY DEF Sold, StripeStored, History, StatusTypes
<1>2. \A j \in StatusOf(u, applied) : j <= id /\ j \in Int
  BY <1>1 DEF Overtaken, StatusOf
<1>3. CASE id \in applied
  <2>1. id \in StatusOf(u, applied)
    BY <1>1, <1>3 DEF StatusOf
  <2> QED
    BY <1>2, <2>1 DEF Follows
<1>4. CASE id \notin applied
  <2>1. /\ events[id-1].event = "subscription.updated" /\ events[id-1].user = u
        /\ events[id-1].reason = "past_due" /\ events[id-1].subscription = events[id].subscription
    BY DEF Sold, Paired
  <2>2. id - 1 \in StatusOf(u, applied) /\ \A j \in StatusOf(u, applied) : j <= id - 1
    BY <1>1, <1>2, <1>4, <2>1 DEF StatusOf, StatusTypes
  <2>3. SubscriptionOf(u) = Says(id - 1)
    BY <2>1, <2>2 DEF Follows
  <2> QED
    BY <2>1, <2>3 DEF Says, MappedStatus
<1> QED
  BY <1>3, <1>4

\* A step by which an event about a status is applied.
LEMMA AppliedSays ==
  ASSUME StripeOnly, Served, Sold, History, AllFollow, PutFollows, NEW r \in Request, Handler(r),
         OnEvent(proc[r]), Applies(r), proc[r].call.event \in StatusTypes
  PROVE  LET u == proc[r].call.user
             id == proc[r].call.id
         IN  /\ \A v \in User \ {u} : KeptOf(v)
             /\ Exists(u) => Stays(u)
             /\ events[id].event # "invoice.payment_failed" => Leaves(u) = Says(id)
             /\ events[id].event = "subscription.updated" => Stays(u)
             /\ events[id].event = "invoice.payment_failed" =>
                  /\ Leaves(u) # None \/ SubscriptionOf(u) = None
                  /\ StatusInOrder /\ ~Overtaken(id) /\ id - 1 \in applied => Leaves(u) = Says(id)
<1> DEFINE u == proc[r].call.user
           id == proc[r].call.id
<1>1. /\ u \in User /\ ProcInv /\ Inv /\ Owned /\ proc[r].pc # "new"
  BY HandlerServed, Stepping DEF Served, Sold
<1>2. /\ proc[r].call = events[id] /\ id \in DOMAIN events /\ Webhooks(r)
  BY <1>1, DeliverySteps DEF OnEvent
<1>3. proc[r].pc \notin PutPcs => KeepsSubscriptions
  BY SubscriptionsKept
<1>4. ~RecordEvent(r) /\ ~StripeReceive(r)
  <2>1. CASE RecordEvent(r)
    BY <2>1 DEF RecordEvent, RecordWebhookEvent, Applies, At
  <2>2. CASE StripeReceive(r)
    <3>1. UNCHANGED <<accounts, ledger>> /\ proc'[r].pc # "record"
      BY <1>1, <1>2, <2>2, Locals DEF StripeReceive, storeVars, Becomes, Arg, StatusTypes, Sold, Owned
    <3> QED
      BY <3>1 DEF Applies
  <2> QED
    BY <2>1, <2>2
<1>5. StatusInOrder /\ ~Overtaken(id) /\ id - 1 \in applied /\ events[id].event = "invoice.payment_failed"
        => SubscriptionOf(u) = Says(id)
  BY <1>1, <1>2, FailedSays DEF AllFollow
<1>6. CASE proc[r].pc \in PutPcs
  <2>1. /\ Stays(u) /\ \A v \in User \ {u} : KeptOf(v)
        /\ proc[r].pc # "failed.put" => Leaves(u) = Says(id)
        /\ proc[r].pc = "failed.put" =>
             /\ SubscriptionOf(u) \in Subscription
             /\ Leaves(u) = [SubscriptionOf(u) EXCEPT !.status = "past_due"]
    BY <1>1, <1>6, PutSays
  <2>2. proc[r].pc = "failed.put" <=> events[id].event = "invoice.payment_failed"
    BY <1>2, <1>6 DEF OnEvent, PutPcs, UpdatePcs, DeletedPcs, FailedPcs
  <2>3. ASSUME proc[r].pc = "failed.put"
        PROVE  /\ Leaves(u) # None
               /\ SubscriptionOf(u) = Says(id) => Leaves(u) = Says(id)
    <3>1. Leaves(u) \in Subscription
      BY <2>1, <2>3 DEF Subscription
    <3>2. events[id].event = "invoice.payment_failed" /\ events[id].subscription \in Subscription
      BY <1>1, <1>2, <2>2, <2>3 DEF Owned, StatusTypes
    <3>3. [Says(id) EXCEPT !.status = "past_due"] = Says(id)
      BY <3>2 DEF Says, Subscription
    <3> QED
      BY <2>1, <2>3, <3>1, <3>3, NoneAssumption
  <2> QED
    BY <1>5, <2>1, <2>2, <2>3
<1>7. CASE proc[r].pc \notin PutPcs
  <2>1. Leaves(u) = SubscriptionOf(u) /\ (Exists(u) => Stays(u)) /\ \A v \in User : KeptOf(v)
    BY <1>1, <1>3, <1>7 DEF KeepsSubscriptions, KeptOf
  <2>2. \/ proc[r].pc \in ReferralPcs
        \/ proc[r].pc = "subscription.deleted" /\ DeletedGet(r)
        \/ proc[r].pc = "invoice.payment_failed" /\ FailedGet(r)
    <3>1. ~(proc[r].pc \in OtherPcs)
      BY DEF OnEvent, OtherPcs, WebhookPcs, StripeEvents, LagoEvents, UpdatePcs, DeletedPcs, FailedPcs, ReferralPcs
    <3>2. ~(proc[r].pc = "subscription.updated")
      <4>1. ASSUME proc[r].pc = "subscription.updated" PROVE FALSE
        <5>1. SubscriptionGet(r)
          BY <1>2, <4>1, StatusSteps
        <5>2. UNCHANGED <<accounts, ledger>> /\ proc'[r].pc # "record"
          BY <1>1, <5>1, HelpersLand DEF SubscriptionGet, GetOrElse, storeVars, Lands
        <5> QED
          BY <5>2 DEF Applies
      <4> QED
        BY <4>1
    <3>3. ~(proc[r].pc = "subscription.create")
      <4>1. ASSUME proc[r].pc = "subscription.create" PROVE FALSE
        <5>1. SubscriptionCreate(r)
          BY <1>2, <4>1, StatusSteps
        <5>2. proc'[r].pc # "record"
          BY <1>1, <5>1, HelpersLand DEF SubscriptionCreate, Lands
        <5> QED
          BY <4>1, <5>2 DEF Applies
      <4> QED
        BY <4>1
    <3> QED
      BY <1>1, <1>2, <1>4, <1>7, <3>1, <3>2, <3>3, DeliverySteps, StatusSteps DEF PutPcs
  <2>3. CASE proc[r].pc \in ReferralPcs
    <3>1. events[id].event = "subscription.updated"
      BY <1>2, <2>3 DEF OnEvent, UpdatePcs
    <3>2. SubscriptionOf(u) = Says(id) /\ Exists(u)
      BY <2>3 DEF PutFollows, Arg
    <3> QED
      BY <2>1, <3>1, <3>2
  <2>4. CASE proc[r].pc = "subscription.deleted" /\ DeletedGet(r)
    <3>1. events[id].event = "subscription.deleted"
      BY <1>2, <2>4 DEF OnEvent, DeletedPcs
    <3>2. ~Exists(u)
      <4>1. Exists(u) => UNCHANGED <<accounts, ledger>> /\ proc'[r].pc # "record"
        BY <1>1, <2>4, Locals DEF DeletedGet, storeVars, Becomes, Arg
      <4> QED
        BY <4>1 DEF Applies
    <3> QED
      BY <2>1, <3>1, <3>2 DEF SubscriptionOf, Says
  <2>5. CASE proc[r].pc = "invoice.payment_failed" /\ FailedGet(r)
    <3>1. events[id].event = "invoice.payment_failed"
      BY <1>2, <2>5 DEF OnEvent, FailedPcs
    <3>2. ~Exists(u) \/ accounts[u].subscription = None
      <4>1. Exists(u) /\ accounts[u].subscription # None => UNCHANGED <<accounts, ledger>> /\ proc'[r].pc # "record"
        BY <1>1, <2>5, Locals DEF FailedGet, storeVars, Becomes, Arg
      <4> QED
        BY <4>1 DEF Applies
    <3> QED
      BY <1>5, <2>1, <3>1, <3>2 DEF SubscriptionOf
  <2> QED
    BY <2>2, <2>3, <2>4, <2>5
<1> QED
  BY <1>6, <1>7

\* Steps that apply no event.
LEMMA QuietFollows ==
  ASSUME Sold, Grows, History, applied' = applied, late' = late, KeepsSubscriptions,
         Opened, AllFollow, AllForgotten
  PROVE  Opened' /\ AllFollow' /\ AllForgotten'
<1>1. \A i \in applied : i \in DOMAIN events /\ events'[i] = events[i] /\ events[i].user \in User
  BY DEF History, Grows, Sold, StripeStored, Delivery, Call
<1>2. StatusInOrder' <=> StatusInOrder
  BY OrderKept
<1>3. \A v \in User : SubscriptionOf(v)' = SubscriptionOf(v) /\ (Exists(v) => Exists(v)')
  BY DEF KeepsSubscriptions, KeptOf, Leaves, Stays, SubscriptionOf, Exists
<1>4. Opened'
  BY <1>1, <1>3 DEF Opened
<1>5. ASSUME NEW v \in User PROVE Follows(v)'
  <2>1. StatusOf(v, applied)' = StatusOf(v, applied)
    BY <1>1 DEF StatusOf
  <2>2. \A k \in StatusOf(v, applied) : events'[k] = events[k] /\ Says(k)' = Says(k)
    BY <1>1 DEF StatusOf, Says
  <2> QED
    BY <1>2, <1>3, <1>5, <2>1, <2>2 DEF AllFollow, Follows
<1>6. ASSUME NEW v \in User PROVE Forgets(v)'
  <2>1. Settled(v, applied)' <=> Settled(v, applied)
    BY <1>1 DEF Settled, ForgottenSince
  <2> QED
    BY <1>2, <1>3, <2>1 DEF AllForgotten, Forgets
<1> QED
  BY <1>4, <1>5, <1>6 DEF AllFollow, AllForgotten

\* An event that is about no status of v.
LEMMA OthersFollow ==
  ASSUME Sold, History, NEW v \in User, KeptOf(v), Follows(v), Forgets(v), UNCHANGED events, NEW id,
         applied' = applied \cup {id}, late \subseteq late',
         ~(events[id].event \in StatusTypes /\ events[id].user = v)
  PROVE  Follows(v)' /\ Forgets(v)'
<1>1. StatusInOrder' => StatusInOrder
  BY DEF StatusInOrder, Status
<1>2. SubscriptionOf(v)' = SubscriptionOf(v)
  BY DEF KeptOf, Leaves, SubscriptionOf, Exists
<1>3. StatusOf(v, applied)' = StatusOf(v, applied)
  BY DEF StatusOf
<1>4. \A k \in StatusOf(v, applied) :
        events[k].event = "invoice.payment_failed" /\ k - 1 \in applied' => k - 1 \in applied
  BY DEF StatusOf, StatusTypes, Sold, Paired, History
<1>5. \A k : Says(k)' = Says(k)
  BY DEF Says
<1>6. Follows(v)'
  BY <1>1, <1>2, <1>3, <1>4, <1>5 DEF Follows
<1>7. Settled(v, applied) => Settled(v, applied)'
  BY DEF Settled, ForgottenSince, StatusTypes
<1>8. Forgets(v)'
  BY <1>1, <1>2, <1>7 DEF Forgets
<1> QED
  BY <1>6, <1>8

\* An event about the status of v.
LEMMA OwnFollows ==
  ASSUME Sold, History, NEW v \in User, Forgets(v), UNCHANGED events, NEW id \in DOMAIN events,
         events[id].event \in StatusTypes, events[id].user = v,
         applied' = applied \cup {id}, late' = IF Overtaken(id) THEN late \cup {id} ELSE late,
         events[id].event # "invoice.payment_failed" => Leaves(v) = Says(id),
         events[id].event = "invoice.payment_failed" =>
           /\ Leaves(v) # None \/ SubscriptionOf(v) = None
           /\ StatusInOrder /\ ~Overtaken(id) /\ id - 1 \in applied => Leaves(v) = Says(id)
  PROVE  Follows(v)' /\ Forgets(v)'
<1>1. /\ DOMAIN events \subseteq Int /\ applied \subseteq DOMAIN events
      /\ events[id].subscription \in Subscription
  BY DEF Sold, StripeStored, History, Owned
<1>2. StatusInOrder' => StatusInOrder /\ ~Overtaken(id)
  BY DEF StatusInOrder, Status
<1>3. SubscriptionOf(v)' = Leaves(v)
  BY DEF Leaves, SubscriptionOf, Exists
<1>4. ~Overtaken(id) => \A j \in applied : events[j].event \in StatusTypes => j <= id
  BY <1>1 DEF Overtaken
<1>5. \A k : Says(k)' = Says(k)
  BY DEF Says
<1>6. Follows(v)'
  <2> SUFFICES ASSUME StatusInOrder', NEW k \in StatusOf(v, applied)',
                      \A j \in StatusOf(v, applied)' : j <= k,
                      events'[k].event = "invoice.payment_failed" => k - 1 \in applied'
               PROVE  SubscriptionOf(v)' = Says(k)'
    BY DEF Follows
  <2>1. id \in StatusOf(v, applied)' /\ k \in applied' /\ events[k].event \in StatusTypes
    BY DEF StatusOf
  <2>2. k = id
    <3>1. id <= k /\ k \in Int /\ id \in Int
      BY <1>1, <2>1
    <3>2. k \in applied => k <= id
      BY <1>2, <1>4, <2>1
    <3> QED
      BY <2>1, <3>1, <3>2
  <2>3. events[id].event = "invoice.payment_failed" => id - 1 \in applied
    BY <1>1, <2>2
  <2> QED
    BY <1>2, <1>3, <1>5, <2>2, <2>3
<1>7. Forgets(v)'
  <2> SUFFICES ASSUME StatusInOrder', Leaves(v) = None
               PROVE  Settled(v, applied)'
    BY <1>3 DEF Forgets
  <2>1. CASE events[id].event = "subscription.updated"
    <3>1. Says(id) \in Subscription
      BY <1>1, <2>1 DEF Says, MappedStatus, Subscription
    <3> QED
      BY <2>1, <3>1, NoneAssumption
  <2>2. CASE events[id].event = "subscription.deleted"
    <3>1. \A i \in applied' : events[i].event = "subscription.updated" => id > i
      BY <1>1, <1>2, <1>4, <2>2 DEF StatusTypes
    <3> QED
      BY <2>2, <3>1 DEF Settled, ForgottenSince
  <2>3. CASE events[id].event = "invoice.payment_failed"
    <3>1. Settled(v, applied)
      BY <1>2, <2>3 DEF Forgets
    <3> QED
      BY <2>3, <3>1 DEF Settled, ForgottenSince
  <2> QED
    BY <2>1, <2>2, <2>3 DEF StatusTypes
<1> QED
  BY <1>6, <1>7

LEMMA AccountsFollow ==
  ASSUME StripeOnly, Served, Sold, History, Deliveries, Opened, AllFollow, PutFollows, AllForgotten,
         NEW r \in Request, Notes(r)
  PROVE  Opened' /\ AllFollow' /\ AllForgotten'
<1> DEFINE id == proc[r].call.id
<1>1. Grows /\ UNCHANGED events /\ Handler(r) /\ proc[r].pc # "new"
  BY HandlerServed DEF Notes, Grows, stripeVars
<1>2. CASE ~Applies(r)
  <2>1. KeepsSubscriptions
    <3>1. CASE proc[r].pc \notin PutPcs
      BY <1>1, <3>1, SubscriptionsKept
    <3>2. CASE proc[r].pc \in PutPcs
      <4>1. Arg(r).op = "stripe_webhook"
        BY <1>1, <3>2, OtherRequests DEF PutPcs, WebhookPcs
      <4>2. UNCHANGED accounts
        BY <1>2, <3>2, <4>1 DEF Applies, PutPcs
      <4> QED
        BY <4>2 DEF KeepsSubscriptions, KeptOf, Leaves, Stays, SubscriptionOf, Exists
    <3> QED
      BY <3>1, <3>2
  <2>2. applied' = applied /\ late' = late
    BY <1>2 DEF Notes
  <2> QED
    BY <1>1, <2>1, <2>2, QuietFollows
<1>3. CASE Applies(r)
  <2>1. Arg(r).op = "stripe_webhook"
    BY <1>3, OthersNoteNothing
  <2>2. OnEvent(proc[r])
    BY <1>1, <2>1 DEF Deliveries
  <2>3. /\ id \in DOMAIN events /\ proc[r].call = events[id] /\ events[id].user \in User
        /\ applied' = applied \cup {id} /\ late' = IF Overtaken(id) THEN late \cup {id} ELSE late
    BY <1>3, <2>2 DEF OnEvent, Notes, Arg, Sold, StripeStored, Delivery, Call
  <2>4. \A i \in applied : i \in DOMAIN events /\ events[i].user \in User
    BY DEF History, Sold, StripeStored, Delivery, Call
  <2>5. CASE events[id].event \notin StatusTypes
    <3>1. proc[r].pc \notin PutPcs
      BY <2>2, <2>3, <2>5 DEF OnEvent, PutPcs, UpdatePcs, DeletedPcs, FailedPcs, StatusTypes
    <3>2. \A v \in User : KeptOf(v)
      BY <1>1, <3>1, SubscriptionsKept DEF KeepsSubscriptions
    <3>3. \A v \in User : Follows(v)' /\ Forgets(v)'
      BY <1>1, <2>3, <2>5, <3>2, OthersFollow DEF AllFollow, AllForgotten
    <3>4. Opened'
      BY <1>1, <2>3, <2>4, <2>5, <3>2 DEF Opened, KeptOf, Stays, Exists, StatusTypes
    <3> QED
      BY <3>3, <3>4 DEF AllFollow, AllForgotten
  <2>6. CASE events[id].event \in StatusTypes
    <3> DEFINE u == proc[r].call.user
    <3>1. /\ \A v \in User \ {u} : KeptOf(v)
          /\ Exists(u) => Stays(u)
          /\ events[id].event # "invoice.payment_failed" => Leaves(u) = Says(id)
          /\ events[id].event = "subscription.updated" => Stays(u)
          /\ events[id].event = "invoice.payment_failed" =>
               /\ Leaves(u) # None \/ SubscriptionOf(u) = None
               /\ StatusInOrder /\ ~Overtaken(id) /\ id - 1 \in applied => Leaves(u) = Says(id)
      BY <1>1, <1>3, <2>2, <2>3, <2>6, AppliedSays
    <3>2. u = events[id].user
      BY <2>3
    <3> HIDE DEF u, id
    <3>3. ASSUME NEW v \in User PROVE Follows(v)' /\ Forgets(v)'
      <4>1. Follows(v) /\ Forgets(v)
        BY DEF AllFollow, AllForgotten
      <4>2. CASE v = u
        BY <1>1, <2>3, <2>6, <3>1, <3>2, <4>1, <4>2, OwnFollows
      <4>3. CASE v # u
        BY <1>1, <2>3, <3>1, <3>2, <4>1, <4>3, OthersFollow
      <4> QED
        BY <4>2, <4>3
    <3>4. Opened'
      <4>1. \A i \in applied' : events[i].event = "subscription.updated" => accounts'[events[i].user] # None
        BY <2>3, <2>4, <3>1, <3>2 DEF Opened, KeptOf, Stays, Exists
      <4> QED
        BY <1>1, <4>1 DEF Opened, Exists
    <3> QED
      BY <3>3, <3>4 DEF AllFollow, AllForgotten
  <2> QED
    BY <2>5, <2>6
<1> QED
  BY <1>2, <1>3

-----------------------------------------------------------------------------
(* The steps of the service beside Stripe.                                 *)

Accounted == Opened /\ AllFollow /\ AllForgotten

StripeInv == Served /\ Sold /\ History /\ Deliveries /\ Accounted /\ PutFollows

LEMMA SoldKept ==
  ASSUME Sold, UNCHANGED stripeVars, applied \subseteq applied', late \subseteq late'
  PROVE  Sold' /\ Grows
<1>1. UNCHANGED <<sessions, subscriptions, events>> /\ Grows
  BY DEF stripeVars, Grows
<1>2. StripeStored' /\ Inline' /\ Owned' /\ Paired'
  BY <1>1 DEF Sold, StripeStored, Inline, Owned, Paired
<1>3. Described'
  BY <1>1 DEF Sold, Described, Describes, EventsOf
<1>4. KnownApplied'
  BY <1>1 DEF Sold, KnownApplied
<1>5. StatusInOrder' => StatusInOrder
  BY <1>1 DEF StatusInOrder, Status
<1>6. SoldAfter'
  BY <1>1, <1>5 DEF Sold, SoldAfter, Settled, ForgottenSince
<1> QED
  BY <1>1, <1>2, <1>3, <1>4, <1>6 DEF Sold

LEMMA PutFollowsStep ==
  ASSUME StripeOnly, Served, Sold, Deliveries, PutFollows, NEW r \in Request, Notes(r)
  PROVE  PutFollows'
<1> DEFINE u == proc[r].call.user
           id == proc[r].call.id
<1>1. /\ Handler(r) /\ UNCHANGED events /\ proc[r].pc # "new" /\ proc'[r].call = proc[r].call
      /\ \A s \in Request \ {r} : proc'[s].pc = "new"
      /\ u \in User /\ Owned /\ ProcInv
  BY HandlerServed, Stepping DEF Notes, stripeVars, Sold, Served
<1>2. ASSUME proc'[r].pc \in ReferralPcs PROVE Leaves(u) = Says(id) /\ Stays(u)
  <2>1. OnEvent(proc[r])
    BY <1>1, <1>2, OtherRequests DEF ReferralPcs, WebhookPcs, Deliveries
  <2>2. proc[r].pc \in {"subscription.put"} \cup ReferralPcs
    <3>1. ~StripeReceive(r)
      <4>1. StripeReceive(r) => proc'[r].pc \in {"done", "resolve", proc[r].call.event}
        BY <1>1, Locals DEF StripeReceive, Becomes, Arg
      <4>2. proc[r].call.event \in StripeEvents
        BY <2>1 DEF OnEvent, Sold, StripeStored, Delivery, WellFormed
      <4> QED
        BY <1>2, <4>1, <4>2 DEF ReferralPcs, StripeEvents
    <3>2. ~RecordEvent(r)
      BY <1>1, <1>2, Locals DEF RecordEvent, Becomes, ReferralPcs
    <3> QED
      BY <1>1, <1>2, <2>1, <3>1, <3>2, DeliverySteps DEF Lands, ReferralPcs, OtherPcs
  <2>3. CASE proc[r].pc = "subscription.put"
    BY <1>1, <2>1, <2>3, PutSays DEF PutPcs
  <2>4. CASE proc[r].pc \in ReferralPcs
    <3>1. SubscriptionOf(u) = Says(id) /\ Exists(u)
      BY <2>4 DEF PutFollows, Arg
    <3>2. KeptOf(u)
      BY <1>1, <2>4, SubscriptionsKept DEF KeepsSubscriptions, PutPcs, ReferralPcs
    <3> QED
      BY <3>1, <3>2 DEF KeptOf
  <2> QED
    BY <2>2, <2>3, <2>4
<1>3. proc'[r].pc \in ReferralPcs =>
        /\ (IF accounts'[proc'[r].call.user] # None THEN accounts'[proc'[r].call.user].subscription ELSE None)
             = Says(proc[r].call.id)
        /\ accounts'[proc'[r].call.user] # None
  BY <1>1, <1>2 DEF Leaves, Stays
<1>4. \A s \in Request \ {r} : proc'[s].pc \notin ReferralPcs
  BY <1>1 DEF ReferralPcs
<1> QED
  <2>1. SUFFICES ASSUME NEW s \in Request, proc'[s].pc \in ReferralPcs
                 PROVE  /\ SubscriptionOf(Arg(s).user)' = Says(Arg(s).id)'
                        /\ Exists(Arg(s).user)'
    BY DEF PutFollows
  <2>2. s = r
    BY <1>4, <2>1
  <2> QED
    BY <1>1, <1>3, <2>1, <2>2 DEF Arg, SubscriptionOf, Exists, Says

LEMMA ServiceStep ==
  ASSUME StripeOnly, StripeInv, NEW r \in Request, Step(r)
  PROVE  StripeInv'
<1>1. Notes(r)
  BY StepNotes
<1>2. Served'
  BY <1>1, HandlerServed DEF StripeInv, Notes
<1>3. Sold'
  BY <1>1, SoldKept DEF StripeInv, Notes
<1>4. Deliveries' /\ History'
  BY <1>1, DeliveriesStep DEF StripeInv, Sold
<1>5. Accounted'
  BY <1>1, AccountsFollow DEF StripeInv, Accounted
<1>6. PutFollows'
  BY <1>1, PutFollowsStep DEF StripeInv
<1> QED
  BY <1>2, <1>3, <1>4, <1>5, <1>6 DEF StripeInv

LEMMA AskStripeStep ==
  ASSUME StripeOnly, StripeInv, NEW r \in Request, AskStripe(r)
  PROVE  StripeInv'
<1> USE DEF StripeInv
<1>1. /\ Handler(r) /\ proc[r].pc \in StripePcs
      /\ UNCHANGED <<acknowledged, applied, late>>
  BY DEF AskStripe, historyVars
<1>2. /\ Served' /\ proc[r].pc # "new" /\ proc'[r].call = proc[r].call
      /\ \A s \in Request \ {r} : proc'[s].pc = "new"
  BY <1>1, HandlerServed
<1>3. Sold' /\ Grows
  <2>1. CASE Hears(r)
    BY <1>1, <2>1, HearsStep DEF Served, Accounted
  <2>2. CASE UNCHANGED stripeVars
    BY <1>1, <2>2, SoldKept
  <2> QED
    BY <2>1, <2>2 DEF AskStripe
<1>4. Arg(r).op # "stripe_webhook"
  BY <1>1, <1>2 DEF Deliveries, OnEvent, StripePcs, WebhookPcs, StripeEvents, LagoEvents
<1>5. proc'[r].pc \notin WebhookPcs /\ processed_webhooks' = processed_webhooks
  BY <1>1, <1>4, OtherRequests
<1>6. History'
  BY <1>1, <1>3, <1>5 DEF History, Grows
<1>7. Deliveries' /\ PutFollows'
  BY <1>2, <1>4, <1>5 DEF Deliveries, PutFollows, Arg, ReferralPcs, WebhookPcs
<1>8. Accounted'
  <2>1. KeepsSubscriptions
    BY <1>1, SubscriptionsKept DEF StripePcs, PutPcs
  <2> QED
    BY <1>1, <1>3, <2>1, QuietFollows DEF Accounted
<1> QED
  BY <1>2, <1>3, <1>6, <1>7, <1>8

\* What changes neither the accounts nor what was noted.
LEMMA BesideStep ==
  ASSUME StripeInv, Served', Sold', Grows, UNCHANGED <<accounts, processed_webhooks>>,
         UNCHANGED <<acknowledged, applied, late>>,
         \A s \in Request : proc'[s].pc \notin ReferralPcs,
         Deliveries'
  PROVE  StripeInv'
<1>1. KeepsSubscriptions
  BY DEF KeepsSubscriptions, KeptOf, Leaves, Stays, SubscriptionOf, Exists
<1>2. Accounted'
  BY <1>1, QuietFollows DEF StripeInv, Accounted
<1>3. History'
  BY DEF StripeInv, History, Grows
<1>4. PutFollows'
  BY DEF PutFollows
<1> QED
  BY <1>2, <1>3, <1>4 DEF StripeInv

LEMMA ForgottenStep ==
  ASSUME StripeInv, NEW r \in Request, Forget(r) \/ CutShort(r)
  PROVE  StripeInv'
<1>1. /\ Forgotten(r) /\ UNCHANGED storeVars /\ proc[r].pc # "new" /\ UNCHANGED stripeVars
      /\ UNCHANGED <<acknowledged, applied, late>>
  BY DEF Forget, CutShort, historyVars, At, WebhookPcs, StripeEvents, LagoEvents
<1>2. Served' /\ \A s \in Request : proc'[s].pc = "new"
  BY <1>1, ForgottenServed DEF StripeInv
<1>3. Sold' /\ Grows
  BY <1>1, SoldKept DEF StripeInv
<1>4. Deliveries' /\ \A s \in Request : proc'[s].pc \notin ReferralPcs
  BY <1>2 DEF Deliveries, ReferralPcs
<1> QED
  BY <1>1, <1>2, <1>3, <1>4, BesideStep DEF storeVars

LEMMA CalledBeside ==
  ASSUME StripeOnly, StripeInv, Idle, NEW r \in Request, Ask(r) \/ Deliver(r)
  PROVE  StripeInv'
<1>1. UNCHANGED storeVars /\ UNCHANGED stripeVars /\ UNCHANGED <<acknowledged, applied, late>>
  BY DEF Ask, Send, Deliver, historyVars
<1>2. Sold' /\ Grows
  BY <1>1, SoldKept DEF StripeInv
<1>3. PICK c \in Callable :
        /\ proc' = [proc EXCEPT ![r].pc = c.op, ![r].call = c]
        /\ c.op = "stripe_webhook" => c.id \in DOMAIN events /\ c = events[c.id]
  <2>1. CASE Ask(r)
    BY <2>1 DEF Ask, Send, Callable, StripeOnly
  <2>2. CASE Deliver(r)
    <3>1. PICK i \in DOMAIN events : proc' = [proc EXCEPT ![r].pc = "stripe_webhook", ![r].call = events[i]]
      BY <2>2 DEF Deliver
    <3>2. events[i] \in Delivery /\ events[i].op = "stripe_webhook" /\ events[i].id = i
      BY DEF StripeInv, Sold, StripeStored, Owned, Delivery
    <3> QED
      BY <3>1, <3>2 DEF Callable
  <2> QED
    BY <2>1, <2>2
<1>4. /\ Served' /\ proc'[r].pc = c.op /\ proc'[r].call = c
      /\ \A s \in Request \ {r} : proc'[s].pc = "new"
  <2>1. Served /\ proc' = [proc EXCEPT ![r].pc = c.op, ![r].call = c] /\ UNCHANGED storeVars
    BY <1>1, <1>3 DEF StripeInv
  <2>2. /\ Served' /\ proc'[r].pc = c.op /\ proc'[r].call = c
        /\ \A s \in Request \ {r} : proc'[s] = proc[s] /\ proc[s].pc = "new"
    BY <2>1, CalledServed, Zenon
  <2> QED
    BY <2>2
<1>5. c.op \in Routes
  BY CallsAssumption DEF Callable, Delivery, WellFormed
<1>6. \A s \in Request : proc'[s].pc \notin ReferralPcs
  BY <1>4, <1>5 DEF ReferralPcs, Routes
<1>7. Deliveries'
  <2>1. c.op = "stripe_webhook" => OnEvent(proc[r])'
    BY <1>1, <1>3, <1>4 DEF OnEvent, stripeVars, UpdatePcs, DeletedPcs, FailedPcs, ReferralPcs, WebhookPcs,
       StripeEvents, LagoEvents
  <2> QED
    BY <1>4, <2>1 DEF Deliveries, Arg
<1> QED
  BY <1>1, <1>2, <1>4, <1>6, <1>7, BesideStep DEF storeVars

LEMMA BesideIdle ==
  ASSUME StripeInv, Idle, AtStripe \/ NextDay
  PROVE  StripeInv'
<1>1. /\ Tick \/ UNCHANGED vars
      /\ UNCHANGED <<acknowledged, applied, late>> /\ UNCHANGED <<accounts, processed_webhooks>>
  BY DEF AtStripe, NextDay, Tick, historyVars, vars
<1>2. Served' /\ \A s \in Request : proc'[s].pc = "new"
  BY <1>1, IdleServed DEF StripeInv
<1>3. Sold' /\ Grows
  <2>1. CASE AtStripe
    BY <2>1, AtStripeStep DEF StripeInv, Served
  <2>2. CASE NextDay
    BY <1>1, <2>2, SoldKept DEF StripeInv, NextDay
  <2> QED
    BY <2>1, <2>2
<1>4. Deliveries' /\ \A s \in Request : proc'[s].pc \notin ReferralPcs
  BY <1>2 DEF Deliveries, ReferralPcs
<1> QED
  BY <1>1, <1>2, <1>3, <1>4, BesideStep

LEMMA StripeUnchanged ==
  ASSUME StripeInv, UNCHANGED allVars
  PROVE  StripeInv'
<1>1. /\ UNCHANGED vars /\ UNCHANGED stripeVars /\ UNCHANGED <<acknowledged, applied, late>>
      /\ UNCHANGED <<accounts, processed_webhooks, proc, events>> /\ UNCHANGED storeVars
  BY DEF allVars, historyVars, stripeVars, vars, storeVars
<1>2. Served'
  <2>1. (StoreType /\ RowsSound)'
    BY <1>1 DEF StripeInv, Served, Inv, StoreType, RowsSound, Exists, vars
  <2>2. ProcInv'
    BY <1>1 DEF StripeInv, Served, Inv, ProcInv, Held, HoldsCopy
  <2>3. (Serial /\ OneAlive)'
    BY <1>1 DEF StripeInv, Served, Serial, OneRuns, Busy, Fresh, CallAt, AsRow, SubscriptionOf, Exists,
       HasReferralBonus, OneAlive, vars
  <2> QED
    BY <2>1, <2>2, <2>3 DEF Served, Inv
<1>3. Sold' /\ Grows
  BY <1>1, SoldKept DEF StripeInv
<1>4. Deliveries' /\ PutFollows'
  BY <1>1 DEF StripeInv, Deliveries, OnEvent, Arg, PutFollows, SubscriptionOf, Exists, Says
<1>5. KeepsSubscriptions
  BY <1>1 DEF KeepsSubscriptions, KeptOf, Leaves, Stays, SubscriptionOf, Exists
<1>6. Accounted'
  BY <1>1, <1>3, <1>5, QuietFollows DEF StripeInv, Accounted
<1>7. History'
  BY <1>1 DEF StripeInv, History
<1> QED
  BY <1>2, <1>3, <1>4, <1>6, <1>7 DEF StripeInv

LEMMA StripeStep ==
  ASSUME StripeOnly, StripeInv, [StripeNext]_allVars
  PROVE  StripeInv'
BY ServiceStep, AskStripeStep, ForgottenStep, CalledBeside, BesideIdle, StripeUnchanged DEF StripeNext

LEMMA StripeStart == StripeInit => StripeInv
<1> SUFFICES ASSUME StripeInit PROVE StripeInv
  OBVIOUS
<1>1. /\ Init /\ sessions = <<>> /\ subscriptions = <<>> /\ events = <<>>
      /\ acknowledged = {} /\ applied = {} /\ late = {} /\ processed_webhooks = {}
      /\ \A r \in Request : proc[r].pc = "new"
  BY DEF StripeInit, Init, NotSent
<1>2. Served
  BY <1>1, InitInv, InitSerial DEF Served, OneAlive
<1>3. Sold
  BY <1>1 DEF Sold, StripeStored, Inline, Owned, Described, Paired, KnownApplied, SoldAfter
<1>4. History /\ Deliveries /\ PutFollows
  BY <1>1 DEF History, Deliveries, PutFollows, ReferralPcs
<1>5. Accounted
  BY <1>1 DEF Accounted, Opened, AllFollow, Follows, StatusOf, AllForgotten, Forgets, Settled
<1> QED
  BY <1>2, <1>3, <1>4, <1>5 DEF StripeInv

-----------------------------------------------------------------------------
(* The theorems.                                                           *)

\* What was sold, delivered and noted fits together, and every account has
\* what the last event about its status said, at all times: whatever order the
\* deliveries come in, however often, and wherever they are cut short.
THEOREM StripeInvariant == StripeOnly => (StripeSpec => []StripeInv)
<1> SUFFICES ASSUME StripeOnly PROVE StripeSpec => []StripeInv
  OBVIOUS
<1>1. StripeInit => StripeInv
  BY StripeStart
<1>2. StripeInv /\ [StripeNext]_allVars => StripeInv'
  BY StripeStep
<1> QED
  BY <1>1, <1>2, PTL DEF StripeSpec

LEMMA TypedBeside == ASSUME StripeInv PROVE StripeType
<1>1. Sold /\ History /\ ProcInv
  BY DEF StripeInv, Served, Inv
<1>2. \A i \in DOMAIN events : events[i] \in Call /\ WellFormed(events[i]) /\ events[i].id = i
  BY <1>1 DEF Sold, StripeStored, Owned, Delivery
<1> QED
  BY <1>1, <1>2 DEF StripeType, Sold, StripeStored, History, ProcInv

\* What Stripe has, what it sends and what a handler keeps have their types.
THEOREM StripeTypeCorrect == StripeOnly => (StripeSpec => []StripeType)
<1> SUFFICES ASSUME StripeOnly PROVE StripeSpec => []StripeType
  OBVIOUS
<1>1. StripeInv => StripeType
  BY TypedBeside
<1> QED
  BY <1>1, StripeInvariant, PTL

LEMMA AskedEarly == ASSUME StripeInv PROVE SecondAskedEarly
<1> SUFFICES ASSUME NEW n \in DOMAIN subscriptions, NEW m \in DOMAIN subscriptions, StatusInOrder,
                    subscriptions[m].user = subscriptions[n].user,
                    NEW i \in Told(m, subscriptions[n].known)
             PROVE  ForgottenSince(i, subscriptions[n].user, subscriptions[n].known)
  BY DEF SecondAskedEarly
<1>1. Sold /\ History
  BY DEF StripeInv
<1>2. /\ i \in subscriptions[n].known /\ events[i].event = "subscription.updated"
      /\ events[i].subscription.id = m
  BY DEF Told
<1>3. i \in DOMAIN events
  BY <1>1, <1>2 DEF Sold, KnownApplied, History
<1>4. events[i].user = subscriptions[n].user
  BY <1>1, <1>2, <1>3 DEF Sold, Owned, StatusTypes
<1>5. Settled(subscriptions[n].user, subscriptions[n].known)
  BY <1>1 DEF Sold, SoldAfter
<1> QED
  BY <1>2, <1>4, <1>5 DEF Settled

\* Who has a subscription on record is sold no other: the sale is asked for
\* only when none is, between that question and the sale nothing is applied,
\* and an account without one was told of none, or has forgotten it since.
THEOREM NoSecondSale == StripeOnly => (StripeSpec => []SecondAskedEarly)
<1> SUFFICES ASSUME StripeOnly PROVE StripeSpec => []SecondAskedEarly
  OBVIOUS
<1>1. StripeInv => SecondAskedEarly
  BY AskedEarly
<1> QED
  BY <1>1, StripeInvariant, PTL

LEMMA FollowedWhenQuiet == ASSUME StripeInv PROVE SubscriptionFollows
<1> SUFFICES ASSUME NEW k \in Status, Quiet, StatusInOrder,
                    \A j \in Status : events[j].user = events[k].user => j <= k
             PROVE  LET n == events[k].subscription.id
                        s == subscriptions[n]
                    IN  accounts[events[k].user].subscription =
                          IF s.status = "ended" THEN None
                          ELSE [id |-> n, plan |-> s.plan, status |-> Mapped(s), start |-> s.start,
                                end |-> s.end]
  BY DEF SubscriptionFollows
<1> DEFINE u == events[k].user
           n == events[k].subscription.id
           s == subscriptions[n]
           sub == events[k].subscription
<1>1. /\ Sold /\ History /\ Accounted
      /\ applied = DOMAIN events
  BY DEF StripeInv, Quiet, History
<1>2. /\ k \in DOMAIN events /\ events[k].event \in StatusTypes /\ u \in User
      /\ sub \in Subscription /\ n \in DOMAIN subscriptions /\ u = s.user
      /\ s \in StripeSubscription
  BY <1>1 DEF Status, Sold, StripeStored, Owned, Delivery, Call
<1>3. SubscriptionOf(u) = Says(k)
  <2>1. k \in StatusOf(u, applied) /\ \A j \in StatusOf(u, applied) : j <= k
    BY <1>1, <1>2 DEF StatusOf, Status
  <2>2. events[k].event = "invoice.payment_failed" => k - 1 \in applied
    BY <1>1, <1>2 DEF Sold, Paired
  <2> QED
    BY <1>1, <1>2, <2>1, <2>2 DEF Accounted, AllFollow, Follows
<1>4. Exists(u)
  <2>1. PICK i \in EventsOf(n) : events[i].event = "subscription.updated"
    BY <1>1, <1>2 DEF Sold, Described
  <2>2. i \in DOMAIN events /\ events[i].user = u
    BY <1>1, <1>2, <2>1 DEF EventsOf, Sold, Owned
  <2> QED
    BY <1>1, <2>1, <2>2 DEF Accounted, Opened
<1>5. Describes(k, s)
  <2>1. k \in EventsOf(n)
    BY <1>2 DEF EventsOf
  <2>2. \A j \in EventsOf(n) : j <= k
    BY <1>1, <1>2 DEF EventsOf, Status, Sold, Owned
  <2> QED
    BY <1>1, <1>2, <2>1, <2>2 DEF Sold, Described
<1>6. accounts[u].subscription = Says(k)
  BY <1>3, <1>4 DEF SubscriptionOf
<1>7. CASE s.status = "ended"
  BY <1>5, <1>6, <1>7 DEF Describes, Says
<1>8. CASE s.status # "ended"
  <2>1. events[k].event \in {"subscription.updated", "invoice.payment_failed"}
    BY <1>2, <1>5, <1>8 DEF Describes, StatusTypes
  <2>2. Says(k) = [sub EXCEPT !.status = Mapped(s)]
    <3>1. s.status \in {"incomplete", "active", "past_due", "ending"}
      BY <1>2, <1>8 DEF StripeSubscription
    <3>2. CASE events[k].event = "subscription.updated"
      <4>1. MappedStatus(events[k].reason) = Mapped(s)
        BY <1>5, <3>1, <3>2 DEF Describes, MappedStatus, Mapped
      <4> QED
        BY <3>2, <4>1 DEF Says
    <3>3. CASE events[k].event = "invoice.payment_failed"
      <4>1. Mapped(s) = "past_due"
        BY <1>5, <3>3 DEF Describes, Mapped
      <4> QED
        BY <3>3, <4>1 DEF Says
    <3> QED
      BY <2>1, <3>2, <3>3
  <2>3. sub.plan = s.plan /\ sub.start = s.start /\ sub.end = s.end /\ sub.id = n
    BY <1>5 DEF Describes
  <2> HIDE DEF s, n
  <2>4. [sub EXCEPT !.status = Mapped(s)]
          = [id |-> n, plan |-> s.plan, status |-> Mapped(s), start |-> s.start, end |-> s.end]
    BY <1>2, <2>3 DEF Subscription
  <2> QED
    BY <1>6, <1>8, <2>2, <2>4 DEF s, n
<1> QED
  BY <1>7, <1>8

\* Once every event is answered, and none about a status came after a newer
\* one, the account has what Stripe has: its last event was applied by the
\* steps that put it on record, and none that came later put another.
THEOREM AccountFollows == StripeOnly => (StripeSpec => []SubscriptionFollows)
<1> SUFFICES ASSUME StripeOnly PROVE StripeSpec => []SubscriptionFollows
  OBVIOUS
<1>1. StripeInv => SubscriptionFollows
  BY FollowedWhenQuiet
<1> QED
  BY <1>1, StripeInvariant, PTL

=============================================================================
