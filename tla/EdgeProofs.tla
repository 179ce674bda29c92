------------------------------ MODULE EdgeProofs ------------------------------
(***************************************************************************)
(* What holds of keys and sockets for any number of requests, any key and  *)
(* token, any duration, capacity and number of changes.                    *)
(***************************************************************************)
EXTENDS Edge, TLAPS

-----------------------------------------------------------------------------
(* The invariant of the keys.                                              *)

\* A fetch is not older than its timeout, and the cache not newer than now.
Timely ==
  /\ updated <= now
  /\ \A r \in Request : requests[r].pc \in {"fetch", "answered"} =>
       requests[r].since <= now /\ now - requests[r].since <= FetchTimeout

\* A key in a list that is under way was withdrawn after the list was asked
\* for, and one in the cache at most a fetch before the cache was replaced.
FreshLists ==
  /\ withdrawn \in [Key -> Int]
  /\ \A r \in Request : requests[r].pc = "answered" =>
       \A k \in requests[r].got : k \in published \/ withdrawn[k] >= requests[r].since
  /\ \A k \in cached : k \in published \/ updated - withdrawn[k] <= FetchTimeout

\* Lists that were answered while a key was published have it.
SteadyKeys ==
  /\ steady \subseteq Request
  /\ \A r \in steady : /\ requests[r].pc # "idle"
                       /\ requests[r].kid \in published
                       /\ requests[r].pc = "answered" => requests[r].kid \in requests[r].got

KeyTypes ==
  /\ now \in 0..LastTime
  /\ published \subseteq Key /\ cached \subseteq Rsa
  /\ updated \in {0 - CacheDuration} \cup 0..LastTime
  /\ requests \in [Request -> RequestType]

KeyInv == KeyTypes /\ Timely /\ FreshLists /\ SteadyKeys /\ PublishedServed

LEMMA KeyNumbers ==
  ASSUME KeyInv
  PROVE  /\ now \in Int /\ updated \in Int /\ LastTime \in Int
         /\ FetchTimeout \in Nat \ {0} /\ CacheDuration \in Nat \ {0}
         /\ \A r \in Request : requests[r].since \in Int /\ requests[r].got \subseteq Key
         /\ \A k \in Key : withdrawn[k] \in Int
  BY KeyCacheAssumption DEF KeyInv, KeyTypes, FreshLists, RequestType

LEMMA NoTokenType == NoToken \in RequestType /\ NoToken.answer = None
  BY KeyCacheAssumption DEF NoToken, RequestType

LEMMA KeyInitInv == KeyInit => KeyInv
<1> SUFFICES ASSUME KeyInit PROVE KeyInv
  OBVIOUS
<1>1. NoToken \in RequestType
  BY NoTokenType
<1>2. KeyTypes
  BY <1>1, KeyCacheAssumption DEF KeyInit, KeyTypes
<1>3. Timely /\ FreshLists /\ SteadyKeys /\ PublishedServed
  BY KeyCacheAssumption
  DEF KeyInit, NoToken, Timely, FreshLists, SteadyKeys, PublishedServed
<1> QED
  BY <1>2, <1>3 DEF KeyInv

\* What the next state of one request must be like.
Fit(r, q) ==
  /\ q.pc \in {"fetch", "answered"} => q.since <= now /\ now - q.since <= FetchTimeout
  /\ q.pc = "answered" => \A k \in q.got : k \in published \/ withdrawn[k] >= q.since
  /\ r \in steady' =>
       /\ q.pc # "idle" /\ q.kid \in published
       /\ q.pc = "answered" => q.kid \in q.got
       /\ q.op = "api" /\ q.kid \in Rsa => q.answer # "unauthorized"

LEMMA RequestStep ==
  ASSUME KeyInv, NEW r \in Request, NEW q \in RequestType, Fit(r, q),
         requests' = [requests EXCEPT ![r] = q], steady' \subseteq steady \cup {r},
         UNCHANGED <<now, published, cached, updated, withdrawn>>
  PROVE  KeyInv'
<1>1. /\ requests' \in [Request -> RequestType] /\ requests'[r] = q
      /\ \A p \in Request \ {r} : requests'[p] = requests[p]
  BY DEF KeyInv, KeyTypes
<1>2. KeyTypes'
  BY <1>1 DEF KeyInv, KeyTypes
<1>3. Timely' /\ FreshLists'
  BY <1>1 DEF KeyInv, Timely, FreshLists, Fit
<1>4. SteadyKeys'
  BY <1>1 DEF KeyInv, SteadyKeys, Fit
<1>5. PublishedServed'
  BY <1>1 DEF KeyInv, SteadyKeys, PublishedServed, Kid, Fit
<1> QED
  BY <1>2, <1>3, <1>4, <1>5 DEF KeyInv

LEMMA ArriveStep ==
  ASSUME KeyInv, NEW r \in Request, NEW op \in {"api", "ws"}, NEW u \in User \cup {None},
         NEW kid \in Kids, Arrive(r, op, u, kid)
  PROVE  KeyInv'
<1> DEFINE q == [NoToken EXCEPT !.pc = "look", !.op = op, !.user = u, !.kid = kid]
<1> DEFINE kinds == Kids \cup {None}
<1>1. NoToken \in RequestType /\ NoToken.answer = None /\ kid \in kinds
  BY NoTokenType
<1>2. /\ q \in RequestType /\ q.pc = "look" /\ q.kid = kid /\ q.answer = None
      /\ q.op = op
  <2> HIDE DEF kinds
  <2> QED
    BY <1>1 DEF NoToken, RequestType, kinds
<1>3. /\ requests' = [requests EXCEPT ![r] = q]
      /\ steady' = IF kid \in published THEN steady \cup {r} ELSE steady
      /\ requests[r].pc = "idle"
      /\ UNCHANGED <<now, published, cached, updated, withdrawn>>
  BY DEF Arrive, OnKey
<1> HIDE DEF q
<1>4. Fit(r, q)
  BY <1>2, <1>3, KeyCacheAssumption DEF KeyInv, SteadyKeys, Fit
<1> QED
  BY <1>2, <1>3, <1>4, RequestStep

\* A request that gets its verdict leaves the keys and the others alone.
LEMMA VerdictStep ==
  ASSUME KeyInv, NEW r \in Request, requests[r].pc # "idle",
         NEW answer \in {"accepted", "unauthorized", "unavailable"}, requests' = Verdict(r, answer),
         r \in steady /\ requests[r].op = "api" /\ Kid(r) \in Rsa => answer # "unauthorized",
         UNCHANGED <<now, published, cached, updated, withdrawn, steady>>
  PROVE  KeyInv'
<1> DEFINE q == [requests[r] EXCEPT !.pc = "done", !.since = 0, !.got = {}, !.answer = answer]
<1>1. requests[r] \in RequestType /\ 0 \in 0..LastTime
  BY KeyCacheAssumption DEF KeyInv, KeyTypes
<1>2. /\ q \in RequestType /\ q.pc = "done" /\ q.kid = requests[r].kid
      /\ q.op = requests[r].op /\ q.answer = answer
  BY <1>1 DEF RequestType
<1>3. requests' = [requests EXCEPT ![r] = q]
  BY DEF Verdict
<1> HIDE DEF q
<1>4. Fit(r, q)
  BY <1>2 DEF KeyInv, SteadyKeys, Fit, Kid
<1> QED
  BY <1>2, <1>3, <1>4, RequestStep

LEMMA LookStep == ASSUME KeyInv, NEW r \in Request, Look(r) PROVE KeyInv'
<1>1. CASE ~Expired /\ Kid(r) \in cached
  BY <1>1, VerdictStep DEF Look, OnKey
<1>2. CASE ~(~Expired /\ Kid(r) \in cached)
  <2> DEFINE q == [requests[r] EXCEPT !.pc = "fetch", !.since = now]
  <2>1. requests[r] \in RequestType /\ now \in 0..LastTime
    BY DEF KeyInv, KeyTypes
  <2>2. /\ q \in RequestType /\ q.pc = "fetch" /\ q.since = now /\ q.kid = requests[r].kid
        /\ q.op = requests[r].op /\ q.answer = requests[r].answer
    BY <2>1 DEF RequestType
  <2>3. /\ requests' = [requests EXCEPT ![r] = q]
        /\ UNCHANGED <<now, published, cached, updated, withdrawn, steady>>
    BY <1>2 DEF Look
  <2> HIDE DEF q
  <2>4. Fit(r, q)
    BY <2>2, <2>3, KeyNumbers DEF KeyInv, SteadyKeys, PublishedServed, Fit, Kid
  <2> QED
    BY <2>2, <2>3, <2>4, RequestStep
<1> QED
  BY <1>1, <1>2

LEMMA ServeStep == ASSUME KeyInv, NEW r \in Request, Serve(r) PROVE KeyInv'
<1> DEFINE q == [requests[r] EXCEPT !.pc = "answered", !.got = published]
<1>1. requests[r] \in RequestType /\ published \subseteq Key
  BY DEF KeyInv, KeyTypes
<1>2. /\ q \in RequestType /\ q.pc = "answered" /\ q.since = requests[r].since
      /\ q.kid = requests[r].kid /\ q.got = published
      /\ q.op = requests[r].op /\ q.answer = requests[r].answer
  BY <1>1 DEF RequestType
<1>3. /\ requests' = [requests EXCEPT ![r] = q] /\ requests[r].pc = "fetch"
      /\ UNCHANGED <<now, published, cached, updated, withdrawn, steady>>
  BY DEF Serve, OnKey
<1> HIDE DEF q
<1>4. Fit(r, q)
  BY <1>2, <1>3 DEF KeyInv, Timely, SteadyKeys, PublishedServed, Fit, Kid
<1> QED
  BY <1>2, <1>3, <1>4, RequestStep

\* The list is stored in place of one that may be older or newer.
LEMMA StoreStep == ASSUME KeyInv, NEW r \in Request, Store(r) PROVE KeyInv'
<1> DEFINE keys == DecodingKeys(requests[r].got)
           answer == IF Kid(r) \in keys THEN "accepted" ELSE "unauthorized"
           q == [requests[r] EXCEPT !.pc = "done", !.since = 0, !.got = {}, !.answer = answer]
<1>1. /\ requests[r].pc = "answered" /\ cached' = keys /\ updated' = now
      /\ requests' = [requests EXCEPT ![r] = q]
      /\ UNCHANGED <<now, published, withdrawn, steady>>
  BY DEF Store, OnKey, Verdict
<1>2. /\ requests[r] \in RequestType /\ 0 \in 0..LastTime
      /\ keys \subseteq requests[r].got \cap Rsa /\ requests[r].got \cap Rsa \subseteq keys
  BY KeyCacheAssumption DEF KeyInv, KeyTypes, DecodingKeys
<1>3. answer \in {"accepted", "unauthorized"}
  OBVIOUS
<1> HIDE DEF keys
<1>4. answer # "unauthorized" \/ Kid(r) \notin keys
  OBVIOUS
<1> HIDE DEF answer
<1>5. /\ q \in RequestType /\ q.pc = "done" /\ q.kid = requests[r].kid
      /\ q.op = requests[r].op /\ q.answer = answer
  BY <1>2, <1>3 DEF RequestType
<1> HIDE DEF q
<1>6. /\ requests' \in [Request -> RequestType] /\ requests'[r] = q
      /\ \A p \in Request \ {r} : requests'[p] = requests[p]
  BY <1>1, <1>5 DEF KeyInv, KeyTypes
<1>7. KeyTypes'
  BY <1>1, <1>2, <1>6 DEF KeyInv, KeyTypes
<1>8. Timely'
  BY <1>1, <1>5, <1>6, KeyNumbers DEF KeyInv, Timely
<1>9. ASSUME NEW k \in keys PROVE k \in published \/ now - withdrawn[k] <= FetchTimeout
  <2>1. /\ k \in published \/ withdrawn[k] >= requests[r].since
        /\ now - requests[r].since <= FetchTimeout
    BY <1>1, <1>2 DEF KeyInv, FreshLists, Timely
  <2>2. withdrawn[k] \in Int /\ requests[r].since \in Int
    BY <1>2, KeyNumbers
  <2> QED
    BY <2>1, <2>2, KeyNumbers
<1>10. FreshLists'
  BY <1>1, <1>5, <1>6, <1>9 DEF KeyInv, FreshLists
<1>11. SteadyKeys'
  BY <1>1, <1>5, <1>6 DEF KeyInv, SteadyKeys
<1>12. PublishedServed'
  BY <1>1, <1>2, <1>4, <1>5, <1>6 DEF KeyInv, SteadyKeys, PublishedServed, Kid
<1> QED
  BY <1>7, <1>8, <1>10, <1>11, <1>12 DEF KeyInv

LEMMA VerifyStep == ASSUME KeyInv, NEW r \in Request, Verify(r) PROVE KeyInv'
<1>1. CASE ValidateSelfSigned(r)
  <2>1. Kid(r) \notin Rsa
    BY <1>1, KeyCacheAssumption DEF ValidateSelfSigned
  <2> QED
    BY <1>1, <2>1, VerdictStep DEF ValidateSelfSigned, OnKey
<1>2. CASE FetchFails(r)
  BY <1>2, VerdictStep DEF FetchFails, Unavailable
<1> QED
  BY <1>1, <1>2, LookStep, ServeStep, StoreStep DEF Verify

LEMMA RotateStep == ASSUME KeyInv, NEW k \in Key, Rotate(k) PROVE KeyInv'
<1>1. KeyTypes' /\ Timely'
  BY DEF Rotate, KeyInv, KeyTypes, Timely
<1>2. FreshLists'
  <2>1. CASE k \in published
    BY <2>1, KeyNumbers DEF Rotate, KeyInv, Timely, FreshLists
  <2>2. CASE k \notin published
    BY <2>2 DEF Rotate, KeyInv, FreshLists
  <2> QED
    BY <2>1, <2>2
<1>3. SteadyKeys' /\ PublishedServed'
  BY DEF Rotate, KeyInv, SteadyKeys, PublishedServed, Kid
<1> QED
  BY <1>1, <1>2, <1>3 DEF KeyInv

LEMMA TimeStep == ASSUME KeyInv, TimePasses PROVE KeyInv'
<1>1. KeyTypes' /\ Timely'
  BY KeyNumbers DEF TimePasses, KeyInv, KeyTypes, Timely
<1>2. FreshLists' /\ SteadyKeys' /\ PublishedServed'
  BY DEF TimePasses, KeyInv, FreshLists, SteadyKeys, PublishedServed, Kid
<1> QED
  BY <1>1, <1>2 DEF KeyInv

LEMMA OpenStep ==
  ASSUME KeyInv, NEW r \in Request, Connect(r),
         UNCHANGED <<now, published, cacheVars, historyVars, rotations>>
  PROVE  KeyInv'
<1> DEFINE q == [requests[r] EXCEPT !.pc = "open"]
<1>1. requests[r] \in RequestType
  BY DEF KeyInv, KeyTypes
<1>2. /\ q \in RequestType /\ q.pc = "open" /\ q.kid = requests[r].kid
      /\ q.op = requests[r].op /\ q.answer = requests[r].answer
  BY <1>1 DEF RequestType
<1>3. /\ requests' = [requests EXCEPT ![r] = q]
      /\ UNCHANGED <<now, published, cached, updated, withdrawn, steady>>
  BY DEF Connect, cacheVars, historyVars
<1> HIDE DEF q
<1>4. Fit(r, q)
  BY <1>2, <1>3 DEF KeyInv, SteadyKeys, PublishedServed, Fit, Kid
<1> QED
  BY <1>2, <1>3, <1>4, RequestStep

LEMMA NoKeyStep == ASSUME KeyInv, UNCHANGED keyVars PROVE KeyInv'
  BY DEF keyVars, KeyInv, KeyTypes, Timely, FreshLists, SteadyKeys, PublishedServed, Kid

LEMMA KeyStep == ASSUME KeyInv, [Next]_vars PROVE KeyInv'
<1>1. CASE UNCHANGED keyVars
  BY <1>1, NoKeyStep
<1> QED
  BY <1>1, ArriveStep, VerifyStep, OpenStep, RotateStep, TimeStep DEF Next, vars

\* The invariant of the keys, for any keys, tokens, requests and durations:
\* what the next two theorems rest on.
THEOREM KeysInvariant == Spec => []KeyInv
<1>1. Init => KeyInv
  BY KeyInitInv DEF Init
<1> QED
  BY <1>1, KeyStep, PTL DEF Spec

\* Whatever lists other requests fetch and store in between, older ones too,
\* nobody is refused for a key that was published all the while.
THEOREM PublishedKeysServed == Spec => []PublishedServed
<1>1. KeyInv => PublishedServed
  BY DEF KeyInv
<1> QED
  BY <1>1, KeysInvariant, PTL

LEMMA AcceptStep ==
  ASSUME KeyInv, Next, NEW r \in Request, Accepts(r)
  PROVE  Look(r) \/ Store(r)
<1>1. PICK p \in Request :
        \/ \E op \in {"api", "ws"}, u \in User \cup {None}, kid \in Kids : Arrive(p, op, u, kid)
        \/ Verify(p) \/ Connect(p) \/ UNCHANGED requests
  BY DEF Next, keyVars, Rotate, TimePasses
<1>2. requests \in [Request -> RequestType] /\ requests[r] \in RequestType
  BY DEF KeyInv, KeyTypes
<1>3. requests'[r] # requests[r] /\ requests'[r].pc = "done" /\ requests'[r].answer = "accepted"
  BY DEF Accepts
<1>4. p = r
  <2>1. \/ \E q : requests' = [requests EXCEPT ![p] = q]
        \/ UNCHANGED requests
    BY <1>1 DEF Arrive, Connect, Verify, ValidateSelfSigned, Look, Serve, FetchFails, Store, Verdict
  <2> QED
    BY <1>2, <1>3, <2>1
<1>5. CASE \E op \in {"api", "ws"}, u \in User \cup {None}, kid \in Kids : Arrive(r, op, u, kid)
  <2>1. PICK op, u, kid : Arrive(r, op, u, kid)
    BY <1>5
  <2>2. requests'[r].pc = "look"
    BY <1>2, <2>1 DEF Arrive, NoToken
  <2> QED
    BY <1>3, <2>2
<1>6. CASE Connect(r)
  BY <1>2, <1>3, <1>6 DEF Connect, RequestType
<1>7. CASE ValidateSelfSigned(r)
  BY <1>7 DEF ValidateSelfSigned, Accepts
<1>8. CASE Serve(r)
  BY <1>2, <1>3, <1>8 DEF Serve, RequestType
<1>9. CASE FetchFails(r)
  BY <1>2, <1>3, <1>9 DEF FetchFails, Unavailable, Verdict, RequestType
<1> QED
  BY <1>1, <1>3, <1>4, <1>5, <1>6, <1>7, <1>8, <1>9 DEF Verify

LEMMA AcceptedKeyLives ==
  ASSUME KeyInv, Next, NEW r \in Request, Accepts(r)
  PROVE  Kid(r) \in published \/ now - withdrawn[Kid(r)] < FetchTimeout + CacheDuration
<1>1. requests \in [Request -> RequestType] /\ requests[r] \in RequestType
  BY DEF KeyInv, KeyTypes
<1>2. requests'[r].pc = "done" /\ requests'[r].answer = "accepted"
  BY DEF Accepts
<1>3. CASE Look(r)
  <2>1. ~Expired /\ Kid(r) \in cached
    BY <1>1, <1>2, <1>3 DEF Look, RequestType
  <2>2. Kid(r) \in published \/ updated - withdrawn[Kid(r)] <= FetchTimeout
    BY <2>1 DEF KeyInv, FreshLists
  <2>3. Kid(r) \in Key
    BY <2>1, KeyCacheAssumption DEF KeyInv, KeyTypes
  <2> QED
    BY <2>1, <2>2, <2>3, KeyNumbers DEF Expired
<1>4. CASE Store(r)
  <2>1. Kid(r) \in requests[r].got /\ requests[r].pc = "answered"
    BY <1>1, <1>2, <1>4 DEF Store, OnKey, DecodingKeys, Verdict, RequestType
  <2>2. Kid(r) \in published \/ withdrawn[Kid(r)] >= requests[r].since
    BY <2>1 DEF KeyInv, FreshLists
  <2>3. now - requests[r].since <= FetchTimeout
    BY <2>1 DEF KeyInv, Timely
  <2>4. Kid(r) \in Key /\ requests[r].since \in Int
    BY <2>1, KeyNumbers
  <2> QED
    BY <2>2, <2>3, <2>4, KeyNumbers
<1> QED
  BY <1>3, <1>4, AcceptStep

\* A withdrawn key is accepted for no longer than a fetch and the life of the
\* cache together take.
THEOREM WithdrawnKeysDie == Spec => WithdrawnDies
<1> DEFINE Dead(r) == Accepts(r) => Kid(r) \in published
                                     \/ now - withdrawn[Kid(r)] < FetchTimeout + CacheDuration
<1>1. KeyInv /\ [Next]_vars => [\A r \in Request : Dead(r)]_vars
  BY AcceptedKeyLives
<1> QED
  BY <1>1, KeysInvariant, PTL DEF Spec, WithdrawnDies

-----------------------------------------------------------------------------
(* The invariant of the sockets.                                           *)

\* What a socket has read of its user's messages that are still there.
Read(r) == {i \in Of(sockets[r].user) :
              i > sockets[r].joined /\ i >= Oldest /\ i < sockets[r].next}

StreamTypes ==
  /\ commits \in Seq(Change) /\ unsent \subseteq DOMAIN commits
  /\ sent \in Seq(DOMAIN commits)
  /\ sockets \in [Request -> Socket \cup {None}]

\* A socket reads on from where it joined, and shows the last it has read.
SocketsInOrder ==
  \A r \in Opened :
    /\ sockets[r] \in Socket
    /\ sockets[r].joined < sockets[r].next /\ sockets[r].next <= Len(sent) + 1

LastRead ==
  \A r \in Opened : Read(r) # {} =>
    \E m \in Read(r) : (\A j \in Read(r) : j <= m) /\ sockets[r].shown = sent[m]

StreamInv == StreamTypes /\ SocketsInOrder /\ LastRead

LEMMA OldestBounds ==
  ASSUME StreamInv
  PROVE  /\ Len(sent) \in Nat /\ DOMAIN sent = 1..Len(sent) /\ Capacity \in Nat \ {0}
         /\ Oldest \in Nat \ {0} /\ Oldest <= Len(sent) + 1
<1>1. Len(sent) \in Nat /\ DOMAIN sent = 1..Len(sent) /\ Capacity \in Nat \ {0}
  BY StreamAssumption DEF StreamInv, StreamTypes
<1> QED
  BY <1>1 DEF Oldest

LEMMA CommitStep ==
  ASSUME StreamInv, NEW u \in User, NEW silent \in BOOLEAN, Commit(u, silent)
  PROVE  StreamInv'
<1> DEFINE change == [user |-> u, silent |-> silent]
<1>1. /\ commits \in Seq(Change) /\ change \in Change /\ commits' = Append(commits, change)
      /\ UNCHANGED <<sent, sockets>>
  BY DEF Commit, StreamInv, StreamTypes, Change
<1> HIDE DEF change
<1>2. /\ commits' \in Seq(Change) /\ Len(commits') = Len(commits) + 1
      /\ DOMAIN commits' = DOMAIN commits \cup {Len(commits')}
      /\ \A i \in DOMAIN commits : commits'[i] = commits[i]
  BY <1>1
<1>3. StreamTypes'
  <2>1. unsent' \subseteq DOMAIN commits'
    BY <1>2 DEF Commit, StreamInv, StreamTypes
  <2>2. sent' \in Seq(DOMAIN commits')
    BY <1>1, <1>2 DEF StreamInv, StreamTypes
  <2> QED
    BY <1>1, <1>2, <2>1, <2>2 DEF StreamInv, StreamTypes
<1>4. \A v : Of(v)' = Of(v)
  BY <1>1, <1>2 DEF Of, StreamInv, StreamTypes
<1>5. /\ Opened' = Opened /\ \A r \in Opened : Read(r)' = Read(r)
  BY <1>1, <1>4 DEF Opened, Read, Oldest
<1>6. SocketsInOrder' /\ LastRead'
  BY <1>1, <1>5 DEF StreamInv, SocketsInOrder, LastRead
<1> QED
  BY <1>3, <1>6 DEF StreamInv

\* A message that is sent may push the oldest out, and is read by nobody yet.
LEMMA PublishStep ==
  ASSUME StreamInv, NEW n \in unsent, Publish(n)
  PROVE  StreamInv'
<1>1. /\ sent' = Append(sent, n) /\ unsent' = unsent \ {n} /\ n \in DOMAIN commits
      /\ UNCHANGED <<commits, sockets>>
  BY DEF Publish, StreamInv, StreamTypes
<1>2. /\ sent' \in Seq(DOMAIN commits) /\ Len(sent') = Len(sent) + 1
      /\ \A i \in 1..Len(sent) : sent'[i] = sent[i]
      /\ DOMAIN sent = 1..Len(sent) /\ DOMAIN sent' = 1..Len(sent')
  BY <1>1 DEF StreamInv, StreamTypes
<1>3. StreamTypes'
  BY <1>1, <1>2 DEF StreamInv, StreamTypes
<1>4. SocketsInOrder'
  <2> SUFFICES ASSUME NEW r \in Opened
               PROVE  sockets[r] \in Socket /\ sockets[r].joined < sockets[r].next
                        /\ sockets[r].next <= Len(sent') + 1
    BY <1>1 DEF SocketsInOrder, Opened
  <2>1. sockets[r] \in Socket /\ sockets[r].next \in Int
    BY DEF StreamInv, SocketsInOrder, Socket
  <2> QED
    BY <1>2, <2>1, OldestBounds DEF StreamInv, SocketsInOrder
<1>5. Oldest' \in Nat /\ Oldest <= Oldest'
  BY <1>2, OldestBounds DEF Oldest
<1>6. ASSUME NEW r \in Opened PROVE Read(r)' = {i \in Read(r) : i >= Oldest'}
  <2>1. /\ sockets[r].next \in Int /\ sockets[r].next <= Len(sent) + 1
        /\ sockets'[r] = sockets[r]
    BY <1>1 DEF StreamInv, SocketsInOrder, Socket
  <2>2. \A i : i \in Of(sockets[r].user)' /\ i < sockets[r].next
                 <=> i \in Of(sockets[r].user) /\ i < sockets[r].next
    BY <1>1, <1>2, <2>1, OldestBounds DEF Of
  <2>3. \A i \in Of(sockets[r].user) : i \in Int
    BY OldestBounds DEF Of
  <2> QED
    BY <1>5, <2>1, <2>2, <2>3, OldestBounds DEF Read
<1>7. LastRead'
  <2> SUFFICES ASSUME NEW r \in Opened, Read(r)' # {}
               PROVE  \E m \in Read(r)' : (\A j \in Read(r)' : j <= m) /\ sockets'[r].shown = sent'[m]
    BY <1>1 DEF LastRead, Opened
  <2>1. PICK m \in Read(r) : (\A j \in Read(r) : j <= m) /\ sockets[r].shown = sent[m]
    <3>1. Read(r) # {}
      BY <1>6
    <3> QED
      BY <3>1 DEF StreamInv, LastRead
  <2>2. m \in 1..Len(sent) /\ \A j \in Read(r) : j \in Int
    BY OldestBounds DEF Read, Of
  <2>3. m \in Read(r)'
    <3>1. PICK j \in Read(r)' : TRUE
      OBVIOUS
    <3>2. j \in Read(r) /\ j >= Oldest'
      BY <1>6, <3>1
    <3>3. m >= Oldest'
      BY <1>5, <2>1, <2>2, <3>2
    <3> QED
      BY <1>6, <3>3
  <2> QED
    BY <1>1, <1>2, <1>6, <2>1, <2>2, <2>3
<1> QED
  BY <1>3, <1>4, <1>7 DEF StreamInv

\* A step of one socket that keeps what is sent.
LEMMA SocketStep ==
  ASSUME StreamInv, NEW r \in Request, NEW s \in Socket \cup {None},
         sockets' = [sockets EXCEPT ![r] = s], UNCHANGED <<commits, unsent, sent>>,
         s # None => /\ s \in Socket /\ s.joined < s.next /\ s.next <= Len(sent) + 1
                     /\ \A i \in Of(s.user) :
                          i > s.joined /\ i >= Oldest /\ i < s.next =>
                            \E m \in Of(s.user) :
                              /\ m > s.joined /\ m >= Oldest /\ m < s.next /\ s.shown = sent[m]
                              /\ \A j \in Of(s.user) :
                                   j > s.joined /\ j >= Oldest /\ j < s.next => j <= m
  PROVE  StreamInv'
<1>1. /\ sockets' \in [Request -> Socket \cup {None}] /\ sockets'[r] = s
      /\ \A p \in Request \ {r} : sockets'[p] = sockets[p]
  BY DEF StreamInv, StreamTypes
<1>2. StreamTypes'
  BY <1>1 DEF StreamInv, StreamTypes
<1>3. SocketsInOrder'
  BY <1>1 DEF StreamInv, SocketsInOrder, Opened
<1>4. LastRead'
  <2> SUFFICES ASSUME NEW p \in Opened', Read(p)' # {}
               PROVE  \E m \in Read(p)' : (\A j \in Read(p)' : j <= m) /\ sockets'[p].shown = sent'[m]
    BY DEF LastRead
  <2>1. Oldest' = Oldest /\ \A u : Of(u)' = Of(u)
    BY DEF Oldest, Of
  <2>2. CASE p = r
    BY <1>1, <2>1, <2>2 DEF Opened, Read
  <2>3. CASE p # r
    <3>1. p \in Opened /\ sockets'[p] = sockets[p]
      BY <1>1, <2>3 DEF Opened
    <3>2. Read(p)' = Read(p)
      BY <2>1, <3>1 DEF Read
    <3> QED
      BY <3>1, <3>2 DEF StreamInv, LastRead
  <2> QED
    BY <2>2, <2>3
<1> QED
  BY <1>2, <1>3, <1>4 DEF StreamInv

LEMMA ConnectStep == ASSUME StreamInv, NEW r \in Request, requests[r].user \in User, Connect(r)
                     PROVE  StreamInv'
<1> DEFINE s == [user |-> requests[r].user, joined |-> Len(sent), next |-> Len(sent) + 1,
                 shown |-> 0, lagged |-> FALSE]
<1>1. s \in Socket /\ s.joined < s.next /\ s.next <= Len(sent) + 1
  BY OldestBounds DEF Socket
<1>2. \A i \in Of(s.user) : ~(i > s.joined /\ i < s.next)
  BY OldestBounds DEF Of
<1>3. sockets' = [sockets EXCEPT ![r] = s] /\ UNCHANGED <<commits, unsent, sent>>
  BY DEF Connect
<1> HIDE DEF s
<1> QED
  BY <1>1, <1>2, <1>3, SocketStep

LEMMA LagStep == ASSUME StreamInv, NEW r \in Request, Lag(r) PROVE StreamInv'
<1> DEFINE s == [sockets[r] EXCEPT !.next = Oldest, !.lagged = TRUE]
<1>1. /\ sockets[r] \in Socket /\ sockets[r].joined < sockets[r].next
      /\ sockets[r].next < Oldest
  BY DEF Lag, StreamInv, SocketsInOrder
<1>2. /\ s \in Socket /\ s.joined = sockets[r].joined /\ s.next = Oldest
      /\ s.user = sockets[r].user /\ sockets[r].joined \in Nat /\ sockets[r].next \in Nat
  BY <1>1, OldestBounds DEF Socket
<1>3. sockets' = [sockets EXCEPT ![r] = s] /\ UNCHANGED <<commits, unsent, sent>>
  BY DEF Lag, Resume
<1> HIDE DEF s
<1>4. s.joined < s.next /\ s.next <= Len(sent) + 1
  BY <1>1, <1>2, OldestBounds
<1>5. \A i \in Of(s.user) : ~(i >= Oldest /\ i < s.next)
  BY <1>2, OldestBounds DEF Of
<1> QED
  BY <1>2, <1>3, <1>4, <1>5, SocketStep

LEMMA ShowStep == ASSUME StreamInv, NEW r \in Request, Show(r) PROVE StreamInv'
<1> DEFINE n == sockets[r].next
           shown == IF Concerns(sent[n], sockets[r].user) THEN sent[n] ELSE sockets[r].shown
           next == n + 1
           s == [sockets[r] EXCEPT !.next = next, !.shown = shown]
<1>1. /\ r \in Opened /\ sockets[r] \in Socket /\ sockets[r].joined < n
      /\ n >= Oldest /\ n <= Len(sent)
  BY DEF Show, StreamInv, SocketsInOrder
<1>2. /\ sockets[r].joined \in Nat /\ n \in Nat /\ sockets[r].shown \in Nat
      /\ n \in DOMAIN sent /\ sent[n] \in DOMAIN commits
  BY <1>1, OldestBounds DEF Socket, StreamInv, StreamTypes
<1>3. sent[n] \in Nat
  BY <1>2 DEF StreamInv, StreamTypes
<1>4. shown \in Nat
  BY <1>2, <1>3
<1>5. sockets' = [sockets EXCEPT ![r] = s] /\ UNCHANGED <<commits, unsent, sent>>
  BY DEF Show
<1>6. /\ s \in Socket /\ s.joined = sockets[r].joined /\ s.next = n + 1
      /\ s.user = sockets[r].user /\ s.shown = shown
  <2>1. next \in Nat
    BY <1>2
  <2> HIDE DEF n, next, shown
  <2>2. /\ s \in Socket /\ s.joined = sockets[r].joined /\ s.next = next
        /\ s.user = sockets[r].user /\ s.shown = shown
    BY <1>1, <1>4, <2>1 DEF Socket
  <2> QED
    BY <2>2 DEF next
<1> HIDE DEF s, shown
<1>7. \A i \in Of(s.user) : i \in Int
  BY OldestBounds DEF Of
<1>8. CASE Concerns(sent[n], sockets[r].user)
  <2>1. n \in Of(s.user) /\ shown = sent[n]
    BY <1>2, <1>6, <1>8 DEF Concerns, Of, shown
  <2>2. \A j \in Of(s.user) : j < s.next => j <= n
    BY <1>2, <1>6, <1>7
  <2>3. s.joined < s.next /\ s.next <= Len(sent) + 1 /\ n < s.next
    BY <1>1, <1>2, <1>6, OldestBounds
  <2> QED
    BY <1>1, <1>5, <1>6, <2>1, <2>2, <2>3, SocketStep
<1>9. CASE ~Concerns(sent[n], sockets[r].user)
  <2>1. n \notin Of(s.user) /\ shown = sockets[r].shown
    BY <1>2, <1>6, <1>9 DEF Concerns, Of, shown
  <2>2. \A j \in Of(s.user) : j < s.next <=> j < n
    BY <1>2, <1>6, <1>7, <2>1
  <2>3. s.joined < s.next /\ s.next <= Len(sent) + 1
    BY <1>1, <1>2, <1>6, OldestBounds
  <2>4. ASSUME NEW i \in Of(s.user), i > s.joined, i >= Oldest, i < s.next
        PROVE  \E m \in Of(s.user) :
                 /\ m > s.joined /\ m >= Oldest /\ m < s.next /\ s.shown = sent[m]
                 /\ \A j \in Of(s.user) : j > s.joined /\ j >= Oldest /\ j < s.next => j <= m
    <3>1. i \in Read(r)
      BY <1>6, <2>2, <2>4 DEF Read
    <3>2. PICK m \in Read(r) : (\A j \in Read(r) : j <= m) /\ sockets[r].shown = sent[m]
      BY <1>1, <3>1 DEF StreamInv, LastRead
    <3> QED
      BY <1>6, <2>1, <2>2, <3>2 DEF Read
  <2> QED
    BY <1>5, <1>6, <2>3, <2>4, SocketStep
<1> QED
  BY <1>8, <1>9

LEMMA CloseStep == ASSUME StreamInv, NEW r \in Request, Close(r) PROVE StreamInv'
  BY SocketStep DEF Close

\* A socket's user is the one its request came with.
UsersKnown == \A r \in Request : requests[r].op = "ws" => requests[r].user \in User

LEMMA UsersStep == ASSUME KeyInv, UsersKnown, [Next]_vars PROVE UsersKnown'
<1> USE DEF UsersKnown
<1>1. requests \in [Request -> RequestType]
  BY DEF KeyInv, KeyTypes
<1>2. ASSUME NEW r \in Request, NEW kid \in Kids, NEW op, NEW u, Arrive(r, op, u, kid),
             op = "ws" => u \in User
      PROVE  UsersKnown'
  <2>1. /\ \A p \in Request \ {r} : requests'[p] = requests[p]
        /\ requests'[r].op = op /\ requests'[r].user = u
    BY <1>1, <1>2 DEF Arrive, NoToken
  <2> QED
    BY <1>2, <2>1
<1>3. ASSUME NEW r \in Request, Verify(r) \/ Connect(r) PROVE UsersKnown'
  <2>1. /\ \A p \in Request \ {r} : requests'[p] = requests[p]
        /\ requests'[r].op = requests[r].op /\ requests'[r].user = requests[r].user
    BY <1>1, <1>3 DEF Verify, ValidateSelfSigned, Look, Serve, FetchFails, Store, Verdict, Connect,
                      RequestType
  <2> QED
    BY <2>1
<1>4. CASE UNCHANGED requests
  BY <1>4
<1> QED
  BY <1>2, <1>3, <1>4 DEF Next, vars, keyVars, Rotate, TimePasses

LEMMA StreamStep == ASSUME StreamInv, KeyInv, UsersKnown, [Next]_vars PROVE StreamInv'
<1>1. CASE UNCHANGED streamVars
  BY <1>1 DEF streamVars, StreamInv, StreamTypes, SocketsInOrder, LastRead, Opened, Read, Of, Oldest
<1>2. ASSUME NEW r \in Request, Connect(r) PROVE StreamInv'
  BY <1>2, ConnectStep DEF Connect, UsersKnown
<1> QED
  BY <1>1, <1>2, CommitStep, PublishStep, LagStep, ShowStep, CloseStep DEF Next, vars

EdgeInv == KeyInv /\ UsersKnown /\ StreamInv

\* The keys and the sockets together, over one service: the invariant that the
\* next two theorems rest on.
THEOREM EdgeInvariant == Spec => []EdgeInv
<1>1. Init => EdgeInv
  <2> SUFFICES ASSUME Init PROVE EdgeInv
    OBVIOUS
  <2>1. UsersKnown
    BY DEF Init, KeyInit, NoToken, UsersKnown
  <2>2. StreamInv
    BY DEF Init, StreamInit, StreamInv, StreamTypes, SocketsInOrder, LastRead, Opened
  <2> QED
    BY <2>1, <2>2, KeyInitInv DEF Init, EdgeInv
<1>2. EdgeInv /\ [Next]_vars => EdgeInv'
  BY KeyStep, UsersStep, StreamStep DEF EdgeInv
<1> QED
  BY <1>1, <1>2, PTL DEF Spec

\* The cache, the requests, the channel and the sockets keep their types.
THEOREM EdgeTypeCorrect == Spec => []EdgeType
<1>1. EdgeInv => EdgeType
  BY DEF EdgeInv, KeyInv, KeyTypes, StreamInv, StreamTypes, EdgeType
<1> QED
  BY <1>1, EdgeInvariant, PTL

\* However the receivers lag and publications come, a socket that has caught
\* up shows the last message of its user that it could still read.
THEOREM LastMessageShown == Spec => []DrainedShowsLast
<1>1. ASSUME EdgeInv PROVE DrainedShowsLast
  <2> USE <1>1 DEF EdgeInv
  <2> SUFFICES ASSUME NEW r \in Opened, sockets[r].next > Len(sent),
                      {i \in Of(sockets[r].user) : i > sockets[r].joined /\ i >= Oldest} # {}
               PROVE  LET seen == {i \in Of(sockets[r].user) :
                                     i > sockets[r].joined /\ i >= Oldest}
                      IN  sockets[r].shown = sent[CHOOSE i \in seen : \A j \in seen : j <= i]
    BY DEF DrainedShowsLast
  <2> DEFINE seen == {i \in Of(sockets[r].user) : i > sockets[r].joined /\ i >= Oldest}
  <2>1. sockets[r].next \in Int /\ \A i \in seen : i \in Int /\ i <= Len(sent)
    BY OldestBounds DEF StreamInv, SocketsInOrder, Socket, Of
  <2>2. Read(r) = seen
    BY <2>1, OldestBounds DEF Read
  <2>3. PICK m \in seen : (\A j \in seen : j <= m) /\ sockets[r].shown = sent[m]
    BY <2>2 DEF StreamInv, LastRead
  <2> HIDE DEF seen
  <2>4. \A i \in seen : (\A j \in seen : j <= i) => i = m
    BY <2>1, <2>3
  <2>5. (CHOOSE i \in seen : \A j \in seen : j <= i) = m
    BY <2>3, <2>4
  <2> QED
    BY <2>3, <2>5 DEF seen
<1> QED
  BY <1>1, EdgeInvariant, PTL

-----------------------------------------------------------------------------
(* Sockets that never lagged.                                              *)

\* What a socket has read of its user, in the channel still or not.
EverRead(r) ==
  {i \in Of(sockets[r].user) : i > sockets[r].joined /\ i < sockets[r].next}

ShowsLatest(s, read) ==
  \/ s.shown = 0 /\ read = {}
  \/ \E m \in read : (\A j \in read : j <= m) /\ s.shown = sent[m]

\* Whoever never lagged has missed nothing.
UnlaggedRead ==
  \A r \in Opened : ~sockets[r].lagged => ShowsLatest(sockets[r], EverRead(r))

\* A change that is to be published is, or will be.
AllPublished ==
  \A n \in DOMAIN commits :
    commits[n].silent \/ n \in unsent \/ \E j \in DOMAIN sent : sent[j] = n

\* The changes of an account have a last one.
ChangesOf(u) == {n \in DOMAIN commits : commits[n].user = u}

LastExists ==
  \A u : \E n \in ChangesOf(u) \cup {0} : \A k \in ChangesOf(u) : k <= n

QuietInv == UnlaggedRead /\ AllPublished /\ LastExists

LEMMA QuietCommit ==
  ASSUME StreamInv, QuietInv, NEW u \in User, NEW silent \in BOOLEAN, Commit(u, silent)
  PROVE  QuietInv'
<1> DEFINE change == [user |-> u, silent |-> silent]
<1>1. /\ commits \in Seq(Change) /\ change \in Change /\ commits' = Append(commits, change)
      /\ UNCHANGED <<sent, sockets>> /\ change.silent = silent
      /\ unsent' = IF silent THEN unsent ELSE unsent \cup {Len(commits')}
  BY DEF Commit, StreamInv, StreamTypes, Change
<1> HIDE DEF change
<1>2. /\ Len(commits') = Len(commits) + 1
      /\ DOMAIN commits' = DOMAIN commits \cup {Len(commits')}
      /\ \A i \in DOMAIN commits : commits'[i] = commits[i]
      /\ commits'[Len(commits')] = change
  BY <1>1
<1>3. AllPublished'
  BY <1>1, <1>2 DEF QuietInv, AllPublished
<1>4. \A v : Of(v)' = Of(v)
  BY <1>1, <1>2 DEF Of, StreamInv, StreamTypes
<1>5. UnlaggedRead'
  BY <1>1, <1>4 DEF QuietInv, UnlaggedRead, Opened, EverRead, ShowsLatest
<1>6. LastExists'
  <2> SUFFICES ASSUME NEW v
               PROVE  \E n \in ChangesOf(v)' \cup {0} : \A k \in ChangesOf(v)' : k <= n
    BY DEF LastExists
  <2>1. /\ ChangesOf(v)' = IF change.user = v THEN ChangesOf(v) \cup {Len(commits')}
                           ELSE ChangesOf(v)
        /\ \A k \in ChangesOf(v) : k \in 1..Len(commits)
        /\ Len(commits) \in Nat
    BY <1>1, <1>2 DEF ChangesOf
  <2> QED
    BY <1>2, <2>1 DEF QuietInv, LastExists
<1> QED
  BY <1>3, <1>5, <1>6 DEF QuietInv

LEMMA QuietPublish ==
  ASSUME StreamInv, QuietInv, NEW n \in unsent, Publish(n)
  PROVE  QuietInv'
<1>1. /\ sent' = Append(sent, n) /\ unsent' = unsent \ {n}
      /\ UNCHANGED <<commits, sockets>> /\ sent \in Seq(DOMAIN commits) /\ n \in DOMAIN commits
  BY DEF Publish, StreamInv, StreamTypes
<1>2. /\ Len(sent') = Len(sent) + 1 /\ sent'[Len(sent')] = n
      /\ \A i \in 1..Len(sent) : sent'[i] = sent[i]
      /\ DOMAIN sent = 1..Len(sent) /\ DOMAIN sent' = 1..Len(sent')
  BY <1>1
<1>3. AllPublished'
  BY <1>1, <1>2, OldestBounds DEF QuietInv, AllPublished
<1>4. ASSUME NEW r \in Opened PROVE EverRead(r)' = EverRead(r) /\ EverRead(r) \subseteq 1..Len(sent)
  <2>1. /\ sockets[r].next \in Int /\ sockets[r].next <= Len(sent) + 1
        /\ sockets'[r] = sockets[r]
    BY <1>1 DEF StreamInv, SocketsInOrder, Socket
  <2>2. \A i : i \in Of(sockets[r].user)' /\ i < sockets[r].next
                 <=> i \in Of(sockets[r].user) /\ i < sockets[r].next
    BY <1>1, <1>2, <2>1, OldestBounds DEF Of
  <2> QED
    BY <1>2, <2>1, <2>2 DEF EverRead, Of
<1>5. UnlaggedRead'
  BY <1>1, <1>2, <1>4 DEF QuietInv, UnlaggedRead, Opened, ShowsLatest
<1>6. LastExists'
  BY <1>1 DEF QuietInv, LastExists, ChangesOf
<1> QED
  BY <1>3, <1>5, <1>6 DEF QuietInv

\* A step of one socket.
LEMMA QuietSocket ==
  ASSUME StreamInv, QuietInv, NEW r \in Request, NEW s \in Socket \cup {None},
         sockets' = [sockets EXCEPT ![r] = s], UNCHANGED <<commits, unsent, sent>>,
         s = None \/ s.lagged
           \/ ShowsLatest(s, {i \in Of(s.user) : i > s.joined /\ i < s.next})
  PROVE  QuietInv'
<1>1. sockets'[r] = s /\ \A p \in Request \ {r} : sockets'[p] = sockets[p]
  BY DEF StreamInv, StreamTypes
<1>2. \A u : Of(u)' = Of(u)
  BY DEF Of
<1>3. UnlaggedRead'
  <2> SUFFICES ASSUME NEW p \in Request, sockets'[p] # None, ~sockets'[p].lagged
               PROVE  ShowsLatest(sockets'[p], EverRead(p)')
    BY DEF UnlaggedRead, Opened, ShowsLatest
  <2>1. CASE p = r
    BY <1>1, <1>2, <2>1 DEF EverRead
  <2>2. CASE p # r
    BY <1>1, <1>2, <2>2 DEF QuietInv, UnlaggedRead, Opened, EverRead
  <2> QED
    BY <2>1, <2>2
<1> QED
  BY <1>3 DEF QuietInv, AllPublished, LastExists, ChangesOf

LEMMA QuietConnect ==
  ASSUME StreamInv, QuietInv, NEW r \in Request, requests[r].user \in User, Connect(r)
  PROVE  QuietInv'
<1> DEFINE s == [user |-> requests[r].user, joined |-> Len(sent), next |-> Len(sent) + 1,
                 shown |-> 0, lagged |-> FALSE]
<1>1. s \in Socket /\ s.shown = 0
  BY OldestBounds DEF Socket
<1>2. {i \in Of(s.user) : i > s.joined /\ i < s.next} = {}
  BY OldestBounds DEF Of
<1>3. sockets' = [sockets EXCEPT ![r] = s] /\ UNCHANGED <<commits, unsent, sent>>
  BY DEF Connect
<1> HIDE DEF s
<1> QED
  BY <1>1, <1>2, <1>3, QuietSocket DEF ShowsLatest

LEMMA QuietLag == ASSUME StreamInv, QuietInv, NEW r \in Request, Lag(r) PROVE QuietInv'
<1> DEFINE s == [sockets[r] EXCEPT !.next = Oldest, !.lagged = TRUE]
<1>1. sockets[r] \in Socket
  BY DEF Lag, StreamInv, SocketsInOrder
<1>2. s \in Socket /\ s.lagged
  BY <1>1, OldestBounds DEF Socket
<1>3. sockets' = [sockets EXCEPT ![r] = s] /\ UNCHANGED <<commits, unsent, sent>>
  BY DEF Lag, Resume
<1> HIDE DEF s
<1> QED
  BY <1>2, <1>3, QuietSocket

LEMMA QuietShow == ASSUME StreamInv, QuietInv, NEW r \in Request, Show(r) PROVE QuietInv'
<1> DEFINE n == sockets[r].next
           concerned == Concerns(sent[n], sockets[r].user)
           shown == IF concerned THEN sent[n] ELSE sockets[r].shown
           next == n + 1
           s == [sockets[r] EXCEPT !.next = next, !.shown = shown]
<1>1. /\ r \in Opened /\ sockets[r] \in Socket /\ sockets[r].joined < n /\ n <= Len(sent)
      /\ sockets[r].joined \in Nat /\ n \in Nat
  BY DEF Show, StreamInv, SocketsInOrder, Socket
<1>2. n \in DOMAIN sent /\ sent[n] \in Nat
  BY <1>1, OldestBounds DEF Show, StreamInv, StreamTypes
<1>3. sockets' = [sockets EXCEPT ![r] = s] /\ UNCHANGED <<commits, unsent, sent>>
  BY DEF Show
<1>4. next \in Nat /\ shown \in Nat
  BY <1>1, <1>2 DEF Socket
<1>5. n \in Of(sockets[r].user) <=> concerned
  BY <1>2 DEF Of, Concerns
<1> HIDE DEF next, shown, concerned
<1>6. /\ s \in Socket /\ s.joined = sockets[r].joined /\ s.next = next
      /\ s.user = sockets[r].user /\ s.shown = shown /\ s.lagged = sockets[r].lagged
  BY <1>1, <1>4 DEF Socket
<1> HIDE DEF s
<1> DEFINE read == {i \in Of(s.user) : i > s.joined /\ i < s.next}
<1>7. read = IF concerned THEN EverRead(r) \cup {n} ELSE EverRead(r)
  <2>1. \A i \in Of(s.user) : i \in Int
    BY OldestBounds DEF Of
  <2> QED
    BY <1>1, <1>5, <1>6, <2>1 DEF EverRead, next
<1>8. \A i \in EverRead(r) : i <= n
  BY <1>1, OldestBounds DEF EverRead, Of
<1> HIDE DEF read
<1>9. s.lagged \/ ShowsLatest(s, read)
  <2>1. CASE concerned
    BY <1>1, <1>6, <1>7, <1>8, <2>1 DEF ShowsLatest, shown
  <2>2. CASE ~concerned
    BY <1>1, <1>6, <1>7, <2>2 DEF ShowsLatest, shown, QuietInv, UnlaggedRead
  <2> QED
    BY <2>1, <2>2
<1> QED
  BY <1>3, <1>6, <1>9, QuietSocket DEF read

LEMMA QuietClose == ASSUME StreamInv, QuietInv, NEW r \in Request, Close(r) PROVE QuietInv'
  BY QuietSocket DEF Close

LEMMA QuietStep ==
  ASSUME EdgeInv, QuietInv, [Next]_vars PROVE QuietInv'
<1> USE DEF EdgeInv
<1>1. CASE UNCHANGED streamVars
  BY <1>1 DEF streamVars, QuietInv, UnlaggedRead, AllPublished, EverRead, ShowsLatest, Opened, Of,
                   LastExists, ChangesOf
<1>2. ASSUME NEW r \in Request, Connect(r) PROVE QuietInv'
  BY <1>2, QuietConnect DEF Connect, UsersKnown
<1> QED
  BY <1>1, <1>2, QuietCommit, QuietPublish, QuietLag, QuietShow, QuietClose DEF Next, vars

LEMMA QuietIsCurrent == ASSUME EdgeInv, QuietInv PROVE CurrentWhenQuiet
<1> SUFFICES ASSUME NEW r \in Opened, sockets[r].shown # 0, sockets[r].next > Len(sent),
                    unsent = {}, ~sockets[r].lagged, InOrder(sockets[r].user),
                    LastChange(sockets[r].user) \notin Silent
             PROVE  sockets[r].shown = LastChange(sockets[r].user)
  BY DEF CurrentWhenQuiet
<1> DEFINE u == sockets[r].user
           last == LastChange(u)
<1>1. PICK m \in EverRead(r) :
        (\A j \in EverRead(r) : j <= m) /\ sockets[r].shown = sent[m]
  BY DEF QuietInv, UnlaggedRead, ShowsLatest
<1>2. /\ sockets[r].next \in Int /\ sockets[r].joined \in Int
      /\ DOMAIN sent = 1..Len(sent) /\ Len(sent) \in Nat
      /\ \A i \in DOMAIN sent : sent[i] \in DOMAIN commits
      /\ Len(commits) \in Nat /\ DOMAIN commits = 1..Len(commits)
  BY OldestBounds DEF EdgeInv, StreamInv, StreamTypes, SocketsInOrder, Socket
<1>3. m \in Of(u) /\ \A j \in Of(u) : j <= m
  BY <1>1, <1>2 DEF EverRead, Of
<1>4. last \in ChangesOf(u) \cup {0} /\ \A k \in ChangesOf(u) : k <= last
  BY DEF QuietInv, LastExists, LastChange, ChangesOf
<1>5. sent[m] \in ChangesOf(u) /\ sent[m] \in 1..Len(commits)
  BY <1>2, <1>3 DEF Of, ChangesOf
<1>6. last \in ChangesOf(u) /\ last \in 1..Len(commits) /\ sent[m] <= last
  BY <1>2, <1>4, <1>5 DEF ChangesOf
<1>7. PICK j \in DOMAIN sent : sent[j] = last
  BY <1>6 DEF Silent, QuietInv, AllPublished, ChangesOf
<1>8. j \in Of(u) /\ j <= m
  BY <1>3, <1>6, <1>7 DEF Of, ChangesOf
<1>9. last <= sent[m]
  <2>1. j < m => sent[j] < sent[m]
    BY <1>3, <1>8 DEF InOrder
  <2>2. j \in Int /\ m \in Int /\ sent[m] \in Int
    BY <1>2, <1>3, <1>5, <1>7 DEF Of
  <2> QED
    BY <1>6, <1>7, <1>8, <2>1, <2>2
<1> QED
  BY <1>1, <1>5, <1>6, <1>9

\* What a socket shows when everything is quiet is the balance of its account,
\* whatever the sockets of others do and however the keys change meanwhile: no
\* message is lost between a commit and a socket that never lagged.
THEOREM ShownIsCurrent == Spec => []CurrentWhenQuiet
<1>1. Init => QuietInv
  <2> SUFFICES ASSUME Init PROVE QuietInv
    OBVIOUS
  <2> QED
    BY DEF Init, StreamInit, QuietInv, UnlaggedRead, AllPublished, LastExists, ChangesOf, Opened
<1>2. EdgeInv /\ QuietInv /\ [Next]_vars => QuietInv'
  BY QuietStep
<1>3. EdgeInv /\ QuietInv => CurrentWhenQuiet
  BY QuietIsCurrent
<1> QED
  BY <1>1, <1>2, <1>3, EdgeInvariant, PTL DEF Spec

=============================================================================
