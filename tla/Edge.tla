--------------------------------- MODULE Edge ---------------------------------
(***************************************************************************)
(* The way in and the way out: requests whose tokens are verified with     *)
(* cached keys, among them those that open a socket, and the balances that *)
(* the sockets are sent.                                                   *)
(***************************************************************************)
EXTENDS BalanceStream

vars == <<keyVars, streamVars>>

Kids == Key \cup {SelfSigned, NoKid}

Init == KeyInit /\ StreamInit

Next ==
  \/ \E r \in Request, kid \in Kids :
       /\ Arrive(r, "api", None, kid) \/ \E u \in User : Arrive(r, "ws", u, kid)
       /\ UNCHANGED streamVars
  \/ \E r \in Request : Verify(r) /\ UNCHANGED streamVars
  \/ \E r \in Request :
       Connect(r) /\ UNCHANGED <<now, published, cacheVars, historyVars, rotations>>
  \/ (\E k \in Key : Rotate(k)) /\ UNCHANGED streamVars
  \/ TimePasses /\ UNCHANGED streamVars
  \/ (\E u \in User, silent \in BOOLEAN : Commit(u, silent)) /\ UNCHANGED keyVars
  \/ \E n \in unsent : Publish(n) /\ UNCHANGED keyVars
  \/ \E r \in Request : (Lag(r) \/ Show(r) \/ Close(r)) /\ UNCHANGED keyVars

Spec == Init /\ [][Next]_vars

-----------------------------------------------------------------------------
(* Keys.                                                                   *)

RequestType ==
  [pc : {"idle", "look", "fetch", "answered", "done", "open"}, op : {"api", "ws"},
   user : User \cup {None}, kid : Kids \cup {None}, since : 0..LastTime, got : SUBSET Key,
   answer : {None, "accepted", "unauthorized", "unavailable"}]

EdgeType ==
  /\ now \in 0..LastTime
  /\ published \subseteq Key /\ cached \subseteq Rsa
  /\ updated \in {0 - CacheDuration} \cup 0..LastTime
  /\ requests \in [Request -> RequestType]
  /\ commits \in Seq(Change) /\ unsent \subseteq DOMAIN commits
  /\ sent \in Seq(DOMAIN commits)
  /\ sockets \in [Request -> Socket \cup {None}]

\* A key the provider publishes all the while a request runs is not refused,
\* whatever lists other requests fetch and store meanwhile, older ones too.
\* (A socket is refused also when the provider does not answer.)
PublishedServed ==
  \A r \in steady :
    requests[r].op = "api" /\ Kid(r) \in Rsa => requests[r].answer # "unauthorized"

\* Nobody is accepted with a key that is not in the cache for as long as a
\* list may be under way and then be kept: a fetch begun before the key was
\* withdrawn may bring it back after a later list had removed it.
Accepts(r) ==
  Kid(r) # SelfSigned /\ requests[r].pc # "done"
    /\ requests'[r].pc = "done" /\ requests'[r].answer = "accepted"

WithdrawnDies ==
  [][\A r \in Request : Accepts(r) =>
       Kid(r) \in published \/ now - withdrawn[Kid(r)] < FetchTimeout + CacheDuration]_vars

-----------------------------------------------------------------------------
(* Sockets.                                                                *)

Of(u) == {i \in DOMAIN sent : commits[sent[i]].user = u}

\* A socket that has read all there is shows the last message of its user
\* that was sent while it was open and is still in the channel, also when it
\* has lagged; it shows nobody else's.
DrainedShowsLast ==
  \A r \in Opened :
    LET s == sockets[r]
        seen == {i \in Of(s.user) : i > s.joined /\ i >= Oldest}
    IN  s.next > Len(sent) /\ seen # {} =>
          s.shown = sent[CHOOSE i \in seen : \A j \in seen : j <= i]

\* What it shows is the balance of its account, when the publications of its
\* user's changes did not overtake each other, the last change was not one of
\* those that are not published, and the messages of others did not make it lag.
InOrder(u) == \A i, j \in Of(u) : i < j => sent[i] < sent[j]

LastChange(u) ==
  LET mine == {n \in DOMAIN commits : commits[n].user = u}
  IN  CHOOSE n \in mine \cup {0} : \A m \in mine : m <= n

Silent == {n \in DOMAIN commits : commits[n].silent}

CurrentWhenQuiet ==
  \A r \in Opened :
    LET s == sockets[r]
    IN  s.shown # 0 /\ s.next > Len(sent) /\ unsent = {} /\ ~s.lagged /\ InOrder(s.user)
          /\ LastChange(s.user) \notin Silent
        => s.shown = LastChange(s.user)

=============================================================================
