----------------------------- MODULE BalanceStream -----------------------------
(***************************************************************************)
(* handlers/ws.rs and the channel of state.rs: a handler that has changed  *)
(* a balance publishes it, after its commit, to one broadcast channel that *)
(* the sockets of all users share.  The channel keeps the last Capacity    *)
(* messages; a receiver that falls further behind is told so and goes on   *)
(* with the oldest that is left.  A socket shows the messages of its user. *)
(* Its token is checked by KeyCache before it is opened.                   *)
(***************************************************************************)
EXTENDS KeyCache, Sequences

CONSTANTS
  Capacity,  \* of the channel: 256
  Changes    \* bound on the changes of balances

ASSUME StreamAssumption == Capacity \in Nat \ {0} /\ Changes \in Nat

VARIABLES
  commits,   \* the changes of accounts, in the order of their commits
  unsent,    \* those that are yet to be published
  sent,      \* messages sent to the channel so far, each the number of its change
  sockets    \* the receiver and the page of each request that opened a socket

streamVars == <<commits, unsent, sent, sockets>>

\* The message of a change says what it left on the account.
\* silent: made by one of the handlers that publish nothing.
Change == [user : User, silent : BOOLEAN]

\* joined, lagged: how much had been sent when the socket came, and whether
\* it was ever told that it lags.
Socket == [user : User, joined : Nat, next : Nat, shown : Nat, lagged : BOOLEAN]

Opened == {r \in Request : sockets[r] # None}

StreamInit ==
  /\ commits = <<>> /\ unsent = {} /\ sent = <<>>
  /\ sockets = [r \in Request |-> None]

-----------------------------------------------------------------------------

\* A batch of usage, and the refill of an account, publish nothing.
Commit(u, silent) ==
  /\ Len(commits) < Changes
  /\ commits' = Append(commits, [user |-> u, silent |-> silent])
  /\ unsent' = IF silent THEN unsent ELSE unsent \cup {Len(commits')}
  /\ UNCHANGED <<sent, sockets>>

\* With no receiver there the message is dropped, and a later one would not
\* have seen it.
Publish(n) ==
  /\ n \in unsent
  /\ unsent' = unsent \ {n}
  /\ sent' = Append(sent, n)
  /\ UNCHANGED <<commits, sockets>>

-----------------------------------------------------------------------------

\* The receiver subscribes before the connection is upgraded.
Connect(r) ==
  /\ OnKey(r, "done") /\ requests[r].op = "ws" /\ requests[r].answer = "accepted"
  /\ sockets' = [sockets EXCEPT ![r] = [user |-> requests[r].user, joined |-> Len(sent),
                                        next |-> Len(sent) + 1, shown |-> 0, lagged |-> FALSE]]
  /\ requests' = [requests EXCEPT ![r].pc = "open"]
  /\ UNCHANGED <<commits, unsent, sent>>

Oldest == IF Len(sent) > Capacity THEN Len(sent) - Capacity + 1 ELSE 1

\* Mutant of Resume: whoever lags goes on with what is sent next.
ResumeAtEnd == Len(sent) + 1

Resume == Oldest

Lag(r) ==
  /\ r \in Opened /\ sockets[r].next < Oldest
  /\ sockets' = [sockets EXCEPT ![r].next = Resume, ![r].lagged = TRUE]
  /\ UNCHANGED <<commits, unsent, sent>>

\* Mutant of Concerns: everyone sees every message.
ConcernsAll(n, u) == TRUE

Concerns(n, u) == commits[n].user = u

Show(r) ==
  LET s == sockets[r]
  IN  /\ r \in Opened /\ s.next >= Oldest /\ s.next <= Len(sent)
      /\ sockets' = [sockets EXCEPT ![r].next = s.next + 1,
                       ![r].shown = IF Concerns(sent[s.next], s.user) THEN sent[s.next] ELSE @]
      /\ UNCHANGED <<commits, unsent, sent>>

\* The client closes, or a message cannot be sent to it.
Close(r) ==
  /\ r \in Opened
  /\ sockets' = [sockets EXCEPT ![r] = None]
  /\ UNCHANGED <<commits, unsent, sent>>

=============================================================================
