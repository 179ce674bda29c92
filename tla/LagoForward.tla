------------------------------ MODULE LagoForward ------------------------------
(***************************************************************************)
(* Forwarding of charged usage to Lago (forward_to_lago_with_retry of      *)
(* handlers/usage.rs, send_llm_usage and send_compute_usage of             *)
(* lago/client.rs).  Each report leaves a task behind that sends the parts *)
(* of its event one after another, and starts over when one fails.  What   *)
(* Lago does with a transaction id it has seen is not this code's: it may  *)
(* accept it again, or refuse it.                                          *)
(***************************************************************************)
EXTENDS Integers, Sequences

CONSTANTS
  Event,            \* event ids
  LagoMaxRetries,
  Losses            \* bound on the calls to Lago that fail

VARIABLES
  forwards,  \* the task of each event
  lago,      \* the transactions Lago has
  losses,    \* the calls that have failed
  refusing   \* whether Lago refuses a transaction id that it has

-----------------------------------------------------------------------------

Part == {"input", "output", "cpu", "memory"}

\* next: the part that is sent next; attempt: the attempts that have failed.
Task == [state : {"none", "sending", "sent", "gave_up", "lost"},
         attempt : 0..(LagoMaxRetries - 1), next : 1..3]

NoTask == [state |-> "none", attempt |-> 0, next |-> 1]

LagoType ==
  /\ forwards \in [Event -> Task]
  /\ lago \subseteq Event \X Part
  /\ losses \in 0..Losses
  /\ refusing \in BOOLEAN

LagoInit ==
  /\ forwards = [e \in Event |-> NoTask]
  /\ lago = {}
  /\ losses = 0
  /\ refusing \in BOOLEAN

Sending(e) == forwards[e].state = "sending"

\* What is left out of an event has no part: no tokens, no hours.
Both(a, b, metric) == (IF metric.a > 0 THEN <<a>> ELSE <<>>) \o (IF metric.b > 0 THEN <<b>> ELSE <<>>)

Parts(metric) ==
  CASE metric.kind = "llm" -> Both("input", "output", metric)
    [] metric.kind = "compute" -> Both("cpu", "memory", metric)
    [] OTHER -> <<>>

\* tokio::spawn, once the charge is committed.
Forward(e) ==
  /\ forwards' = [forwards EXCEPT ![e] = [NoTask EXCEPT !.state = "sending"]]
  /\ UNCHANGED <<lago, losses, refusing>>

Advance(e) == forwards' = [forwards EXCEPT ![e].next = @ + 1]

\* Mutant of Retry: a part that failed is passed over.
RetrySkip(e) == Advance(e)

\* Mutant of Retry: one attempt more.
RetryMore(e) ==
  forwards' = [forwards EXCEPT ![e] =
    IF @.attempt >= LagoMaxRetries THEN [@ EXCEPT !.state = "gave_up"]
    ELSE [@ EXCEPT !.attempt = @ + 1, !.next = 1]]

\* Every attempt sends the parts from the first.
Retry(e) ==
  forwards' = [forwards EXCEPT ![e] =
    IF @.attempt + 1 >= LagoMaxRetries THEN [@ EXCEPT !.state = "gave_up"]
    ELSE [@ EXCEPT !.attempt = forwards[e].attempt + 1, !.next = 1]]

SendPart(e, metric) ==
  LET id == <<e, Parts(metric)[forwards[e].next]>>
  IN  /\ Sending(e)
      /\ forwards[e].next <= Len(Parts(metric))
      /\ \/ /\ id \notin lago \/ ~refusing
            /\ lago' = lago \cup {id}
            /\ Advance(e)
            /\ UNCHANGED losses
         \/ /\ id \in lago /\ refusing
            /\ Retry(e)
            /\ UNCHANGED <<lago, losses>>
         \/ /\ losses < Losses              \* the request or its answer is lost
            /\ losses' = losses + 1
            /\ lago' \in {lago, lago \cup {id}}
            /\ Retry(e)
      /\ UNCHANGED refusing

SendDone(e, metric) ==
  /\ Sending(e)
  /\ forwards[e].next > Len(Parts(metric))
  /\ forwards' = [forwards EXCEPT ![e].state = "sent"]
  /\ UNCHANGED <<lago, losses, refusing>>

LagoStep(e, metric) == SendPart(e, metric) \/ SendDone(e, metric)

\* The tasks of a process that stops are gone.
LoseTasks ==
  /\ forwards' = [e \in Event |-> IF Sending(e) THEN [forwards[e] EXCEPT !.state = "lost"]
                                  ELSE forwards[e]]
  /\ UNCHANGED <<lago, losses, refusing>>

=============================================================================
