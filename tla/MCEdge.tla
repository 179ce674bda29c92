-------------------------------- MODULE MCEdge --------------------------------
(***************************************************************************)
(* A small instance of Edge for TLC.                                       *)
(***************************************************************************)
EXTENDS Edge, TLC

\* The keys and the stream meet only where a socket is opened, and every
\* property is about one of them: it is enough to vary them one after the other.
Settled(r) == requests[r].pc = "idle" \/ (requests[r].op = "ws" /\ Kid(r) \in Rsa)

Apart ==
  \/ commits = <<>>
  \/ now = 0 /\ rotations = 0 /\ published = Key /\ updated = 0 /\ \A r \in Request : Settled(r)

Symmetry == Permutations(Request) \cup Permutations(User)

=============================================================================
