------------------------------- MODULE KeyCache -------------------------------
(***************************************************************************)
(* auth.rs: tokens are verified with keys that the auth provider publishes *)
(* under a key id.  The keys are kept for a while in one cache behind a    *)
(* read-write lock; who finds no key there, or an old cache, fetches the   *)
(* whole list without holding the lock, and then replaces the cache.       *)
(*                                                                         *)
(* A unit of time is longer than any wait for the lock.  The signature     *)
(* itself is a library's: a token is the id of the key that signed it.     *)
(* withdrawn and steady record history for the properties.                 *)
(***************************************************************************)
EXTENDS Integers

CONSTANTS
  Request,        \* requests with a token
  User,
  Key,            \* ids of the keys that may be published
  Rsa,            \* those that make a decoding key
  SelfSigned,     \* the id zOS uses for tokens signed with the shared secret
  NoKid,          \* a token without a key id
  None,
  CacheDuration,  \* JWKS_CACHE_DURATION
  FetchTimeout,   \* JWKS_FETCH_TIMEOUT
  LastTime,       \* bound on the clock
  Rotations       \* bound on the changes of the published keys

ASSUME KeyCacheAssumption ==
  /\ CacheDuration \in Nat \ {0} /\ FetchTimeout \in Nat \ {0}
  /\ LastTime \in Nat /\ Rotations \in Nat
  /\ Rsa \subseteq Key /\ SelfSigned \notin Key /\ NoKid \notin Key
  /\ None \notin {"accepted", "unauthorized", "unavailable"}

VARIABLES
  now,
  published,   \* the keys the provider publishes
  cached,      \* JwksCache.keys
  updated,     \* JwksCache.last_updated
  requests,    \* the requests with their tokens
  withdrawn,   \* when a key was last withdrawn
  steady,      \* requests whose key has been published all along
  rotations    \* how often the published keys have changed

cacheVars == <<cached, updated>>

historyVars == <<withdrawn, steady>>

keyVars == <<now, published, cached, updated, requests, withdrawn, steady, rotations>>

NoToken == [pc |-> "idle", op |-> "api", user |-> None, kid |-> None, since |-> 0,
            got |-> {}, answer |-> None]

\* Where the platform's clock starts too late, a new cache counts as fresh.
KeyInit ==
  /\ now = 0
  /\ published \in SUBSET Key
  /\ cached = {}
  /\ updated \in {0 - CacheDuration, 0}
  /\ requests = [r \in Request |-> NoToken]
  /\ withdrawn = [k \in Key |-> 0 - (CacheDuration + FetchTimeout)]
  /\ steady = {}
  /\ rotations = 0

-----------------------------------------------------------------------------

OnKey(r, pc) == requests[r].pc = pc

Kid(r) == requests[r].kid

Verdict(r, answer) ==
  [requests EXCEPT ![r].pc = "done", ![r].since = 0, ![r].got = {}, ![r].answer = answer]

\* A socket turns every failure into the one answer.
Unavailable(r) == IF requests[r].op = "ws" THEN "unauthorized" ELSE "unavailable"

Arrive(r, op, u, kid) ==
  /\ OnKey(r, "idle")
  /\ requests' = [requests EXCEPT ![r] = [NoToken EXCEPT !.pc = "look", !.op = op,
                                                         !.user = u, !.kid = kid]]
  /\ steady' = IF kid \in published THEN steady \cup {r} ELSE steady
  /\ UNCHANGED <<now, published, cached, updated, withdrawn, rotations>>

\* Verified with the shared secret; there may be none.
ValidateSelfSigned(r) ==
  /\ OnKey(r, "look") /\ Kid(r) = SelfSigned
  /\ \E answer \in {"accepted", "unauthorized"} : requests' = Verdict(r, answer)
  /\ UNCHANGED <<now, published, cached, updated, withdrawn, steady, rotations>>

\* Mutant of Expired: an hour's age is not old yet.
ExpiredLater == now - updated > CacheDuration

Expired == now - updated >= CacheDuration

\* Under the read lock.
Look(r) ==
  /\ OnKey(r, "look") /\ Kid(r) # SelfSigned
  /\ requests' = IF ~Expired /\ Kid(r) \in cached THEN Verdict(r, "accepted")
                 ELSE [requests EXCEPT ![r].pc = "fetch", ![r].since = now]
  /\ UNCHANGED <<now, published, cached, updated, withdrawn, steady, rotations>>

\* The provider answers; the answer is still under way.
Serve(r) ==
  /\ OnKey(r, "fetch")
  /\ requests' = [requests EXCEPT ![r].pc = "answered", ![r].got = published]
  /\ UNCHANGED <<now, published, cached, updated, withdrawn, steady, rotations>>

\* No connection, a status that is not a success, an answer that does not
\* parse, or none in time.
FetchFails(r) ==
  /\ requests[r].pc \in {"fetch", "answered"}
  /\ requests' = Verdict(r, Unavailable(r))
  /\ UNCHANGED <<now, published, cached, updated, withdrawn, steady, rotations>>

\* A key that is not RSA, or lacks a part, is passed over.
DecodingKeys(keys) == keys \cap Rsa

\* Mutant of Store: who comes second takes what the first has stored.
StoreUnlessFresh(r) ==
  LET keys == IF Expired THEN DecodingKeys(requests[r].got) ELSE cached
  IN  /\ OnKey(r, "answered")
      /\ cached' = keys
      /\ updated' = IF Expired THEN now ELSE updated
      /\ requests' = Verdict(r, IF Kid(r) \in keys THEN "accepted" ELSE "unauthorized")
      /\ UNCHANGED <<now, published, withdrawn, steady, rotations>>

\* Mutant of Store: a key that makes no decoding key is stored as well.
StoreAny(r) ==
  /\ OnKey(r, "answered")
  /\ cached' = requests[r].got
  /\ updated' = now
  /\ requests' = Verdict(r, IF Kid(r) \in requests[r].got THEN "accepted" ELSE "unauthorized")
  /\ UNCHANGED <<now, published, withdrawn, steady, rotations>>

\* Under the write lock; other requests may have stored a later list.
Store(r) ==
  LET keys == DecodingKeys(requests[r].got)
  IN  /\ OnKey(r, "answered")
      /\ cached' = keys
      /\ updated' = now
      /\ requests' = Verdict(r, IF Kid(r) \in keys THEN "accepted" ELSE "unauthorized")
      /\ UNCHANGED <<now, published, withdrawn, steady, rotations>>

Verify(r) == ValidateSelfSigned(r) \/ Look(r) \/ Serve(r) \/ FetchFails(r) \/ Store(r)

-----------------------------------------------------------------------------
(* The provider and the clock.                                             *)

Rotate(k) ==
  LET gone == {r \in steady : Kid(r) = k}
  IN  /\ rotations < Rotations
      /\ published' = IF k \in published THEN published \ {k} ELSE published \cup {k}
      /\ withdrawn' = IF k \in published THEN [withdrawn EXCEPT ![k] = now] ELSE withdrawn
      /\ steady' = steady \ gone
      /\ rotations' = rotations + 1
      /\ UNCHANGED <<now, cached, updated, requests>>

\* A fetch ends within its timeout.
TimePasses ==
  /\ now < LastTime
  /\ \A r \in Request :
       requests[r].pc \in {"fetch", "answered"} => now - requests[r].since < FetchTimeout
  /\ now' = now + 1
  /\ UNCHANGED <<published, cached, updated, requests, withdrawn, steady, rotations>>

=============================================================================
