------------------------------ MODULE TokenKeys ------------------------------
(***************************************************************************)
(* How a bearer token gets its verification key (auth/supabase_jwt.py).    *)
(* The authorization server publishes a key set and rotates it.  The       *)
(* validator caches the set for as long as the response allows, never      *)
(* longer than a maximum; a token naming a key the cache lacks forces a    *)
(* refresh, at most one per cool-down.  Refreshes share one lock, and any  *)
(* number of requests resolve tokens at once.                              *)
(***************************************************************************)
EXTENDS Integers, FiniteSets, Sequences

CONSTANTS
    Keys,        \* key identifiers
    Verifications,    \* requests resolving a token
    MaxCache,    \* max_cache_seconds
    Cooldown,    \* UNKNOWN_KID_REFRESH_COOLDOWN_SECONDS
    FetchTime,   \* the longest a fetch of the key set takes
    MaxRotations, LastSecond

ASSUME TokenKeysAssumption ==
    /\ {MaxCache, Cooldown, FetchTime, MaxRotations, LastSecond} \subseteq Nat
    /\ Cooldown > 0

VARIABLES
    second,      \* the monotonic clock
    keySet,      \* the set the authorization server publishes
    lastSeen,    \* lastSeen[k]: when k was last published
    rotations,
    cached,      \* _keys
    expiresAt,   \* _cache_expires_at
    unknownAt,   \* _last_unknown_kid_refresh_at
    lockQueue,   \* the holder of _refresh_lock, then those waiting for it
    verification,     \* verification[r]: the state of a resolve call
    fetches      \* when refreshes for an unknown key were sent

keysVars == <<second, keySet, lastSeen, rotations, cached, expiresAt, unknownAt, lockQueue,
              verification, fetches>>

Unasked == [at |-> "idle", kid |-> "none", unknown |-> FALSE, got |-> {}, since |-> 0,
            asked |-> 0, age |-> 0]

TokenKeysInit ==
    /\ second = 0
    /\ keySet \in (SUBSET Keys) \ {{}}
    /\ lastSeen = [k \in Keys |-> IF k \in keySet THEN 0 ELSE -1]
    /\ rotations = 0
    /\ cached = {}
    /\ expiresAt = 0
    /\ unknownAt = -Cooldown
    /\ lockQueue = <<>>
    /\ verification = [r \in Verifications |-> Unasked]
    /\ fetches = {}

(* Time passes; a fetch under way ends before its timeout. *)
Second ==
    /\ second < LastSecond
    /\ \A r \in Verifications : verification[r].at = "fetching" => second < verification[r].since + FetchTime
    /\ second' = second + 1
    /\ lastSeen' = [k \in Keys |-> IF k \in keySet THEN second + 1 ELSE lastSeen[k]]
    /\ UNCHANGED <<keySet, rotations, cached, expiresAt, unknownAt, lockQueue, verification, fetches>>

(* The authorization server rotates its keys. *)
Rotate ==
    /\ rotations < MaxRotations
    /\ rotations' = rotations + 1
    /\ keySet' \in (SUBSET Keys) \ {{}, keySet}
    /\ lastSeen' = [k \in Keys |-> IF k \in keySet \cup keySet' THEN second ELSE lastSeen[k]]
    /\ UNCHANGED <<second, cached, expiresAt, unknownAt, lockQueue, verification, fetches>>

Become(r, record) == verification' = [verification EXCEPT ![r] = record]

(* The token's key; age is how long before the token came the key was withdrawn. *)
Accept(r, q) ==
    Become(r, [Unasked EXCEPT !.at = "accepted", !.kid = q.kid, !.age = q.asked - lastSeen[q.kid]])

Refuse(r, q) == Become(r, [Unasked EXCEPT !.at = "refused", !.kid = q.kid])

(* A well-formed token of an asymmetric algorithm names its key. *)
ResolveKey(r) ==
    /\ verification[r].at = "idle"
    /\ \E k \in Keys : Become(r, [Unasked EXCEPT !.at = "check", !.kid = k, !.asked = second])
    /\ UNCHANGED <<second, keySet, lastSeen, rotations, cached, expiresAt, unknownAt, lockQueue,
                   fetches>>

(* Deviation: a cache that has expired is still looked into first. *)
FreshIfKnown(kid) == kid \in cached \/ second < expiresAt

CacheIsFresh(kid) == second < expiresAt

(* _signing_key: refresh an expired cache, then look the key up, then refresh for an *)
(* unknown key.                                                                      *)
SigningKey(r) ==
    LET q == verification[r] IN
    /\ q.at = "check"
    /\ IF CacheIsFresh(q.kid) /\ q.kid \in cached
         THEN Accept(r, q) /\ UNCHANGED lockQueue
         ELSE /\ Become(r, [q EXCEPT !.at = "queued", !.unknown = CacheIsFresh(q.kid)])
              /\ lockQueue' = Append(lockQueue, r)
    /\ UNCHANGED <<second, keySet, lastSeen, rotations, cached, expiresAt, unknownAt, fetches>>

(* After a refresh: the key, or one more refresh for a key the set lacks. *)
AfterRefresh(r, q) ==
    IF q.kid \in cached' THEN Accept(r, q)
    ELSE IF q.unknown THEN Refuse(r, q)
    ELSE Become(r, [q EXCEPT !.at = "again"])

(* Whether the holder of the lock still has to fetch. *)
RefreshDue(q) == IF q.unknown THEN second - unknownAt >= Cooldown ELSE second >= expiresAt

EnterLock(r) ==
    LET q == verification[r] IN
    /\ q.at = "queued"
    /\ Head(lockQueue) = r
    /\ IF RefreshDue(q)
         THEN /\ Become(r, [q EXCEPT !.at = "fetching", !.since = second])
              /\ unknownAt' = IF q.unknown THEN second ELSE unknownAt
              /\ fetches' = IF q.unknown THEN fetches \cup {<<r, second>>} ELSE fetches
              /\ UNCHANGED <<lockQueue, cached>>
         ELSE /\ lockQueue' = Tail(lockQueue)
              /\ cached' = cached
              /\ AfterRefresh(r, q)
              /\ UNCHANGED <<unknownAt, fetches>>
    /\ UNCHANGED <<second, keySet, lastSeen, rotations, expiresAt>>

(* The server answers with the set it has now; the answer arrives later. *)
ServerAnswers(r) ==
    /\ verification[r].at = "fetching"
    /\ verification[r].got = {}
    /\ Become(r, [verification[r] EXCEPT !.got = keySet])
    /\ UNCHANGED <<second, keySet, lastSeen, rotations, cached, expiresAt, unknownAt, lockQueue,
                   fetches>>

(* _cache_seconds: none for no-store, the answer's max-age, capped. *)
CacheSeconds == 0 .. MaxCache

StoreKeys(r) ==
    LET q == verification[r] IN
    /\ q.at = "fetching"
    /\ q.got # {}
    /\ cached' = q.got
    /\ \E s \in CacheSeconds : expiresAt' = second + s
    /\ lockQueue' = Tail(lockQueue)
    /\ AfterRefresh(r, [q EXCEPT !.got = {}])
    /\ UNCHANGED <<second, keySet, lastSeen, rotations, unknownAt, fetches>>

(* The server is down or its answer is no key set: the token is refused, the cache kept. *)
FetchFails(r) ==
    /\ verification[r].at = "fetching"
    /\ lockQueue' = Tail(lockQueue)
    /\ Refuse(r, verification[r])
    /\ UNCHANGED <<second, keySet, lastSeen, rotations, cached, expiresAt, unknownAt, fetches>>

(* The second half of _signing_key, for a key the refreshed cache still lacks. *)
UnknownKey(r) ==
    /\ verification[r].at = "again"
    /\ Become(r, [verification[r] EXCEPT !.at = "queued", !.unknown = TRUE])
    /\ lockQueue' = Append(lockQueue, r)
    /\ UNCHANGED <<second, keySet, lastSeen, rotations, cached, expiresAt, unknownAt, fetches>>

TokenKeysNext ==
    \/ Second \/ Rotate
    \/ \E r \in Verifications :
         \/ ResolveKey(r) \/ SigningKey(r) \/ EnterLock(r) \/ ServerAnswers(r)
         \/ StoreKeys(r) \/ FetchFails(r) \/ UnknownKey(r)

TokenKeysSpec == TokenKeysInit /\ [][TokenKeysNext]_keysVars

------------------------------------------------------------------------------
(* Properties. *)

(* A token is accepted on a key only if, when the token came, the authorization server  *)
(* had published that key no longer ago than the cache may keep a set, plus the time    *)
(* the set may have travelled.  An outage of the key endpoint does not prolong the life *)
(* of a withdrawn key for tokens that come later.  The token's own wait for the lock    *)
(* does not count: one that queues for an unknown key may find it in a set that has     *)
(* expired meanwhile, which _signing_key then uses without asking for its age.          *)
WithdrawnKeyDies ==
    \A r \in Verifications : verification[r].at = "accepted" =>
        /\ lastSeen[verification[r].kid] >= 0
        /\ verification[r].age <= MaxCache + FetchTime

(* Tokens naming keys that do not exist cannot make the validator fetch the key set     *)
(* more often than once per cool-down, however many arrive at once.                     *)
FetchesSpaced ==
    \A f, g \in fetches : f # g => f[2] - g[2] >= Cooldown \/ g[2] - f[2] >= Cooldown

(* Keys are fetched neither too seldom nor too often. *)
KeysCurrent == WithdrawnKeyDies /\ FetchesSpaced
=============================================================================
