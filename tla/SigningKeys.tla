---------------------------- MODULE SigningKeys ----------------------------
(***************************************************************************)
(* OIDCProvider (src/src/loro/oidc.py): tokens are verified against the    *)
(* identity provider's key set, which is fetched over the network, cached  *)
(* with the time its request began, used for CacheSeconds, and fetched     *)
(* again at once when a token names a key it does not hold, though not     *)
(* within Cooldown of the last fetch.  Two requests to the web interface   *)
(* share one provider: the lock is held to read and to store the cache,    *)
(* never across the request.  The provider publishes one key after         *)
(* another.                                                                *)
(***************************************************************************)
EXTENDS Integers

CONSTANTS Verifiers,    \* threads that verify tokens
          CacheSeconds, \* jwks_cache_seconds
          Cooldown,     \* JWKS_REFRESH_COOLDOWN_SECONDS
          Timeout,      \* bound on one request (the client bounds its every wait)
          MaxTime,      \* bound on the clock
          LastKey       \* bound on the rotations

ASSUME KeysAssumption ==
    /\ CacheSeconds \in Nat /\ Cooldown \in Nat /\ Timeout \in Nat
    /\ MaxTime \in Nat /\ LastKey \in Nat \ {0}

VARIABLES time,      \* the monotonic clock
          published, \* the keys in the provider's set
          retired,   \* retired[k]: when k was withdrawn, or Never
          cachedKeys, \* _Cache.keys: a set of keys, empty before the first fetch
          fetchedAt, \* _Cache.keys_fetched_at
          verifier   \* verifier[v]: [step, key, began, forced, answer]

keysVars == <<time, published, retired, cachedKeys, fetchedAt, verifier>>

Never == -1

KeyIds == 1..LastKey

IdleVerifier == [step |-> "idle", key |-> 1, began |-> 0, forced |-> FALSE, answer |-> {}]

KeysInit ==
    /\ time = CacheSeconds /\ published = {1} /\ retired = [k \in KeyIds |-> Never]
    /\ cachedKeys = {} /\ fetchedAt = 0
    /\ verifier = [v \in Verifiers |-> IdleVerifier]

Age == time - fetchedAt

(* The cache is used as it is: not empty, and either young enough or, for  *)
(* a key it lacks, fetched a moment ago.                                   *)
Usable(forced) ==
    cachedKeys # {} /\ ((Age < CacheSeconds /\ ~forced) \/ Age < Cooldown)

VerifyEnds(v, result) ==
    verifier' = [verifier EXCEPT ![v] = [IdleVerifier EXCEPT !.step = result, !.key = verifier[v].key]]

(* With a set at hand: the key, another fetch for a key it lacks, or the   *)
(* token is refused.                                                       *)
Choose(v, keys, forced) ==
    IF verifier[v].key \in keys THEN VerifyEnds(v, "accepted")
    ELSE IF forced THEN VerifyEnds(v, "unknown")
    ELSE verifier' = [verifier EXCEPT ![v].step = "refresh", ![v].forced = TRUE]

(* A token that names a key, which the provider has used or will use. *)
VerifyToken(v) ==
    /\ verifier[v].step \notin {"refresh", "fetching", "answered"}
    /\ \E k \in KeyIds :
          verifier' = [verifier EXCEPT ![v] = [IdleVerifier EXCEPT !.step = "refresh", !.key = k]]
    /\ UNCHANGED <<time, published, retired, cachedKeys, fetchedAt>>

UseCached(v) ==
    /\ verifier[v].step = "refresh" /\ Usable(verifier[v].forced)
    /\ Choose(v, cachedKeys, verifier[v].forced)
    /\ UNCHANGED <<time, published, retired, cachedKeys, fetchedAt>>

BeginFetch(v) ==
    /\ verifier[v].step = "refresh" /\ ~Usable(verifier[v].forced)
    /\ verifier' = [verifier EXCEPT ![v].step = "fetching", ![v].began = time]
    /\ UNCHANGED <<time, published, retired, cachedKeys, fetchedAt>>

(* The set as the provider has it when it answers. *)
Answered(v) ==
    /\ verifier[v].step = "fetching"
    /\ verifier' = [verifier EXCEPT ![v].step = "answered", ![v].answer = published]
    /\ UNCHANGED <<time, published, retired, cachedKeys, fetchedAt>>

FetchFails(v) ==
    /\ verifier[v].step = "fetching" /\ VerifyEnds(v, "unreachable")
    /\ UNCHANGED <<time, published, retired, cachedKeys, fetchedAt>>

(* Faulty variant: the set is as old as its answer's arrival. *)
StampArrival(v) == time

StampOf(v) == verifier[v].began

StoreKeys(v) ==
    /\ verifier[v].step = "answered"
    /\ cachedKeys' = verifier[v].answer /\ fetchedAt' = StampOf(v)
    /\ Choose(v, verifier[v].answer, verifier[v].forced)
    /\ UNCHANGED <<time, published, retired>>

InFlight(v) == verifier[v].step \in {"fetching", "answered"}

(* A request is over, one way or the other, within Timeout. *)
Tick ==
    /\ time < MaxTime
    /\ \A v \in Verifiers : InFlight(v) => time - verifier[v].began < Timeout
    /\ time' = time + 1
    /\ UNCHANGED <<published, retired, cachedKeys, fetchedAt, verifier>>

(* The provider brings out its next key, or withdraws one that has a       *)
(* successor.                                                              *)
Publish ==
    /\ \E k \in KeyIds : /\ k \notin published /\ k - 1 \in published
                       /\ retired[k] = Never
                       /\ published' = published \cup {k}
    /\ UNCHANGED <<time, retired, cachedKeys, fetchedAt, verifier>>

Withdraw ==
    /\ \E k \in published : /\ k + 1 \in published
                            /\ published' = published \ {k}
                            /\ retired' = [retired EXCEPT ![k] = time]
    /\ UNCHANGED <<time, cachedKeys, fetchedAt, verifier>>

KeysNext ==
    \/ Tick \/ Publish \/ Withdraw
    \/ \E v \in Verifiers :
         VerifyToken(v) \/ UseCached(v) \/ BeginFetch(v) \/ Answered(v) \/ FetchFails(v)
         \/ StoreKeys(v)

KeysSpec == KeysInit /\ [][KeysNext]_keysVars
-----------------------------------------------------------------------------
Window == IF CacheSeconds < Cooldown THEN Cooldown ELSE CacheSeconds

Accepts(v) == verifier[v].step # "accepted" /\ verifier'[v].step = "accepted"

(* No token is accepted on a key that was withdrawn longer ago than the    *)
(* cache is used or one request lasts, in whichever order two fetches and  *)
(* their answers come: a slow answer never makes the set look younger than *)
(* it is (_refresh_keys).                                                  *)
WithdrawnKeysExpire ==
    [][\A v \in Verifiers :
         (Accepts(v) /\ retired[verifier[v].key] # Never)
         => \/ time - retired[verifier[v].key] < Window
            \/ time - retired[verifier[v].key] <= Timeout]_keysVars
=============================================================================
