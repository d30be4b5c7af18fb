----------------------------- MODULE RedisFallback -----------------------------
(***************************************************************************)
(* The Redis client every cache operation goes through.  get_redis()       *)
(* prefers the server, falls back to a store inside the process when the   *)
(* server does not answer, and tries the server again every 30 s.  The     *)
(* ping is awaited, so callers overlap there; what the callers do with the *)
(* stores is up to the module that uses this one.                          *)
(***************************************************************************)
CONSTANTS
    Callers,    \* operations on the cache under way at the same time
    NoData      \* the content of an empty store

VARIABLES
    client,     \* _redis_client: "none", "fake" (in the process) or "real"
    recent,     \* the last attempt is less than _REDIS_RETRY_COOLDOWN ago
    up,         \* the server answers
    got,        \* got[k]: what get_redis() is doing for caller k, or has returned
    store       \* the content of the two stores

fvars == <<client, recent, up, got, store>>

Stores == {"fake", "real"}

FInit ==
    /\ client = "none" /\ recent = FALSE /\ up \in BOOLEAN
    /\ got = [k \in Callers |-> "no"]
    /\ store = [s \in Stores |-> NoData]

\* get_redis() returns at once: the client is the server, or it is too early to retry.
AtHand == client = "real" \/ (client = "fake" /\ recent)

\* Caller k may do its operation on store s now.
Holds(k, s) == got[k] = s \/ (got[k] = "no" /\ AtHand /\ client = s)

\* Its operation on the server fails: the client is kept all the same.
Unanswered(k) == Holds(k, "real") /\ ~up

Release(k) == got' = [got EXCEPT ![k] = "no"] /\ UNCHANGED <<client, recent, up>>

\* Nothing at hand: the time is noted and the server is asked.
Ping(k) ==
    /\ got[k] = "no" /\ ~AtHand
    /\ recent' = TRUE
    /\ got' = [got EXCEPT ![k] = "ping"]
    /\ UNCHANGED <<client, up, store>>

Pong(k) ==
    /\ got[k] = "ping" /\ up
    /\ client' = "real"
    /\ got' = [got EXCEPT ![k] = "real"]
    /\ UNCHANGED <<recent, up, store>>

\* Mutated: the connection another caller has made meanwhile is kept.
KeepClient == client = "none"

\* A new store in the process is made unless there is one already.
Falls == client \in {"none", "real"}

\* The ping fails; the new store may or may not see what an earlier one held.
PingFailed(k) ==
    /\ got[k] = "ping"
    /\ IF Falls THEN /\ client' = "fake"
                     /\ \E old \in {NoData, store["fake"]} : store' = [store EXCEPT !["fake"] = old]
                ELSE UNCHANGED <<client, store>>
    /\ got' = [got EXCEPT ![k] = client']
    /\ UNCHANGED <<recent, up>>

CooldownOver == recent /\ recent' = FALSE /\ UNCHANGED <<client, up, got, store>>

ServerChanges == up' = ~up /\ UNCHANGED <<client, recent, got, store>>

\* close_redis() and a new process: only what the server holds is left.
Restart ==
    /\ client' = "none" /\ recent' = FALSE
    /\ got' = [k \in Callers |-> "no"]
    /\ store' = [store EXCEPT !["fake"] = NoData]
    /\ UNCHANGED up

FStep(k) == Ping(k) \/ Pong(k) \/ PingFailed(k)

\* get_redis() says: once the server is reachable all subsequent calls switch over.  So the
\* client, once it is the server, is the server until the process ends (redis_client.py:39-41).
RealStaysReal == [][client = "real" => client' # "fake"]_fvars
================================================================================
