------------------------------- MODULE ProxyPool -------------------------------
(***************************************************************************)
(* The proxies the channels post through.  The admins add proxies, have    *)
(* all of them checked, spread them over the channels and remove the dead  *)
(* ones; every button press is a handler of its own on its own database    *)
(* session (READ COMMITTED), and the presses of two admins, or of one who  *)
(* does not wait for the slow check, run side by side.  The publisher      *)
(* looks up the proxy of a channel whenever it posts there.                *)
(***************************************************************************)
EXTENDS Integers, FiniteSets, Functions, SequencesExt

CONSTANTS
    Proxies,
    Feeds,      \* the channels
    Presses,    \* handlers under way at the same time
    Direct      \* no proxy: the connection of the account itself

ASSUME PoolAssumption ==
    /\ Direct \notin Proxies
    /\ IsFiniteSet(Proxies) /\ IsFiniteSet(Feeds)     \* both are rows of tables

VARIABLES
    up,         \* the proxies that can reach Telegram
    pool,       \* pool[p]: the row of a proxy
    live,       \* the channels that are active
    via,        \* via[c]: proxy_id of the channel (Direct: NULL)
    press,      \* press[h]: where a handler is
    result,     \* how the last post to a channel ended
    calm        \* history: no two handlers overlapped

pvars == <<up, pool, live, via, press, result, calm>>

ProxyRow == [there: BOOLEAN, active: BOOLEAN, alive: BOOLEAN]
NoProxy == [there |-> FALSE, active |-> FALSE, alive |-> FALSE]

\* todo: the proxies still to check, or to spread; locked: the channels a removal unassigns.
Press == [at: {"idle", "check", "assign", "remove"}, todo: SUBSET Proxies, locked: SUBSET Feeds]
NoPress == [at |-> "idle", todo |-> {}, locked |-> {}]

Active == {p \in Proxies : pool[p].active}
Alive == {p \in Proxies : pool[p].alive}
Dead == {p \in Proxies : pool[p].there /\ ~pool[p].alive}

PInit ==
    /\ up \in SUBSET Proxies
    /\ pool = [p \in Proxies |-> NoProxy]
    /\ live \in SUBSET Feeds
    /\ via = [c \in Feeds |-> Direct]
    /\ press = [h \in Presses |-> NoPress]
    /\ result = "none"
    /\ calm = TRUE

----------------------------------------------------------------------------
\* A proxy goes up or down, a channel is activated or deactivated.
ProxyTurns(p) ==
    /\ up' = IF p \in up THEN up \ {p} ELSE up \cup {p}
    /\ UNCHANGED <<pool, live, via, press, result, calm>>

FeedTurns(c) ==
    /\ live' = IF c \in live THEN live \ {c} ELSE live \cup {c}
    /\ UNCHANGED <<up, pool, via, press, result, calm>>

\* /addproxy: the new row is active and taken for alive.
AddProxy(p) ==
    /\ ~pool[p].there
    /\ pool' = [pool EXCEPT ![p] = [there |-> TRUE, active |-> TRUE, alive |-> TRUE]]
    /\ UNCHANGED <<up, live, via, press, result, calm>>

Begin(h, at, todo, locked) ==
    /\ press[h].at = "idle"
    /\ press' = [press EXCEPT ![h] = [at |-> at, todo |-> todo, locked |-> locked]]
    /\ calm' = (calm /\ \A o \in Presses : press[o].at = "idle")

\* Check all: the active proxies are read once.
BeginCheck(h) ==
    /\ Active # {} /\ Begin(h, "check", Active, {})
    /\ UNCHANGED <<up, pool, live, via, result>>

\* Each of them is tried for up to eight seconds; the answer is committed on its own.
CheckOne(h, p) ==
    /\ press[h].at = "check" /\ p \in press[h].todo
    /\ pool' = [pool EXCEPT ![p].alive = p \in up]
    /\ LET rest == [press[h] EXCEPT !.todo = @ \ {p}]
       IN  press' = [press EXCEPT ![h] = IF rest.todo = {} THEN NoPress ELSE rest]
    /\ UNCHANGED <<up, live, via, result, calm>>

\* Auto-assign reads the proxies that are active and alive.  Without any it stops.
BeginAssign(h) ==
    /\ Active \cap Alive # {} /\ Begin(h, "assign", Active \cap Alive, {})
    /\ UNCHANGED <<up, pool, live, via, result>>

\* Round-robin: the i-th channel gets the i-th proxy, in the order the rows came back.
RoundRobin(chans, proxies, c) ==
    LET i == CHOOSE k \in DOMAIN chans : chans[k] = c
    IN  proxies[((i - 1) % Len(proxies)) + 1]

\* Mutated: the last proxy is never reached.
OneShort(chans, proxies, c) ==
    LET i == CHOOSE k \in DOMAIN chans : chans[k] = c
    IN  proxies[IF Len(proxies) = 1 THEN 1 ELSE ((i - 1) % (Len(proxies) - 1)) + 1]

Nth(chans, proxies, c) == RoundRobin(chans, proxies, c)

\* The channels a removal has unassigned and not yet committed: their rows are locked.
Locked == UNION {press[o].locked : o \in Presses}

\* It reads the active channels, gives each a proxy, and commits.
EndAssign(h) ==
    /\ press[h].at = "assign" /\ live \cap Locked = {}
    /\ \E chans \in SetToSeqs(live), proxies \in SetToSeqs(press[h].todo) :
           via' = [c \in Feeds |-> IF c \in live THEN Nth(chans, proxies, c) ELSE via[c]]
    /\ press' = [press EXCEPT ![h] = NoPress]
    /\ UNCHANGED <<up, pool, live, result, calm>>

\* Mutated: only the channels that are active are taken off a dead proxy.
ActiveUsers(dead) == {c \in live : via[c] \in dead}

\* The channels assigned to one of these proxies.
Users(dead) == {c \in Feeds : via[c] \in dead}

\* Remove dead, first statement: the channels of dead proxies are unassigned, which the
\* others see when the removal commits.
BeginRemove(h) ==
    /\ Users(Dead) \cap Locked = {}
    /\ Begin(h, "remove", {}, Users(Dead))
    /\ UNCHANGED <<up, pool, live, via, result>>

\* Mutated: the row is deleted.
Deleted(p) == NoProxy

Removed(p) == [pool[p] EXCEPT !.active = FALSE]

\* Second statement and commit: whatever is dead by now is deactivated.
EndRemove(h) ==
    /\ press[h].at = "remove"
    /\ via' = [c \in Feeds |-> IF c \in press[h].locked THEN Direct ELSE via[c]]
    /\ pool' = [p \in Proxies |-> IF p \in Dead THEN Removed(p) ELSE pool[p]]
    /\ press' = [press EXCEPT ![h] = NoPress]
    /\ UNCHANGED <<up, live, result, calm>>

\* The publisher posts.  The row of the channel comes without its proxy; the access that was
\* meant to find that out makes SQLAlchemy load it, which an AsyncSession refuses, and the
\* channel is reported as failed before a connection is chosen.
Post(c) ==
    /\ c \in live
    /\ result' = IF via[c] = Direct THEN "posted" ELSE "failed"
    /\ UNCHANGED <<up, pool, live, via, press, calm>>

PNext ==
    \/ \E p \in Proxies : ProxyTurns(p) \/ AddProxy(p)
    \/ \E c \in Feeds : FeedTurns(c) \/ Post(c)
    \/ \E h \in Presses :
           \/ BeginCheck(h) \/ BeginAssign(h) \/ EndAssign(h) \/ BeginRemove(h) \/ EndRemove(h)
           \/ \E p \in Proxies : CheckOne(h, p)

PSpec == PInit /\ [][PNext]_pvars

----------------------------------------------------------------------------
(* Properties *)

\* Every variable of the pool keeps its type, and only a proxy that exists is assigned.
PoolTypeOK ==
    /\ up \subseteq Proxies /\ pool \in [Proxies -> ProxyRow]
    /\ live \subseteq Feeds /\ press \in [Presses -> Press] /\ calm \in BOOLEAN
    /\ result \in {"none", "posted", "failed"}
    /\ \A c \in Feeds : via[c] = Direct \/ pool[via[c]].there

\* Handlers that do not overlap leave no channel, not even an inactive one that is activated
\* later, on a proxy that was removed (proxy.py:255-269, 184-209).
RemovedIsUnused == calm => \A c \in Feeds : via[c] = Direct \/ via[c] \in Active

Uses(p) == Cardinality({c \in live : via[c] = p})

\* When the channels have been spread, no proxy has two channels more than another
\* (proxy.py:203-209), however many of either there are.
SpreadEvenly ==
    [][\A h \in Presses : (press[h].at = "assign" /\ press'[h].at = "idle") =>
           \A p, q \in press[h].todo : Uses(p)' - Uses(q)' <= 1]_pvars

\* "Deactivated ... and unassigned their channels": no channel is left on a proxy that was
\* removed, whatever else is pressed meanwhile (proxy.py:272).
RemovedIsUnassigned == \A c \in Feeds : via[c] = Direct \/ via[c] \in Active

\* "If the channel has no proxy, or the proxy is dead, falls back to default_client": no
\* channel fails for the proxy it was given (publisher.py:288-289, 411-412).
FallsBack == result # "failed"

================================================================================
