---------------------------- MODULE AdminPanelProofs ----------------------------
(***************************************************************************)
(* What the parts the admins work on promise: proxies that are spread      *)
(* evenly and leave no channel behind when they are removed, a post that   *)
(* is sent once and as it was shown, and discoveries that keep the table   *)
(* of channels in line; for any number of proxies, channels, texts, rows   *)
(* and handlers.                                                           *)
(***************************************************************************)
EXTENDS AdminPanelMC, FiniteSetTheorems, TLAPS

----------------------------------------------------------------------------
(* The proxies of the channels *)

PoolTabled ==
    /\ pool \in [Proxies -> ProxyRow] /\ live \subseteq Feeds
    /\ press \in [Presses -> Press] /\ calm \in BOOLEAN
    /\ via \in [Feeds -> Proxies \cup {Direct}]
    /\ \A h \in Presses : press[h].at = "assign" => press[h].todo # {}

\* RemovedIsUnused is not inductive: it does not say what a handler under way has read.
\* In calm there is one such handler at most; the proxies it spreads are still active and
\* the channels it unassigns are still those of the dead proxies.
One == \A h, o \in Presses : (press[h].at # "idle" /\ press[o].at # "idle") => h = o

Spreading == \A h \in Presses : press[h].at = "assign" => press[h].todo \subseteq Active

Removing == \A h \in Presses : press[h].at = "remove" => press[h].locked = Users(Dead)

Served == \A c \in Feeds : via[c] = Direct \/ via[c] \in Active

Calm == calm => (One /\ Spreading /\ Removing /\ Served)

\* A channel that is among those spread over gets one of the proxies.
LEMMA NthIsOne ==
    ASSUME NEW S \in SUBSET Feeds, NEW P \in SUBSET Proxies, P # {}, NEW c \in S,
           NEW chans \in SetToSeqs(S), NEW proxies \in SetToSeqs(P)
    PROVE  Nth(chans, proxies, c) \in P
  <1> DEFINE n == Cardinality(S)
             m == Cardinality(P)
             i == CHOOSE k \in DOMAIN chans : chans[k] = c
  <1>1. IsFiniteSet(S) /\ IsFiniteSet(P)
    BY PoolAssumption, FS_Subset
  <1>2. n \in Nat /\ m \in Nat /\ m # 0
    BY <1>1, FS_CardinalityType, FS_EmptySet
  <1> HIDE DEF n, m
  <1>3. chans \in Injection(1..n, S)
    BY DEF SetToSeqs, Injection, IsInjective, n
  <1>4. IsFiniteSet(1..n) /\ Cardinality(1..n) = n
    BY <1>2, FS_Interval
  <1>5. chans \in Surjection(1..n, S)
    BY <1>1, <1>3, <1>4, FS_Injection DEF n
  <1>6. \E k \in DOMAIN chans : chans[k] = c
    BY <1>5 DEF Surjection
  <1>7. i \in DOMAIN chans /\ DOMAIN chans = 1..n
    BY <1>6, <1>3 DEF Injection
  <1> HIDE DEF i
  <1>8. proxies \in [1..m -> P]
    BY DEF SetToSeqs, m
  <1>9. Len(proxies) = m
    BY <1>2, <1>8
  <1>10. ((i - 1) % m) + 1 \in 1..m
    BY <1>2, <1>7
  <1>11. proxies[((i - 1) % m) + 1] \in P
    BY <1>8, <1>10
  <1>12. QED
    BY <1>9, <1>11 DEF Nth, RoundRobin, i

\* Every variable the invariant needs keeps its type.
LEMMA PoolStep ==
    ASSUME PoolTabled, [PNext]_pvars
    PROVE  PoolTabled'
  <1> USE DEF PoolTabled
  <1>1. ASSUME NEW p \in Proxies, ProxyTurns(p) \/ AddProxy(p)
        PROVE  PoolTabled'
    <2>1. UNCHANGED <<live, via, press, calm>>
      BY <1>1 DEF ProxyTurns, AddProxy
    <2>2. pool' = pool \/ pool' = [pool EXCEPT ![p] = [there |-> TRUE, active |-> TRUE, alive |-> TRUE]]
      BY <1>1 DEF ProxyTurns, AddProxy
    <2>3. [there |-> TRUE, active |-> TRUE, alive |-> TRUE] \in ProxyRow
      BY DEF ProxyRow
    <2>4. pool' \in [Proxies -> ProxyRow]
      BY <2>2, <2>3
    <2>5. QED
      BY <2>1, <2>4
  <1>2. ASSUME NEW c \in Feeds, FeedTurns(c) \/ Post(c)
        PROVE  PoolTabled'
    BY <1>2 DEF FeedTurns, Post
  <1>3. ASSUME NEW h \in Presses, NEW new \in Press, new.at = "assign" => new.todo # {},
               press' = [press EXCEPT ![h] = new], UNCHANGED live, calm' \in BOOLEAN,
               pool' \in [Proxies -> ProxyRow], via' \in [Feeds -> Proxies \cup {Direct}]
        PROVE  PoolTabled'
    BY <1>3
  <1>4. NoPress \in Press /\ NoPress.at = "idle"
    BY DEF NoPress, Press
  <1>5. ASSUME NEW h \in Presses, BeginCheck(h) \/ BeginAssign(h) \/ BeginRemove(h)
        PROVE  PoolTabled'
    <2>1. PICK at \in {"check", "assign", "remove"}, todo \in SUBSET Proxies, locked \in SUBSET Feeds :
              Begin(h, at, todo, locked) /\ (at = "assign" => todo # {})
      BY <1>5 DEF BeginCheck, BeginAssign, BeginRemove, Active, Users
    <2> DEFINE new == [at |-> at, todo |-> todo, locked |-> locked]
    <2>2. press' = [press EXCEPT ![h] = new] /\ calm' \in BOOLEAN
      BY <2>1 DEF Begin
    <2>3. new \in Press /\ (new.at = "assign" => new.todo # {})
      BY <2>1 DEF Press
    <2>4. UNCHANGED <<pool, live, via>>
      BY <1>5 DEF BeginCheck, BeginAssign, BeginRemove
    <2> HIDE DEF new
    <2>5. QED
      BY <1>3, <2>2, <2>3, <2>4
  <1>6. ASSUME NEW h \in Presses, NEW p \in Proxies, CheckOne(h, p)
        PROVE  PoolTabled'
    <2> DEFINE rest == [press[h] EXCEPT !.todo = @ \ {p}]
               new == IF rest.todo = {} THEN NoPress ELSE rest
    <2>1. press' = [press EXCEPT ![h] = new]
      BY <1>6 DEF CheckOne
    <2>2. press[h] \in Press /\ press[h].at = "check"
      BY <1>6 DEF CheckOne
    <2>3. new \in Press /\ new.at # "assign"
      BY <1>4, <2>2 DEF Press
    <2>4. pool' = [pool EXCEPT ![p].alive = p \in up] /\ pool[p] \in ProxyRow
      BY <1>6 DEF CheckOne
    <2>5. pool' \in [Proxies -> ProxyRow]
      <3>1. [pool[p] EXCEPT !.alive = p \in up] \in ProxyRow
        <4>1. ASSUME NEW b \in BOOLEAN
              PROVE  [pool[p] EXCEPT !.alive = b] \in ProxyRow
          BY <2>4 DEF ProxyRow
        <4> DEFINE b == p \in up
        <4>2. b \in BOOLEAN
          OBVIOUS
        <4> HIDE DEF b
        <4>3. [pool[p] EXCEPT !.alive = b] \in ProxyRow
          BY <4>1, <4>2
        <4>4. QED
          BY <4>3, Zenon DEF b
      <3>2. pool' = [pool EXCEPT ![p] = [pool[p] EXCEPT !.alive = p \in up]]
        BY <2>4
      <3>3. QED
        BY <3>1, <3>2
    <2>6. UNCHANGED <<live, via, calm>>
      BY <1>6 DEF CheckOne
    <2> HIDE DEF new
    <2>7. QED
      BY <1>3, <2>1, <2>3, <2>5, <2>6
  <1>7. ASSUME NEW h \in Presses, EndAssign(h)
        PROVE  PoolTabled'
    <2>1. PICK chans \in SetToSeqs(live), proxies \in SetToSeqs(press[h].todo) :
              via' = [c \in Feeds |-> IF c \in live THEN Nth(chans, proxies, c) ELSE via[c]]
      BY <1>7 DEF EndAssign
    <2>2. press[h].todo \in SUBSET Proxies /\ press[h].todo # {}
      BY <1>7 DEF EndAssign, Press
    <2>3. \A c \in live : Nth(chans, proxies, c) \in press[h].todo
      BY <2>2, NthIsOne
    <2>4. via' \in [Feeds -> Proxies \cup {Direct}]
      BY <2>1, <2>2, <2>3
    <2>5. press' = [press EXCEPT ![h] = NoPress] /\ UNCHANGED <<live, pool, calm>>
      BY <1>7 DEF EndAssign
    <2>6. QED
      BY <1>3, <1>4, <2>4, <2>5
  <1>8. ASSUME NEW h \in Presses, EndRemove(h)
        PROVE  PoolTabled'
    <2>1. \A p \in Proxies : Removed(p) \in ProxyRow
      BY DEF Removed, ProxyRow
    <2>2. pool' \in [Proxies -> ProxyRow] /\ via' \in [Feeds -> Proxies \cup {Direct}]
      BY <1>8, <2>1 DEF EndRemove
    <2>3. press' = [press EXCEPT ![h] = NoPress] /\ UNCHANGED <<live, calm>>
      BY <1>8 DEF EndRemove
    <2>4. QED
      BY <1>3, <1>4, <2>2, <2>3
  <1>9. CASE UNCHANGED pvars
    BY <1>9 DEF pvars
  <1>10. QED
    BY <1>1, <1>2, <1>5, <1>6, <1>7, <1>8, <1>9 DEF PNext

\* Every action keeps the invariant.
LEMMA CalmStep ==
    ASSUME PoolTabled, PoolTabled', Calm, [PNext]_pvars
    PROVE  Calm'
  <1> SUFFICES ASSUME calm'
               PROVE  (One /\ Spreading /\ Removing /\ Served)'
    BY DEF Calm
  <1>1. ASSUME NEW p \in Proxies, ProxyTurns(p)
        PROVE  (One /\ Spreading /\ Removing /\ Served)'
    BY <1>1 DEF ProxyTurns, Calm, One, Spreading, Removing, Served, Active, Users, Dead
  <1>2. ASSUME NEW p \in Proxies, AddProxy(p)
        PROVE  (One /\ Spreading /\ Removing /\ Served)'
    <2>1. /\ calm /\ UNCHANGED <<press, via>>
          /\ ~pool[p].there /\ pool'[p] = [there |-> TRUE, active |-> TRUE, alive |-> TRUE]
          /\ \A q \in Proxies \ {p} : pool'[q] = pool[q]
      BY <1>2 DEF AddProxy, PoolTabled
    <2>2. Dead' = Dead /\ Active \subseteq Active'
      BY <2>1 DEF Dead, Active
    <2>3. Users(Dead)' = Users(Dead)
      BY <2>1, <2>2 DEF Users
    <2>4. Served'
      BY <2>1, <2>2 DEF Calm, Served, PoolTabled
    <2>5. QED
      BY <2>1, <2>2, <2>3, <2>4 DEF Calm, One, Spreading, Removing
  <1>3. ASSUME NEW c \in Feeds, FeedTurns(c) \/ Post(c)
        PROVE  (One /\ Spreading /\ Removing /\ Served)'
    BY <1>3 DEF FeedTurns, Post, Calm, One, Spreading, Removing, Served, Active, Users, Dead
  <1>4. ASSUME NEW h \in Presses, BeginCheck(h) \/ BeginAssign(h) \/ BeginRemove(h)
        PROVE  (One /\ Spreading /\ Removing /\ Served)'
    <2>1. /\ calm /\ \A o \in Presses : press[o].at = "idle"
          /\ UNCHANGED <<pool, via>>
          /\ \A o \in Presses \ {h} : press'[o] = press[o]
      BY <1>4 DEF BeginCheck, BeginAssign, BeginRemove, Begin, PoolTabled
    <2>2. /\ press'[h].at = "assign" => press'[h].todo \subseteq Active
          /\ press'[h].at = "remove" => press'[h].locked = Users(Dead)
      <3>1. CASE BeginCheck(h)
        BY <3>1 DEF BeginCheck, Begin, PoolTabled
      <3>2. CASE BeginAssign(h)
        BY <3>2 DEF BeginAssign, Begin, PoolTabled
      <3>3. CASE BeginRemove(h)
        BY <3>3 DEF BeginRemove, Begin, PoolTabled
      <3>4. QED
        BY <1>4, <3>1, <3>2, <3>3
    <2>3. Active' = Active /\ Users(Dead)' = Users(Dead)
      BY <2>1 DEF Active, Users, Dead
    <2>4. QED
      BY <2>1, <2>2, <2>3 DEF Calm, One, Spreading, Removing, Served
  <1>5. ASSUME NEW h \in Presses, press[h].at # "idle", calm, NEW new,
               press' = [press EXCEPT ![h] = new], new.at \notin {"assign", "remove"}, Served'
        PROVE  (One /\ Spreading /\ Removing /\ Served)'
    <2>1. /\ \A o \in Presses \ {h} : press'[o] = press[o] /\ press[o].at = "idle"
          /\ press'[h] = new
      BY <1>5 DEF Calm, One, PoolTabled
    <2>2. QED
      BY <1>5, <2>1 DEF One, Spreading, Removing
  <1>6. NoPress.at = "idle"
    BY DEF NoPress
  <1>7. ASSUME NEW h \in Presses, NEW p \in Proxies, CheckOne(h, p)
        PROVE  (One /\ Spreading /\ Removing /\ Served)'
    <2> DEFINE rest == [press[h] EXCEPT !.todo = @ \ {p}]
               new == IF rest.todo = {} THEN NoPress ELSE rest
    <2>1. /\ press' = [press EXCEPT ![h] = new]
          /\ pool' = [pool EXCEPT ![p].alive = p \in up]
          /\ press[h].at = "check" /\ calm /\ UNCHANGED via
      BY <1>7 DEF CheckOne
    <2>2. press[h] \in Press /\ pool[p] \in ProxyRow
      BY DEF PoolTabled
    <2>3. new.at \notin {"assign", "remove"}
      BY <1>6, <2>1, <2>2 DEF Press
    <2>4. \A q \in Proxies : pool'[q].active = pool[q].active
      BY <2>1, <2>2 DEF PoolTabled, ProxyRow
    <2>5. Served'
      BY <2>1, <2>4 DEF Calm, Served, Active, PoolTabled
    <2> HIDE DEF new
    <2>6. QED
      BY <1>5, <2>1, <2>3, <2>5
  <1>8. ASSUME NEW h \in Presses, EndAssign(h)
        PROVE  (One /\ Spreading /\ Removing /\ Served)'
    <2>1. PICK chans \in SetToSeqs(live), proxies \in SetToSeqs(press[h].todo) :
              via' = [c \in Feeds |-> IF c \in live THEN Nth(chans, proxies, c) ELSE via[c]]
      BY <1>8 DEF EndAssign
    <2>2. /\ calm /\ press[h].at = "assign" /\ UNCHANGED pool
          /\ press' = [press EXCEPT ![h] = NoPress]
      BY <1>8 DEF EndAssign
    <2>3. live \in SUBSET Feeds /\ press[h].todo \in SUBSET Proxies /\ press[h].todo # {}
      BY <2>2 DEF PoolTabled, Press
    <2>4. \A c \in live : Nth(chans, proxies, c) \in press[h].todo
      BY <2>3, NthIsOne
    <2>5. press[h].todo \subseteq Active
      BY <2>2 DEF Calm, Spreading
    <2>6. \A q \in press[h].todo : q \in Active'
      BY <2>2, <2>5 DEF Active
    <2>7. Served'
      BY <2>1, <2>2, <2>4, <2>6 DEF Calm, Served, Active
    <2>8. QED
      BY <1>5, <1>6, <2>2, <2>7
  <1>9. ASSUME NEW h \in Presses, EndRemove(h)
        PROVE  (One /\ Spreading /\ Removing /\ Served)'
    <2>1. /\ calm /\ press[h].at = "remove"
          /\ press' = [press EXCEPT ![h] = NoPress]
          /\ via' = [c \in Feeds |-> IF c \in press[h].locked THEN Direct ELSE via[c]]
          /\ pool' = [p \in Proxies |-> IF p \in Dead THEN Removed(p) ELSE pool[p]]
      BY <1>9 DEF EndRemove
    <2>2. press[h].locked = Users(Dead)
      BY <2>1 DEF Calm, Removing
    <2>3. \A c \in Feeds : via'[c] = Direct \/ (via'[c] = via[c] /\ via[c] \notin Dead)
      BY <2>1, <2>2 DEF Users
    <2>4. \A q \in Proxies \ Dead : pool'[q] = pool[q]
      BY <2>1
    <2>5. Served'
      BY <2>1, <2>3, <2>4 DEF Calm, Served, Active
    <2>6. QED
      BY <1>5, <1>6, <2>1, <2>5
  <1>10. CASE UNCHANGED pvars
    BY <1>10 DEF pvars, Calm, One, Spreading, Removing, Served, Active, Users, Dead
  <1>11. QED
    BY <1>1, <1>2, <1>3, <1>4, <1>7, <1>8, <1>9, <1>10 DEF PNext

\* Presses that do not overlap never leave a channel on a proxy that was removed.
THEOREM RemovedSafe == PSpec => []RemovedIsUnused
  <1>1. PInit => PoolTabled /\ Calm
    BY DEF PInit, PoolTabled, Calm, One, Spreading, Removing, Served, NoPress, Press, NoProxy, ProxyRow
  <1>2. Calm => RemovedIsUnused
    BY DEF Calm, Served, RemovedIsUnused
  <1>3. QED
    BY <1>1, <1>2, PoolStep, CalmStep, PTL DEF PSpec

\* Facts on remainders that the round-robin rests on.
LEMMA SameRemainder ==
    ASSUME NEW m \in Nat, m # 0, NEW d \in Int, NEW e \in Int,
           NEW r \in 0..(m - 1), NEW s \in 0..(m - 1), (m * d) + r = (m * e) + s
    PROVE  r = s
  OBVIOUS

LEMMA OneRoundBack ==
    ASSUME NEW m \in Nat, m # 0, NEW x \in Nat, x >= m
    PROVE  (x - m) % m = x % m
  <1>1. x = (m * (x \div m)) + (x % m) /\ x % m \in 0..(m - 1) /\ x \div m \in Int
    OBVIOUS
  <1>2. /\ x - m = (m * ((x - m) \div m)) + ((x - m) % m)
        /\ (x - m) % m \in 0..(m - 1) /\ (x - m) \div m \in Int
    OBVIOUS
  <1> DEFINE d == (x \div m) - 1
             e == (x - m) \div m
             r == x % m
             s == (x - m) % m
  <1>3. d \in Int /\ (m * d) + r = (m * (x \div m)) - m + r
    BY <1>1
  <1>4. (m * d) + r = (m * e) + s
    BY <1>1, <1>2, <1>3
  <1>5. e \in Int /\ r \in 0..(m - 1) /\ s \in 0..(m - 1)
    BY <1>1, <1>2
  <1> HIDE DEF d, e, r, s
  <1>6. r = s
    BY <1>3, <1>4, <1>5, SameRemainder
  <1>7. QED
    BY <1>6 DEF r, s

LEMMA WithinRound ==
    ASSUME NEW m \in Nat, m # 0, NEW x \in Nat, NEW j \in Int, (x % m) + j \in 0..(m - 1), x + j \in Nat
    PROVE  (x + j) % m = (x % m) + j
  OBVIOUS

\* Two places a and b of a round-robin over m: from a turn of the first so many steps lead back
\* to the turn of the second that comes last before it.
Back(m, a, b) == IF b <= a THEN b - a ELSE (b - a) - m

\* From every turn of the first place, except its first one, one gets to a turn of the second.
LEMMA EarlierTurn ==
    ASSUME NEW m \in Nat, NEW a \in 1..m, NEW b \in 1..m, NEW k \in Nat \ {0},
           ((k - 1) % m) + 1 = a, k # a
    PROVE  k + Back(m, a, b) \in 1..k /\ (((k + Back(m, a, b)) - 1) % m) + 1 = b
  <1> DEFINE x == k - 1
  <1>1. m # 0 /\ x \in Nat /\ x % m = a - 1 /\ x # a - 1
    OBVIOUS
  <1> HIDE DEF x
  <1>2. x >= (a - 1) + m
    BY <1>1
  <1>3. CASE b <= a
    <2> DEFINE j == b - a
    <2>1. (x % m) + j \in 0..(m - 1) /\ x + j \in Nat /\ j \in Int
      BY <1>1, <1>2, <1>3
    <2>2. (x + j) % m = (x % m) + j
      BY <1>1, <2>1, WithinRound
    <2>3. (x + j) % m = b - 1
      BY <1>1, <2>2
    <2>4. k + j \in 1..k
      BY <1>2, <1>3 DEF x
    <2>5. (k + j) - 1 = x + j
      BY DEF x
    <2>6. QED
      BY <1>3, <2>3, <2>4, <2>5 DEF Back
  <1>4. CASE ~(b <= a)
    <2> DEFINE y == x - m
               j == b - a
    <2>1. y \in Nat /\ x >= m
      BY <1>1, <1>2
    <2>2. y % m = a - 1
      BY <1>1, <2>1, OneRoundBack
    <2>3. (y % m) + j \in 0..(m - 1) /\ y + j \in Nat /\ j \in Int
      BY <1>4, <2>1, <2>2
    <2>4. y \in Nat
      BY <2>1
    <2>5. k + ((b - a) - m) \in 1..k /\ (k + ((b - a) - m)) - 1 = y + j
      BY <1>1, <1>2, <1>4 DEF x
    <2> HIDE DEF y
    <2>6. (y + j) % m = (y % m) + j
      BY <1>1, <2>3, <2>4, WithinRound
    <2>7. (y + j) % m = b - 1
      BY <2>2, <2>6
    <2>8. QED
      BY <1>4, <2>5, <2>7 DEF Back
  <1>5. QED
    BY <1>3, <1>4

\* Spread over the channels S, no proxy of P gets two channels more than another.
LEMMA RoundRobinIsEven ==
    ASSUME NEW S \in SUBSET Feeds, NEW P \in SUBSET Proxies,
           NEW chans \in SetToSeqs(S), NEW proxies \in SetToSeqs(P), NEW p \in P, NEW q \in P
    PROVE  Cardinality({c \in S : Nth(chans, proxies, c) = p})
               - Cardinality({c \in S : Nth(chans, proxies, c) = q}) <= 1
  <1> DEFINE share(r) == {c \in S : Nth(chans, proxies, c) = r}
             n == Cardinality(S)
             m == Cardinality(P)
             pos(c) == CHOOSE k \in DOMAIN chans : chans[k] = c
  <1>1. IsFiniteSet(S) /\ IsFiniteSet(P)
    BY PoolAssumption, FS_Subset
  <1>2. n \in Nat /\ m \in Nat
    BY <1>1, FS_CardinalityType
  <1> HIDE DEF n, m
  <1>3. chans \in Injection(1..n, S) /\ proxies \in Injection(1..m, P)
    BY DEF SetToSeqs, Injection, IsInjective, n, m
  <1>4. \A k \in Nat : IsFiniteSet(1..k) /\ Cardinality(1..k) = k
    BY FS_Interval
  <1>5. chans \in Surjection(1..n, S) /\ proxies \in Surjection(1..m, P)
    <2>1. IsFiniteSet(1..n) /\ IsFiniteSet(1..m) /\ Cardinality(1..n) = n /\ Cardinality(1..m) = m
      BY <1>2, <1>4
    <2>2. QED
      BY <1>1, <1>3, <2>1, FS_Injection DEF n, m
  <1>6. /\ chans \in [1..n -> S] /\ proxies \in [1..m -> P]
        /\ \A i, k \in 1..n : chans[i] = chans[k] => i = k
        /\ \A i, k \in 1..m : proxies[i] = proxies[k] => i = k
    BY <1>3 DEF Injection, IsInjective
  <1>7. /\ \A c \in S : \E k \in 1..n : chans[k] = c
        /\ \A r \in P : \E k \in 1..m : proxies[k] = r
    BY <1>5 DEF Surjection
  <1>8. \A c \in S : pos(c) \in 1..n /\ chans[pos(c)] = c
    BY <1>6, <1>7
  <1>9. \A k \in 1..n : pos(chans[k]) = k
    BY <1>6, <1>8
  <1>10. PICK a \in 1..m : proxies[a] = p
    BY <1>7
  <1>11. PICK b \in 1..m : proxies[b] = q
    BY <1>7
  <1>12. Len(proxies) = m
    BY <1>2, <1>6
  <1>13. \A c \in S : Nth(chans, proxies, c) = proxies[((pos(c) - 1) % m) + 1]
    BY <1>12 DEF Nth, RoundRobin
  <1> HIDE DEF pos
  <1>14. ASSUME NEW c \in S, NEW i \in 1..m
         PROVE  Nth(chans, proxies, c) = proxies[i] <=> ((pos(c) - 1) % m) + 1 = i
    <2>1. pos(c) - 1 \in Nat
      BY <1>8
    <2>2. ((pos(c) - 1) % m) + 1 \in 1..m
      BY <1>2, <2>1
    <2>3. QED
      BY <1>6, <1>13, <2>2
  <1> DEFINE j == Back(m, a, b)
             rest == {c \in share(p) : pos(c) # a}
             turn == [c \in rest |-> chans[pos(c) + j]]
  <1>15. ASSUME NEW c \in rest
         PROVE  pos(c) + j \in 1..n /\ (((pos(c) + j) - 1) % m) + 1 = b
    <2>1. c \in S /\ ((pos(c) - 1) % m) + 1 = a /\ pos(c) # a
      BY <1>10, <1>14
    <2>2. pos(c) \in 1..n /\ pos(c) \in Nat \ {0}
      BY <1>2, <1>8, <2>1
    <2> DEFINE k == pos(c)
    <2> HIDE DEF k
    <2>3. k \in Nat \ {0} /\ ((k - 1) % m) + 1 = a /\ k # a
      BY <2>1, <2>2 DEF k
    <2>4. k + j \in 1..k /\ (((k + j) - 1) % m) + 1 = b
      BY <1>2, <2>3, EarlierTurn
    <2>5. QED
      BY <1>2, <2>2, <2>4 DEF k
  <1> HIDE DEF j
  <1>16. ASSUME NEW c \in rest
         PROVE  turn[c] \in share(q) /\ pos(turn[c]) = pos(c) + j
    <2>1. turn[c] = chans[pos(c) + j] /\ turn[c] \in S
      BY <1>6, <1>15
    <2>2. pos(turn[c]) = pos(c) + j
      BY <1>9, <1>15, <2>1
    <2>3. ((pos(turn[c]) - 1) % m) + 1 = b
      BY <1>15, <2>2
    <2>4. QED
      BY <1>11, <1>14, <2>1, <2>2, <2>3
  <1>17. ASSUME NEW c \in rest, NEW d \in rest, turn[c] = turn[d]
         PROVE  c = d
    <2>1. pos(c) \in Int /\ pos(d) \in Int /\ chans[pos(c)] = c /\ chans[pos(d)] = d
      BY <1>8
    <2>2. pos(c) + j = pos(d) + j /\ j \in Int
      BY <1>2, <1>16, <1>17 DEF j, Back
    <2>3. QED
      BY <2>1, <2>2
  <1>18. turn \in Injection(rest, share(q))
    BY <1>16, <1>17 DEF Injection, IsInjective
  <1> HIDE DEF turn
  <1>19. rest \subseteq S /\ share(p) \subseteq S /\ share(q) \subseteq S
    OBVIOUS
  <1>20. IsFiniteSet(rest) /\ IsFiniteSet(share(p)) /\ IsFiniteSet(share(q))
    BY <1>1, <1>19, FS_Subset
  <1>21. /\ Cardinality(rest) \in Nat /\ Cardinality(share(p)) \in Nat /\ Cardinality(share(q)) \in Nat
    BY <1>20, FS_CardinalityType
  <1>22. Cardinality(rest) <= Cardinality(share(q))
    BY <1>18, <1>20, FS_Injection
  <1>23. rest = share(p) \/ \E c \in share(p) : rest = share(p) \ {c}
    <2>1. \A c, d \in S : pos(c) = pos(d) => c = d
      BY <1>8
    <2>2. QED
      BY <2>1, <1>19
  <1>24. Cardinality(share(p)) <= Cardinality(rest) + 1
    <2> DEFINE sp == share(p)
    <2>1. CASE rest = sp
      BY <1>21, <2>1
    <2>2. ASSUME NEW c \in sp, rest = sp \ {c}
          PROVE  Cardinality(sp) <= Cardinality(rest) + 1
      <3>1. IsFiniteSet(sp)
        BY <1>20
      <3>2. Cardinality(sp) \in Nat
        BY <1>21
      <3> HIDE DEF sp, rest
      <3>3. Cardinality(sp \ {c}) = Cardinality(sp) - 1
        BY <2>2, <3>1, FS_RemoveElement
      <3>4. QED
        BY <2>2, <3>2, <3>3
    <2>3. QED
      BY <1>23, <2>1, <2>2
  <1>25. Cardinality(share(p)) - Cardinality(share(q)) <= 1
    <2> HIDE DEF share, rest
    <2>1. QED
      BY <1>21, <1>22, <1>24
  <1>26. QED
    BY <1>25

\* However many proxies and channels there are, spreading them leaves no proxy with two channels
\* more than another.
THEOREM SpreadSafe == PSpec => SpreadEvenly
  <1>1. ASSUME PoolTabled, [PNext]_pvars, NEW h \in Presses,
               press[h].at = "assign", press'[h].at = "idle", NEW p \in press[h].todo, NEW q \in press[h].todo
        PROVE  Uses(p)' - Uses(q)' <= 1
    <2>1. EndAssign(h)
      <3>1. ASSUME NEW o \in Presses, BeginCheck(o) \/ BeginAssign(o) \/ BeginRemove(o) \/ EndRemove(o)
            PROVE  press'[h] = press[h]
        BY <1>1, <3>1 DEF BeginCheck, BeginAssign, BeginRemove, EndRemove, Begin, PoolTabled
      <3>2. ASSUME NEW o \in Presses, NEW r \in Proxies, CheckOne(o, r)
            PROVE  press'[h] = press[h]
        BY <1>1, <3>2 DEF CheckOne, PoolTabled
      <3>3. ASSUME NEW o \in Presses \ {h}, EndAssign(o)
            PROVE  press'[h] = press[h]
        BY <1>1, <3>3 DEF EndAssign, PoolTabled
      <3>4. press' # press
        BY <1>1
      <3>5. QED
        BY <1>1, <3>1, <3>2, <3>3, <3>4 DEF PNext, pvars, ProxyTurns, AddProxy, FeedTurns, Post
    <2>2. PICK chans \in SetToSeqs(live), proxies \in SetToSeqs(press[h].todo) :
              via' = [c \in Feeds |-> IF c \in live THEN Nth(chans, proxies, c) ELSE via[c]]
      BY <2>1 DEF EndAssign
    <2>3. live' = live /\ live \in SUBSET Feeds /\ press[h].todo \in SUBSET Proxies
      BY <1>1, <2>1 DEF EndAssign, PoolTabled, Press
    <2>4. \A r : Uses(r)' = Cardinality({c \in live : Nth(chans, proxies, c) = r})
      <3>1. \A r : {c \in live : via[c] = r}' = {c \in live : Nth(chans, proxies, c) = r}
        BY <2>2, <2>3
      <3>2. QED
        BY <3>1 DEF Uses
    <2>5. Cardinality({c \in live : Nth(chans, proxies, c) = p})
              - Cardinality({c \in live : Nth(chans, proxies, c) = q}) <= 1
      BY <1>1, <2>2, <2>3, RoundRobinIsEven
    <2>6. QED
      BY <2>4, <2>5
  <1>2. PInit => PoolTabled
    BY DEF PInit, PoolTabled, NoPress, Press, NoProxy, ProxyRow
  <1>3. ASSUME PoolTabled, [PNext]_pvars
        PROVE  \A h \in Presses : (press[h].at = "assign" /\ press'[h].at = "idle") =>
                   \A p, q \in press[h].todo : Uses(p)' - Uses(q)' <= 1
    BY <1>1, <1>3
  <1>4. QED
    BY <1>2, <1>3, PoolStep, PTL DEF PSpec, SpreadEvenly

\* A proxy that is active, or about to be given a channel, has its row.
RowsThere ==
    /\ \A p \in Active : pool[p].there
    /\ \A h \in Presses : press[h].at = "assign" => \A p \in press[h].todo : pool[p].there

PoolInv == PoolTabled /\ PoolTypeOK /\ RowsThere

LEMMA PoolInit == PInit => PoolInv
  BY DEF PInit, PoolInv, PoolTabled, PoolTypeOK, RowsThere, Active, NoPress, Press, NoProxy, ProxyRow

\* Rows of proxies are never deleted, so whatever is assigned exists.
LEMMA PoolInvStep == PoolInv /\ [PNext]_pvars => PoolInv'
  <1> SUFFICES ASSUME PoolInv, [PNext]_pvars
               PROVE  PoolInv'
    OBVIOUS
  <1>1. PoolTabled /\ PoolTabled' /\ PoolTypeOK /\ RowsThere
    BY PoolStep DEF PoolInv
  \* Rows stay, and so does what is assigned, or it is given something that is there.
  <1>a. ASSUME up' \subseteq Proxies, result' \in {"none", "posted", "failed"},
               \A p \in Proxies : pool[p].there => pool'[p].there,
               \A p \in Proxies : pool'[p].active => pool'[p].there,
               \A c \in Feeds : \/ via'[c] \in {via[c], Direct}
                                \/ \E h \in Presses : press[h].at = "assign" /\ via'[c] \in press[h].todo,
               \A h \in Presses : press'[h].at = "assign" =>
                   \/ press'[h] = press[h]
                   \/ \A p \in press'[h].todo : p \in Active
        PROVE  PoolInv'
    <2>1. \A h \in Presses : press[h].todo \subseteq Proxies /\ press'[h].todo \subseteq Proxies
      BY <1>1 DEF PoolTabled, Press
    <2>2. \A c \in Feeds : via[c] \in Proxies \cup {Direct}
      BY <1>1 DEF PoolTabled
    <2>3. \A c \in Feeds : via'[c] = Direct \/ pool'[via'[c]].there
      BY <1>1, <1>a, <2>1, <2>2 DEF PoolTypeOK, RowsThere
    <2>4. PoolTypeOK'
      BY <1>1, <1>a, <2>3 DEF PoolTabled, PoolTypeOK
    <2>5. RowsThere'
      BY <1>1, <1>a, <2>1 DEF RowsThere, Active
    <2>6. QED
      BY <1>1, <2>4, <2>5 DEF PoolInv
  <1>2. ASSUME NEW p \in Proxies, ProxyTurns(p)
        PROVE  PoolInv'
    BY <1>1, <1>2, <1>a DEF ProxyTurns, PoolTypeOK, RowsThere, Active
  <1>3. ASSUME NEW p \in Proxies, AddProxy(p)
        PROVE  PoolInv'
    <2>1. /\ pool'[p].there /\ \A q \in Proxies \ {p} : pool'[q] = pool[q]
          /\ UNCHANGED <<up, via, press, result>>
      BY <1>1, <1>3 DEF AddProxy, PoolTabled
    <2>2. QED
      BY <1>1, <2>1, <1>a DEF PoolTypeOK, RowsThere, Active
  <1>4. ASSUME NEW c \in Feeds, FeedTurns(c) \/ Post(c)
        PROVE  PoolInv'
    <2>1. UNCHANGED <<up, pool, via, press>> /\ result' \in {"none", "posted", "failed"}
      BY <1>1, <1>4 DEF FeedTurns, Post, PoolTypeOK
    <2>2. QED
      BY <1>1, <2>1, <1>a DEF PoolTypeOK, RowsThere, Active
  <1>5. ASSUME NEW h \in Presses, BeginCheck(h) \/ BeginAssign(h) \/ BeginRemove(h)
        PROVE  PoolInv'
    <2>1. /\ UNCHANGED <<up, pool, via, result>>
          /\ \A o \in Presses \ {h} : press'[o] = press[o]
          /\ press'[h].at = "assign" => press'[h].todo \subseteq Active
      BY <1>1, <1>5 DEF BeginCheck, BeginAssign, BeginRemove, Begin, PoolTabled
    <2>2. QED
      BY <1>1, <2>1, <1>a DEF PoolTypeOK, RowsThere, Active
  <1>6. ASSUME NEW h \in Presses, NEW p \in Proxies, CheckOne(h, p)
        PROVE  PoolInv'
    <2>1. /\ UNCHANGED <<up, via, result>> /\ press[h].at = "check" /\ pool' = [pool EXCEPT ![p].alive = p \in up]
          /\ \A o \in Presses \ {h} : press'[o] = press[o]
      BY <1>1, <1>6 DEF CheckOne, PoolTabled
    <2>2. \A q \in Proxies : pool'[q].there = pool[q].there /\ pool'[q].active = pool[q].active
      BY <1>1, <2>1 DEF PoolTabled, ProxyRow
    <2>3. press'[h].at # "assign"
      <3>1. press[h] \in Press
        BY <1>1 DEF PoolTabled
      <3>2. [press[h] EXCEPT !.todo = @ \ {p}].at = "check" /\ NoPress.at = "idle"
        BY <2>1, <3>1 DEF Press, NoPress
      <3>3. QED
        BY <1>1, <1>6, <3>2 DEF CheckOne, PoolTabled
    <2>4. QED
      BY <1>1, <2>1, <2>2, <2>3, <1>a DEF PoolTypeOK, RowsThere, Active
  <1>7. ASSUME NEW h \in Presses, EndAssign(h)
        PROVE  PoolInv'
    <2>1. PICK chans \in SetToSeqs(live), proxies \in SetToSeqs(press[h].todo) :
              via' = [c \in Feeds |-> IF c \in live THEN Nth(chans, proxies, c) ELSE via[c]]
      BY <1>7 DEF EndAssign
    <2>2. /\ live \in SUBSET Feeds /\ press[h].at = "assign" /\ UNCHANGED <<up, pool, result>>
          /\ press[h].todo \in SUBSET Proxies /\ press[h].todo # {}
          /\ \A o \in Presses \ {h} : press'[o] = press[o]
          /\ press'[h].at = "idle"
      BY <1>1, <1>7 DEF EndAssign, PoolTabled, Press, NoPress
    <2>3. \A c \in live : Nth(chans, proxies, c) \in press[h].todo
      BY <2>1, <2>2, NthIsOne
    <2>4. \A c \in Feeds : via'[c] = via[c] \/ via'[c] \in press[h].todo
      BY <2>1, <2>3
    <2>5. QED
      BY <1>1, <2>2, <2>4, <1>a DEF PoolTypeOK, RowsThere, Active
  <1>8. ASSUME NEW h \in Presses, EndRemove(h)
        PROVE  PoolInv'
    <2>1. /\ \A o \in Presses \ {h} : press'[o] = press[o]
          /\ press'[h].at = "idle" /\ UNCHANGED <<up, result>>
          /\ \A c \in Feeds : via'[c] \in {via[c], Direct}
          /\ pool' = [p \in Proxies |-> IF p \in Dead THEN Removed(p) ELSE pool[p]]
      BY <1>1, <1>8 DEF EndRemove, PoolTabled, NoPress
    <2>2. \A p \in Proxies : pool'[p].there = pool[p].there /\ (pool'[p].active => pool[p].active)
      BY <1>1, <2>1 DEF Removed, PoolTabled, ProxyRow
    <2>3. QED
      BY <1>1, <2>1, <2>2, <1>a DEF PoolTypeOK, RowsThere, Active
  <1>9. CASE UNCHANGED pvars
    BY <1>1, <1>9, <1>a DEF pvars, PoolTypeOK, RowsThere, Active
  <1>10. QED
    BY <1>2, <1>3, <1>4, <1>5, <1>6, <1>7, <1>8, <1>9 DEF PNext

----------------------------------------------------------------------------
(* The post wizard. *)

\* As long as nothing is pressed while a handler is under way, one handler is under way.
OneTask == \A s, t \in Tasks : (task[s].at # "idle" /\ task[t].at # "idle") => s = t

\* A text that is not written yet was not sent, and one in the data was sent as often as
\* that was lost on the chat, unless its delivery is still to be told.
Unsent ==
    \A x \in Texts : /\ posted[x] <= 1 + unheard[x]
                     /\ x \in fresh => posted[x] = 0
                     /\ draft.text = x =>
                           /\ x \notin fresh
                           /\ posted[x] <= unheard[x] \/ \E t \in Tasks : task[t].at = "report"

\* What a handler has read from the data is what the data still are.
Carried ==
    \A t \in Tasks : /\ task[t].at \in {"show", "reshow"} => task[t].with.text = draft.text
                     /\ task[t].at \in {"publish", "report"} =>
                           (task[t].with = draft /\ draft.text # NoText)
                     /\ task[t].at = "photo" => draft.text # NoText

\* The text in the data is the one in the last preview, or its preview failed, or is about
\* to be sent.
Seen ==
    (draft.text # NoText /\ \A t \in Tasks : task[t].at # "show") =>
        draft.text = latest \/ draft.text \in unshown

InTurn == OneTask /\ Unsent /\ Carried /\ Seen

WizInv == WizardTypeOK /\ (alone => InTurn)

LEMMA DraftIsText ==
    ASSUME NEW d \in Draft
    PROVE  d.text \in Texts \cup {NoText} /\ d.image \in BOOLEAN
  BY DEF Draft

LEMMA DraftFields ==
    ASSUME NEW x \in Texts \cup {NoText}, NEW b \in BOOLEAN
    PROVE  [text |-> x, image |-> b] \in Draft
  BY DEF Draft

LEMMA NoDraftTyped == NoDraft \in Draft /\ NoDraft.text = NoText
  BY DEF NoDraft, Draft

LEMMA WizardInit == WInit => WizInv
  <1>1. NoTask \in Task /\ NoTask.at = "idle"
    BY NoDraftTyped DEF NoTask, Task
  <1>2. WInit => WizardTypeOK
    BY <1>1, NoDraftTyped DEF WInit, WizardTypeOK, States
  <1>3. WInit => InTurn
    BY <1>1, NoDraftTyped, WizardAssumption DEF WInit, InTurn, OneTask, Unsent, Carried, Seen
  <1>4. QED
    BY <1>2, <1>3 DEF WizInv

\* What the types say of one handler.
LEMMA TaskFields ==
    ASSUME WizardTypeOK, NEW t \in Tasks
    PROVE  /\ task[t].at \in {"idle", "topic", "again", "show", "photo", "reshow", "publish", "report", "flash"}
           /\ task[t].with \in Draft
  BY DEF WizardTypeOK, Task

\* A handler is put somewhere: the others stay where they are.
LEMMA BecomeTyped ==
    ASSUME WizardTypeOK, NEW t \in Tasks, NEW with \in Draft,
           NEW at \in {"idle", "topic", "again", "show", "photo", "reshow", "publish", "report", "flash"},
           Become(t, at, with)
    PROVE  /\ task' \in [Tasks -> Task]
           /\ task'[t].at = at /\ task'[t].with = with
           /\ \A o \in Tasks \ {t} : task'[o] = task[o]
  BY DEF Become, WizardTypeOK, Task

\* An admin who waits for the handlers presses when there is none.
LEMMA PressedAlone ==
    ASSUME WizardTypeOK, Pressed
    PROVE  alone' \in BOOLEAN /\ (alone' => alone /\ \A t \in Tasks : task[t].at = "idle")
  BY DEF Pressed, WizardTypeOK

\* Something is pressed that starts no handler.
LEMMA MenuStep ==
    ASSUME WizInv, OpenMenu \/ StartNewPost \/ ChooseType \/ RequestImage
    PROVE  WizInv'
  <1>1. WizardTypeOK /\ Pressed
    BY DEF WizInv, OpenMenu, StartNewPost, ChooseType, RequestImage
  <1>2. alone' \in BOOLEAN /\ (alone' => alone /\ \A t \in Tasks : task[t].at = "idle")
    BY <1>1, PressedAlone
  <1>3. UNCHANGED <<shown, task, fresh, posted, latest, unheard, unshown>> /\ draft' \in {draft, NoDraft}
    BY DEF OpenMenu, StartNewPost, ChooseType, RequestImage
  <1>4. fsm' \in States /\ (fsm' \in {"reviewing_post", "adding_image"} =>
                                fsm = "reviewing_post" /\ draft' = draft)
    BY DEF OpenMenu, StartNewPost, ChooseType, RequestImage, States, NoState
  <1>5. WizardTypeOK'
    BY <1>1, <1>2, <1>3, <1>4, NoDraftTyped DEF WizardTypeOK
  <1>6. alone' => InTurn'
    BY <1>2, <1>3, NoDraftTyped, WizardAssumption
       DEF WizInv, InTurn, OneTask, Unsent, Carried, Seen
  <1>7. QED
    BY <1>5, <1>6 DEF WizInv

\* Something is pressed that starts a handler, which has read no more than what the data are.
LEMMA StartStep ==
    ASSUME WizInv, NEW t \in Tasks, Pressed,
           NEW at \in {"topic", "again", "photo", "reshow", "publish", "flash"},
           NEW with \in {draft, NoDraft}, Become(t, at, with),
           draft' \in {draft, NoDraft}, fsm' \in States,
           fsm' \in {"reviewing_post", "adding_image"} =>
               (fsm \in {"reviewing_post", "adding_image"} /\ draft' = draft),
           shown' \subseteq shown, UNCHANGED <<fresh, posted, latest, unheard, unshown>>,
           at = "reshow" => with = draft',
           at = "publish" => (with = draft' /\ draft'.text # NoText),
           at = "photo" => fsm' = "adding_image"
    PROVE  WizInv'
  <1>1. WizardTypeOK /\ draft \in Draft
    BY DEF WizInv, WizardTypeOK
  <1>2. alone' \in BOOLEAN /\ (alone' => alone /\ \A o \in Tasks : task[o].at = "idle")
    BY <1>1, PressedAlone
  <1>3. with \in Draft
    BY <1>1, NoDraftTyped
  <1>4. /\ task' \in [Tasks -> Task]
        /\ task'[t].at = at /\ task'[t].with = with
        /\ \A o \in Tasks \ {t} : task'[o] = task[o]
    BY <1>1, <1>3, BecomeTyped
  <1>5. WizardTypeOK'
    BY <1>1, <1>2, <1>4, NoDraftTyped DEF WizardTypeOK
  <1>6. ASSUME alone'
        PROVE  InTurn'
    <2>1. alone /\ InTurn /\ \A o \in Tasks : task[o].at = "idle"
      BY <1>2, <1>6 DEF WizInv
    <2>2. \A o \in Tasks \ {t} : task'[o].at = "idle"
      BY <1>4, <2>1
    <2>3. OneTask'
      BY <2>2 DEF OneTask
    <2>4. Unsent'
      BY <2>1, NoDraftTyped, WizardAssumption DEF InTurn, Unsent
    <2>5. at = "photo" => draft'.text # NoText
      BY <1>5, <1>6 DEF WizardTypeOK
    <2>6. Carried'
      BY <1>4, <2>2, <2>5 DEF Carried
    <2>7. Seen'
      BY <2>1, NoDraftTyped DEF InTurn, Seen
    <2>8. QED
      BY <2>3, <2>4, <2>6, <2>7 DEF InTurn
  <1>7. QED
    BY <1>5, <1>6 DEF WizInv

\* A handler ends without having changed anything, or clears the data.
LEMMA EndStep ==
    ASSUME WizInv, NEW t \in Tasks, task[t].at # "idle",
           task[t].at \notin {"show", "report"} \/ draft' = NoDraft,
           Become(t, "idle", NoDraft), UNCHANGED <<shown, fresh, posted, latest, alone, unheard, unshown>>,
           UNCHANGED <<fsm, draft>> \/ (fsm' = "none" /\ draft' = NoDraft)
    PROVE  WizInv'
  <1>1. WizardTypeOK
    BY DEF WizInv
  <1>2. /\ task' \in [Tasks -> Task]
        /\ task'[t].at = "idle" /\ task'[t].with = NoDraft
        /\ \A o \in Tasks \ {t} : task'[o] = task[o]
    BY <1>1, NoDraftTyped, BecomeTyped
  <1>3. WizardTypeOK'
    BY <1>1, <1>2, NoDraftTyped DEF WizardTypeOK, States
  <1>4. ASSUME alone'
        PROVE  InTurn'
    <2>1. alone /\ InTurn
      BY <1>4 DEF WizInv
    <2>2. OneTask'
      BY <1>2, <2>1 DEF InTurn, OneTask
    <2>3. \A o \in Tasks : task'[o].at = "idle" /\ (task[o].at = "report" => o = t)
      BY <1>2, <2>1 DEF InTurn, OneTask
    <2>4. Unsent'
      BY <2>1, <2>3, NoDraftTyped, WizardAssumption DEF InTurn, Unsent
    <2>5. Carried'
      BY <2>3 DEF Carried
    <2>6. Seen'
      BY <1>2, <2>1, NoDraftTyped DEF InTurn, Seen
    <2>7. QED
      BY <2>2, <2>4, <2>5, <2>6 DEF InTurn
  <1>5. QED
    BY <1>3, <1>4 DEF WizInv

\* A text is written: it becomes the text of the data, and is about to be shown.
LEMMA WrittenStep ==
    ASSUME WizInv, NEW t \in Tasks, NEW x \in Texts, TopicWritten(t, x) \/ Rewritten(t, x)
    PROVE  WizInv'
  <1>1. WizardTypeOK /\ x \in fresh /\ fresh' = fresh \ {x} /\ UNCHANGED <<shown, posted, latest, alone, unheard, unshown>>
    BY DEF WizInv, TopicWritten, Rewritten
  <1>2. draft' \in Draft /\ draft'.text = x
    <2>1. CASE TopicWritten(t, x)
      BY <2>1, DraftFields DEF TopicWritten
    <2>2. CASE Rewritten(t, x)
      BY <1>1, <2>2 DEF Rewritten, NewDraft, WizardTypeOK, Draft
    <2>3. QED
      BY <2>1, <2>2
  <1>3. PICK with \in Draft : Become(t, "show", with) /\ with.text = x
    <2>1. CASE TopicWritten(t, x)
      <3>1. [text |-> x, image |-> FALSE] \in Draft
        BY DraftFields
      <3>2. QED
        BY <2>1, <3>1 DEF TopicWritten
    <2>2. CASE Rewritten(t, x)
      <3>1. task[t].with.image \in BOOLEAN
        BY <1>1, TaskFields, DraftIsText
      <3>2. [text |-> x, image |-> task[t].with.image] \in Draft
        BY <3>1, DraftFields
      <3>3. QED
        BY <2>2, <3>2 DEF Rewritten
    <2>3. QED
      BY <2>1, <2>2
  <1>4. /\ task' \in [Tasks -> Task]
        /\ task'[t].at = "show" /\ task'[t].with = with
        /\ \A o \in Tasks \ {t} : task'[o] = task[o]
    BY <1>1, <1>3, BecomeTyped
  <1>5. fsm' \in States /\ task[t].at # "idle" /\ x # NoText
    BY <1>1, WizardAssumption DEF TopicWritten, Rewritten, States, WizardTypeOK
  <1>6. WizardTypeOK'
    BY <1>1, <1>2, <1>4, <1>5 DEF WizardTypeOK
  <1>7. ASSUME alone'
        PROVE  InTurn'
    <2>1. alone /\ InTurn
      BY <1>1, <1>7 DEF WizInv
    <2>2. \A o \in Tasks \ {t} : task'[o].at = "idle"
      BY <1>4, <1>5, <2>1 DEF InTurn, OneTask
    <2>3. OneTask' /\ Carried' /\ Seen'
      BY <1>2, <1>3, <1>4, <2>2 DEF OneTask, Carried, Seen
    <2>4. posted[x] = 0 /\ unheard[x] \in Nat
      BY <1>1, <2>1 DEF InTurn, Unsent, WizardTypeOK
    <2>5. Unsent'
      BY <1>1, <1>2, <2>1, <2>4 DEF InTurn, Unsent
    <2>6. QED
      BY <2>3, <2>5 DEF InTurn
  <1>8. QED
    BY <1>6, <1>7 DEF WizInv

\* A preview is sent: what it shows is the text of the data.
LEMMA ShowStep ==
    ASSUME WizInv, NEW t \in Tasks, ShowPreview(t)
    PROVE  WizInv'
  <1>1. /\ WizardTypeOK /\ task[t].at \in {"show", "reshow"} /\ task[t].with \in Draft
        /\ shown' = shown \cup {task[t].with} /\ latest' = task[t].with.text
        /\ unshown' = unshown \ {task[t].with.text}
        /\ Become(t, "idle", NoDraft)
        /\ UNCHANGED <<fsm, draft, fresh, posted, alone, unheard>>
    BY TaskFields DEF WizInv, ShowPreview
  <1>2. /\ task' \in [Tasks -> Task]
        /\ task'[t].at = "idle" /\ task'[t].with = NoDraft
        /\ \A o \in Tasks \ {t} : task'[o] = task[o]
    BY <1>1, NoDraftTyped, BecomeTyped
  <1>3. WizardTypeOK'
    BY <1>1, <1>2, DraftIsText DEF WizardTypeOK
  <1>4. ASSUME alone'
        PROVE  InTurn'
    <2>1. alone /\ InTurn
      BY <1>1, <1>4 DEF WizInv
    <2>2. \A o \in Tasks : task'[o].at = "idle" /\ task[o].at # "report"
      BY <1>1, <1>2, <2>1 DEF InTurn, OneTask
    <2>3. OneTask' /\ Carried'
      BY <2>2 DEF OneTask, Carried
    <2>4. Unsent' /\ Seen'
      BY <1>1, <2>1, <2>2 DEF InTurn, Unsent, Seen, Carried
    <2>5. QED
      BY <2>3, <2>4 DEF InTurn
  <1>5. QED
    BY <1>3, <1>4 DEF WizInv

\* A photo is there: the text of the data stays what it was.
LEMMA FetchedStep ==
    ASSUME WizInv, NEW t \in Tasks, ImageFetched(t)
    PROVE  WizInv'
  <1>1. /\ WizardTypeOK /\ task[t].at = "photo"
        /\ draft' = [draft EXCEPT !.image = TRUE] /\ fsm' = "reviewing_post"
        /\ Become(t, "reshow", draft')
        /\ UNCHANGED <<shown, fresh, posted, latest, alone, unheard, unshown>>
    BY DEF WizInv, ImageFetched
  <1>2. draft' \in Draft /\ draft'.text = draft.text
    BY <1>1 DEF WizardTypeOK, Draft
  <1>3. PICK with \in Draft : Become(t, "reshow", with) /\ with = draft'
    BY <1>1, <1>2
  <1>4. /\ task' \in [Tasks -> Task]
        /\ task'[t].at = "reshow" /\ task'[t].with = with
        /\ \A o \in Tasks \ {t} : task'[o] = task[o]
    BY <1>1, <1>3, BecomeTyped
  <1>5. alone => draft.text # NoText
    BY <1>1 DEF WizInv, InTurn, Carried
  <1>6. WizardTypeOK'
    BY <1>1, <1>2, <1>4, <1>5 DEF WizardTypeOK, States
  <1>7. ASSUME alone'
        PROVE  InTurn'
    <2>1. alone /\ InTurn
      BY <1>1, <1>7 DEF WizInv
    <2>2. \A o \in Tasks \ {t} : task'[o].at = "idle" /\ task[o].at = "idle"
      BY <1>1, <1>4, <2>1 DEF InTurn, OneTask
    <2>3. OneTask' /\ Carried'
      BY <1>3, <1>4, <2>2 DEF OneTask, Carried
    <2>4. Unsent'
      BY <1>1, <1>2, <1>4, <2>1, <2>2 DEF InTurn, Unsent
    <2>5. Seen'
      BY <1>1, <1>2, <2>1, <2>2 DEF InTurn, Seen
    <2>6. QED
      BY <2>3, <2>4, <2>5 DEF InTurn
  <1>8. QED
    BY <1>6, <1>7 DEF WizInv

\* A counter of a function goes up by one.
LEMMA CountedUp ==
    ASSUME NEW f \in [Texts -> Nat], NEW y, NEW g, g = [f EXCEPT ![y] = @ + 1]
    PROVE  g \in [Texts -> Nat] /\ \A x \in Texts : g[x] = IF x = y THEN f[x] + 1 ELSE f[x]
  <1>1. \A x \in Texts : g[x] = IF x = y THEN f[x] + 1 ELSE f[x]
    OBVIOUS
  <1>2. \A x \in Texts : g[x] \in Nat
    BY <1>1
  <1>3. QED
    BY <1>1, <1>2

\* A post is out: its text is the one in the data.
LEMMA PublishedStep ==
    ASSUME WizInv, NEW t \in Tasks, Published(t)
    PROVE  WizInv'
  <1> DEFINE d == task[t].with
  <1>1. /\ WizardTypeOK /\ task[t].at = "publish" /\ d \in Draft
        /\ posted \in [Texts -> Nat] /\ unheard \in [Texts -> Nat]
        /\ posted' = [posted EXCEPT ![d.text] = @ + 1]
        /\ Become(t, "report", d)
        /\ UNCHANGED <<fsm, draft, shown, fresh, latest, alone, unheard, unshown>>
    BY TaskFields DEF WizInv, Published, WizardTypeOK
  <1>2. /\ task' \in [Tasks -> Task]
        /\ task'[t].at = "report" /\ task'[t].with = d
        /\ \A o \in Tasks \ {t} : task'[o] = task[o]
    BY <1>1, BecomeTyped
  <1>3. /\ posted' \in [Texts -> Nat]
        /\ \A x \in Texts : posted'[x] = IF x = d.text THEN posted[x] + 1 ELSE posted[x]
    BY <1>1, CountedUp
  <1>4. WizardTypeOK'
    BY <1>1, <1>2, <1>3 DEF WizardTypeOK
  <1>5. ASSUME alone'
        PROVE  InTurn'
    <2>1. alone /\ InTurn
      BY <1>1, <1>5 DEF WizInv
    <2>2. \A o \in Tasks \ {t} : task'[o].at = "idle" /\ task[o].at = "idle"
      BY <1>1, <1>2, <2>1 DEF InTurn, OneTask
    <2>3. d = draft /\ draft.text # NoText
      BY <1>1, <2>1 DEF InTurn, Carried
    <2>4. OneTask' /\ Carried'
      BY <1>1, <1>2, <2>2, <2>3 DEF OneTask, Carried
    <2>5. Seen'
      BY <1>1, <1>2, <2>1, <2>2 DEF InTurn, Seen
    <2>6. \A o \in Tasks : task[o].at # "report"
      BY <1>1, <2>2
    <2>7. Unsent'
      <3>1. ASSUME NEW x \in Texts
            PROVE  posted'[x] <= 1 + unheard[x] /\ (x \in fresh => posted'[x] = 0)
        <4>1. posted[x] \in Nat /\ unheard[x] \in Nat
          BY <1>1
        <4>2. posted'[x] = IF x = d.text THEN posted[x] + 1 ELSE posted[x]
          BY <1>3
        <4>3. posted[x] <= 1 + unheard[x] /\ (x \in fresh => posted[x] = 0)
          BY <2>1 DEF InTurn, Unsent
        <4>4. x = d.text => (posted[x] <= unheard[x] /\ x \notin fresh)
          BY <2>1, <2>3, <2>6 DEF InTurn, Unsent
        <4>5. QED
          BY <4>1, <4>2, <4>3, <4>4
      <3>2. \A x \in Texts : draft.text = x => x \notin fresh
        BY <2>1 DEF InTurn, Unsent
      <3>3. QED
        BY <1>1, <1>2, <3>1, <3>2 DEF Unsent
    <2>8. QED
      BY <2>4, <2>5, <2>7 DEF InTurn
  <1>6. QED
    BY <1>4, <1>5 DEF WizInv

\* Telling of a delivery fails: that is counted, and the text in the data stays.
LEMMA ReportFailedStep ==
    ASSUME WizInv, NEW t \in Tasks, ReportFailed(t)
    PROVE  WizInv'
  <1> DEFINE d == task[t].with
  <1>1. /\ WizardTypeOK /\ task[t].at = "report"
        /\ posted \in [Texts -> Nat] /\ unheard \in [Texts -> Nat]
        /\ unheard' = [unheard EXCEPT ![d.text] = @ + 1]
        /\ Become(t, "idle", NoDraft)
        /\ UNCHANGED <<fsm, draft, shown, fresh, posted, latest, alone, unshown>>
    BY DEF WizInv, ReportFailed, WizardTypeOK
  <1>2. /\ task' \in [Tasks -> Task]
        /\ task'[t].at = "idle" /\ task'[t].with = NoDraft
        /\ \A o \in Tasks \ {t} : task'[o] = task[o]
    BY <1>1, NoDraftTyped, BecomeTyped
  <1>3. /\ unheard' \in [Texts -> Nat]
        /\ \A x \in Texts : unheard'[x] = IF x = d.text THEN unheard[x] + 1 ELSE unheard[x]
    BY <1>1, CountedUp
  <1>4. WizardTypeOK'
    BY <1>1, <1>2, <1>3 DEF WizardTypeOK
  <1>5. ASSUME alone'
        PROVE  InTurn'
    <2>1. alone /\ InTurn
      BY <1>1, <1>5 DEF WizInv
    <2>2. \A o \in Tasks : task'[o].at = "idle" /\ (task[o].at # "idle" => o = t)
      BY <1>1, <1>2, <2>1 DEF InTurn, OneTask
    <2>3. OneTask' /\ Carried'
      BY <2>2 DEF OneTask, Carried
    <2>4. Seen'
      BY <1>1, <2>1, <2>2 DEF InTurn, Seen
    <2>5. d = draft
      BY <1>1, <2>1 DEF InTurn, Carried
    <2>6. Unsent'
      <3>1. ASSUME NEW x \in Texts
            PROVE  /\ posted[x] <= 1 + unheard'[x]
                   /\ draft.text = x => posted[x] <= unheard'[x]
        <4>1. posted[x] \in Nat /\ unheard[x] \in Nat /\ posted[x] <= 1 + unheard[x]
          BY <1>1, <2>1 DEF InTurn, Unsent
        <4>2. unheard'[x] = IF x = draft.text THEN unheard[x] + 1 ELSE unheard[x]
          BY <1>3, <2>5
        <4>3. QED
          BY <4>1, <4>2
      <3>2. QED
        BY <1>1, <2>1, <3>1 DEF InTurn, Unsent
    <2>7. QED
      BY <2>3, <2>4, <2>6 DEF InTurn
  <1>6. QED
    BY <1>4, <1>5 DEF WizInv

\* The preview of a new text is not sent, and the text stays: it is one of the unshown.
LEMMA UnshownStep ==
    ASSUME WizInv, NEW t \in Tasks, task[t].at = "show", Become(t, "idle", NoDraft),
           unshown' = unshown \cup {task[t].with.text},
           UNCHANGED <<fsm, draft, shown, fresh, posted, latest, alone, unheard>>
    PROVE  WizInv'
  <1>1. WizardTypeOK
    BY DEF WizInv
  <1>2. /\ task' \in [Tasks -> Task]
        /\ task'[t].at = "idle" /\ task'[t].with = NoDraft
        /\ \A o \in Tasks \ {t} : task'[o] = task[o]
    BY <1>1, NoDraftTyped, BecomeTyped
  <1>3. WizardTypeOK'
    BY <1>1, <1>2, TaskFields, DraftIsText DEF WizardTypeOK
  <1>4. ASSUME alone'
        PROVE  InTurn'
    <2>1. alone /\ InTurn
      BY <1>4 DEF WizInv
    <2>2. \A o \in Tasks : task'[o].at = "idle" /\ task[o].at # "report"
      BY <1>2, <2>1 DEF InTurn, OneTask
    <2>3. OneTask' /\ Carried' /\ Unsent'
      BY <2>1, <2>2 DEF InTurn, OneTask, Carried, Unsent
    <2>4. task[t].with.text = draft.text
      BY <2>1 DEF InTurn, Carried
    <2>5. Seen'
      BY <2>4 DEF Seen
    <2>6. QED
      BY <2>3, <2>5 DEF InTurn
  <1>5. QED
    BY <1>3, <1>4 DEF WizInv

\* The handlers are gone with the process, and what they had to tell or to show is lost.
LEMMA RestartStep ==
    ASSUME WizInv, WizardRestart
    PROVE  WizInv'
  <1>1. WizardTypeOK /\ UNCHANGED <<shown, fresh, posted, latest, alone>>
    BY DEF WizInv, WizardRestart
  <1>2. task' \in [Tasks -> Task] /\ \A t \in Tasks : task'[t].at = "idle"
    <2>1. NoTask \in Task /\ NoTask.at = "idle"
      BY NoDraftTyped DEF NoTask, Task
    <2>2. QED
      BY <2>1 DEF WizardRestart
  <1>3. posted \in [Texts -> Nat] /\ unheard \in [Texts -> Nat] /\ draft \in Draft
    BY <1>1 DEF WizardTypeOK
  <1>4. alone => /\ OneTask /\ Unsent /\ Carried /\ Seen
                 /\ OneTask' /\ Carried'
    BY <1>2 DEF WizInv, InTurn, OneTask, Carried
  <1>5. CASE fsm' = "none" /\ draft' = NoDraft /\ UNCHANGED <<unheard, unshown>>
    <2>1. WizardTypeOK'
      BY <1>1, <1>2, <1>5, NoDraftTyped DEF WizardTypeOK, States
    <2>2. alone => Unsent' /\ Seen'
      BY <1>1, <1>4, <1>5, NoDraftTyped, WizardAssumption DEF Unsent, Seen
    <2>3. QED
      BY <1>1, <1>4, <2>1, <2>2 DEF WizInv, InTurn
  <1>6. CASE /\ unheard' = [x \in Texts |->
                   IF \E t \in Tasks : task[t].at = "report" /\ task[t].with.text = x
                   THEN unheard[x] + 1 ELSE unheard[x]]
             /\ unshown' = unshown \cup {x \in Texts :
                   \E t \in Tasks : task[t].at = "show" /\ task[t].with.text = x}
             /\ UNCHANGED <<fsm, draft>>
    <2>1. \A x \in Texts : unheard'[x] \in {unheard[x], unheard[x] + 1}
      BY <1>6
    <2>2. unheard' \in [Texts -> Nat]
      BY <1>3, <1>6
    <2>3. WizardTypeOK'
      BY <1>1, <1>2, <1>6, <2>2 DEF WizardTypeOK
    <2>4. ASSUME alone
          PROVE  Unsent'
      <3>1. ASSUME NEW x \in Texts
            PROVE  /\ posted[x] <= 1 + unheard'[x]
                   /\ draft.text = x => posted[x] <= unheard'[x]
        <4>1. posted[x] \in Nat /\ unheard[x] \in Nat /\ posted[x] <= 1 + unheard[x]
          BY <1>3, <1>4, <2>4 DEF Unsent
        <4>2. CASE \E t \in Tasks : task[t].at = "report" /\ task[t].with.text = x
          <5>1. unheard'[x] = unheard[x] + 1
            BY <1>6, <4>2
          <5>2. QED
            BY <4>1, <5>1
        <4>3. CASE ~\E t \in Tasks : task[t].at = "report" /\ task[t].with.text = x
          <5>1. unheard'[x] = unheard[x]
            BY <1>6, <4>3
          <5>2. draft.text = x => posted[x] <= unheard[x]
            BY <1>4, <2>4, <4>3 DEF Unsent, Carried
          <5>3. QED
            BY <4>1, <5>1, <5>2
        <4>4. QED
          BY <4>2, <4>3
      <3>2. QED
        BY <1>1, <1>4, <1>6, <2>4, <3>1 DEF Unsent
    <2>5. ASSUME alone, draft.text # NoText
          PROVE  draft.text = latest \/ draft.text \in unshown'
      <3>1. draft.text \in Texts
        BY <1>3, <2>5, DraftIsText
      <3>2. CASE \A t \in Tasks : task[t].at # "show"
        BY <1>4, <1>6, <2>5, <3>2 DEF Seen
      <3>3. CASE \E t \in Tasks : task[t].at = "show"
        <4>1. PICK t \in Tasks : task[t].at = "show"
          BY <3>3
        <4>2. task[t].with.text = draft.text
          BY <1>4, <2>5, <4>1 DEF Carried
        <4>3. QED
          BY <1>6, <3>1, <4>1, <4>2
      <3>4. QED
        BY <3>2, <3>3
    <2>6. alone => Seen'
      BY <1>1, <1>6, <2>5 DEF Seen
    <2>7. QED
      BY <1>1, <1>4, <2>3, <2>4, <2>6 DEF WizInv, InTurn
  <1>7. QED
    BY <1>5, <1>6 DEF WizardRestart

\* Every action keeps the invariant.
LEMMA WizardInvStep == WizInv /\ [WNext]_wvars => WizInv'
  <1> SUFFICES ASSUME WizInv, [WNext]_wvars
               PROVE  WizInv'
    OBVIOUS
  <1>1. CASE OpenMenu \/ StartNewPost \/ ChooseType \/ RequestImage
    BY <1>1, MenuStep
  <1>2. CASE WizardRestart
    BY <1>2, RestartStep
  <1>3. ASSUME NEW t \in Tasks, ReceiveTopic(t) \/ ReceiveImage(t) \/ SkipImage(t) \/ HandleFlashSale(t)
        PROVE  WizInv'
    <2>1. WizardTypeOK /\ Pressed
      BY <1>3 DEF WizInv, ReceiveTopic, ReceiveImage, SkipImage, HandleFlashSale
    <2>2. CASE ReceiveTopic(t)
      BY <2>1, <2>2, StartStep DEF ReceiveTopic, States
    <2>3. CASE ReceiveImage(t)
      BY <2>1, <2>3, StartStep DEF ReceiveImage, States
    <2>4. CASE SkipImage(t)
      BY <2>1, <2>4, StartStep DEF SkipImage, States
    <2>5. CASE HandleFlashSale(t)
      BY <2>1, <2>5, StartStep DEF HandleFlashSale, States
    <2>6. QED
      BY <1>3, <2>2, <2>3, <2>4, <2>5
  <1>4. ASSUME NEW t \in Tasks, NEW p \in shown, RegeneratePost(t, p) \/ SendPostNow(t, p)
        PROVE  WizInv'
    <2>1. WizardTypeOK /\ Pressed
      BY <1>4 DEF WizInv, RegeneratePost, SendPostNow
    <2>2. CASE RegeneratePost(t, p)
      BY <2>1, <2>2, StartStep DEF RegeneratePost, States
    <2>3. CASE SendPostNow(t, p)
      BY <2>1, <2>3, StartStep DEF SendPostNow, States
    <2>4. QED
      BY <1>4, <2>2, <2>3
  <1>5. ASSUME NEW t \in Tasks,
               TaskFailed(t) \/ PreviewFailed(t) \/ NotPublished(t) \/ Reported(t) \/ FlashSaleOver(t)
        PROVE  WizInv'
    <2>1. CASE TaskFailed(t)
      BY <2>1, EndStep DEF TaskFailed
    <2>2. CASE PreviewFailed(t)
      BY <2>2, EndStep, UnshownStep DEF PreviewFailed
    <2>3. CASE NotPublished(t)
      BY <2>3, EndStep DEF NotPublished
    <2>4. CASE Reported(t)
      BY <2>4, EndStep DEF Reported, ClearState
    <2>5. CASE FlashSaleOver(t)
      BY <2>5, EndStep DEF FlashSaleOver
    <2>6. QED
      BY <1>5, <2>1, <2>2, <2>3, <2>4, <2>5
  <1>6. ASSUME NEW t \in Tasks,
               ShowPreview(t) \/ ImageFetched(t) \/ Published(t) \/ ReportFailed(t)
        PROVE  WizInv'
    BY <1>6, ShowStep, FetchedStep, PublishedStep, ReportFailedStep
  <1>7. ASSUME NEW t \in Tasks, NEW x \in Texts, TopicWritten(t, x) \/ Rewritten(t, x)
        PROVE  WizInv'
    BY <1>7, WrittenStep
  <1>8. CASE UNCHANGED wvars
    <2>1. WizardTypeOK' = WizardTypeOK
      BY <1>8 DEF wvars, WizardTypeOK
    <2>2. InTurn' = InTurn /\ alone' = alone
      BY <1>8 DEF wvars, InTurn, OneTask, Unsent, Carried, Seen
    <2>3. QED
      BY <2>1, <2>2 DEF WizInv
  <1>9. QED
    BY <1>1, <1>2, <1>3, <1>4, <1>5, <1>6, <1>7, <1>8 DEF WNext

\* The invariant of the wizard.
LEMMA AlwaysInTurn == WSpec => []WizInv
  BY WizardInit, WizardInvStep, PTL DEF WSpec

\* With any number of texts and handlers, a text goes out again only after a delivery of it
\* that was not told to the end, as long as the admin waits for each handler before pressing
\* again; the process may end at any time.
THEOREM SentOnceSafe == WSpec => []SentOnce
  <1>1. WizInv => SentOnce
    BY DEF WizInv, InTurn, Unsent, SentOnce
  <1>2. QED
    BY <1>1, AlwaysInTurn, PTL

\* ... and the text that goes out is the one in the preview that was shown last, or one whose
\* preview failed.
THEOREM LatestIsSentSafe == WSpec => []LatestIsSent
  <1>1. WizInv => LatestIsSent
    <2> SUFFICES ASSUME WizInv, alone, NEW t \in Tasks, task[t].at = "publish"
                 PROVE  task[t].with.text = latest \/ task[t].with.text \in unshown
      BY DEF LatestIsSent
    <2>1. \A o \in Tasks : task[o].at # "show"
      BY DEF WizInv, InTurn, OneTask
    <2>2. QED
      BY <2>1 DEF WizInv, InTurn, Carried, Seen
  <1>2. QED
    BY <1>1, AlwaysInTurn, PTL

----------------------------------------------------------------------------
(* The channels. *)

\* A channel has at most one row in a table.
Distinct(t) == \A q, r \in Rows : (t[q].of = t[r].of /\ t[q].of # NoChannel) => q = r

RowsTabled ==
    /\ row \in [Rows -> Row] /\ scan \in [Scans -> Scan] /\ apart \in BOOLEAN
    /\ \A s \in Scans : scan[s].at = "write" => scan[s].found # {}

\* As long as discoveries come one after the other, there is one of them, and what it has
\* read of the table is still so, but for the rows deactivated meanwhile.
Single == \A s, o \in Scans : (scan[s].at # "idle" /\ scan[o].at # "idle") => s = o

Current == \A s \in Scans : scan[s].at = "write" => \A r \in Rows : scan[s].loaded[r].of = row[r].of

Mirrored == mirror # {} => Channels({r \in Rows : row[r].active}, row) = mirror

Orderly == apart => (Distinct(row) /\ Single /\ Current /\ Mirrored)

\* Every variable the invariant needs keeps its type.
LEMMA RowsTabledStep ==
    ASSUME RowsTabled, [RNext]_rvars
    PROVE  RowsTabled'
  <1> USE DEF RowsTabled
  <1>1. \A s \in Scans : /\ scan[s].at \in {"idle", "dialogs", "write"}
                         /\ scan[s].todo \subseteq Broadcasts /\ scan[s].found \subseteq Broadcasts
                         /\ scan[s].loaded \in [Rows -> Row]
    BY DEF Scan
  <1>2. NoScan \in Scan /\ NoRow \in Row
    BY DEF NoScan, Scan, NoRow, Row
  <1>0. ASSUME NEW s \in Scans, NEW new \in Scan, new.at = "write" => new.found # {},
                scan' = [scan EXCEPT ![s] = new], row' \in [Rows -> Row], apart' \in BOOLEAN
         PROVE  RowsTabled'
    BY <1>0
  <1>3. ASSUME NEW s \in Scans,
               BeginScan(s) \/ ReadDialog(s) \/ ScanFailed(s) \/ EmptyScan(s)
        PROVE  RowsTabled'
    <2>1. PICK new : scan' = [scan EXCEPT ![s] = new] /\ new \in Scan /\ new.at # "write"
      <3>1. CASE BeginScan(s)
        <4> DEFINE new == [NoScan EXCEPT !.at = "dialogs", !.todo = Broadcasts]
        <4>1. scan' = [scan EXCEPT ![s] = new]
          BY <3>1 DEF BeginScan
        <4>2. new \in Scan /\ new.at # "write"
          BY <1>2 DEF NoScan, Scan
        <4>3. QED
          BY <4>1, <4>2
      <3>2. CASE ReadDialog(s)
        <4>1. PICK c \in scan[s].todo :
                  scan' = [scan EXCEPT ![s].todo = @ \ {c}, ![s].found = @ \cup ({c} \cap posting)]
          BY <3>2 DEF ReadDialog
        <4> DEFINE new == [scan[s] EXCEPT !.todo = @ \ {c}, !.found = @ \cup ({c} \cap posting)]
        <4>2. scan' = [scan EXCEPT ![s] = new] /\ new \in Scan /\ new.at # "write"
          BY <3>2, <4>1, <1>1 DEF ReadDialog, Scan
        <4>3. QED
          BY <4>2
      <3>3. CASE ScanFailed(s) \/ EmptyScan(s)
        BY <3>3, <1>2 DEF ScanFailed, EmptyScan, NoScan
      <3>4. QED
        BY <1>3, <3>1, <3>2, <3>3
    <2>2. UNCHANGED row /\ apart' \in BOOLEAN
      BY <1>3 DEF BeginScan, ReadDialog, ScanFailed, EmptyScan
    <2>3. QED
      BY <2>1, <2>2
  <1>4. ASSUME NEW s \in Scans, LoadRows(s)
        PROVE  RowsTabled'
    <2> DEFINE new == [scan[s] EXCEPT !.at = "write", !.loaded = row]
    <2>1. scan' = [scan EXCEPT ![s] = new] /\ new \in Scan /\ new.found # {}
      BY <1>4, <1>1 DEF LoadRows, Scan
    <2>2. UNCHANGED <<row, apart>>
      BY <1>4 DEF LoadRows
    <2> HIDE DEF new
    <2>3. QED
      BY <2>1, <2>2, <1>0
  <1>5. ASSUME NEW s \in Scans, WriteRows(s)
        PROVE  RowsTabled'
    <2>1. PICK R \in Records(s), new \in Injection(Missing(s), {r \in Rows : row[r] = NoRow}) :
              row' = [r \in Rows |->
                         IF r \in Range(new)
                         THEN [of |-> CHOOSE c \in Missing(s) : new[c] = r, active |-> TRUE]
                         ELSE IF r \in R /\ scan[s].loaded[r].active # Found(s, r)
                         THEN [row[r] EXCEPT !.active = Found(s, r)]
                         ELSE row[r]]
      BY <1>5 DEF WriteRows
    <2>2. ASSUME NEW r \in Rows
          PROVE  row'[r] \in Row
      <3>1. CASE r \in Range(new)
        <4>1. \E c \in Missing(s) : new[c] = r
          BY <3>1 DEF Range, Injection, IsInjective
        <4>2. (CHOOSE c \in Missing(s) : new[c] = r) \in Broadcasts
          BY <4>1, <1>1 DEF Missing
        <4>3. QED
          BY <2>1, <3>1, <4>2 DEF Row
      <3>2. CASE r \notin Range(new)
        <4>1. row[r] \in Row /\ Found(s, r) \in BOOLEAN
          BY DEF Found
        <4>2. [row[r] EXCEPT !.active = Found(s, r)] \in Row
          BY <4>1 DEF Row
        <4>3. QED
          BY <2>1, <3>2, <4>1, <4>2
      <3>3. QED
        BY <3>1, <3>2
    <2>3. row' \in [Rows -> Row]
      BY <2>1, <2>2
    <2>4. scan' = [scan EXCEPT ![s] = NoScan] /\ UNCHANGED apart
      BY <1>5 DEF WriteRows
    <2>5. NoScan \in Scan /\ NoScan.at # "write"
      BY <1>2 DEF NoScan
    <2>6. QED
      BY <2>3, <2>4, <2>5, <1>0
  <1>6. ASSUME NEW c \in Broadcasts, RightsChange(c) \/ PostRow(c)
        PROVE  RowsTabled'
    <2>1. CASE RightsChange(c)
      BY <2>1 DEF RightsChange
    <2>2. CASE PostRow(c)
      <3>1. PICK r \in Rows : row' = [row EXCEPT ![r] = [of |-> c, active |-> TRUE]]
        BY <2>2 DEF PostRow
      <3>2. [of |-> c, active |-> TRUE] \in Row
        BY DEF Row
      <3>3. UNCHANGED scan /\ apart' \in BOOLEAN
        BY <2>2 DEF PostRow
      <3>4. QED
        BY <3>1, <3>2, <3>3
    <2>3. QED
      BY <1>6, <2>1, <2>2
  <1>7. ASSUME NEW r \in Rows, DeleteRow(r)
        PROVE  RowsTabled'
    <2>1. [row[r] EXCEPT !.active = FALSE] \in Row
      BY DEF Row
    <2>2. QED
      BY <2>1, <1>7 DEF DeleteRow
  <1>8. CASE UNCHANGED rvars
    BY <1>8 DEF rvars
  <1>9. QED
    BY <1>3, <1>4, <1>5, <1>6, <1>7, <1>8 DEF RNext

\* A discovery that writes what it has found to the table it has read leaves one row for
\* each channel.
LEMMA WriteKeepsDistinct ==
    ASSUME RowsTabled, apart, Orderly, NEW s \in Scans, WriteRows(s)
    PROVE  Distinct(row')
  <1>1. PICK R \in Records(s), new \in Injection(Missing(s), {r \in Rows : row[r] = NoRow}) :
            row' = [r \in Rows |->
                       IF r \in Range(new)
                       THEN [of |-> CHOOSE c \in Missing(s) : new[c] = r, active |-> TRUE]
                       ELSE IF r \in R /\ scan[s].loaded[r].active # Found(s, r)
                       THEN [row[r] EXCEPT !.active = Found(s, r)]
                       ELSE row[r]]
    BY DEF WriteRows
  <1>2. \A r \in Rows : scan[s].loaded[r].of = row[r].of
    BY DEF Orderly, Current, WriteRows
  <1>3. ASSUME NEW r \in Range(new)
        PROVE  /\ row'[r].of \in Missing(s) /\ new[row'[r].of] = r
               /\ r \in Rows
    BY <1>1 DEF Range, Injection
  <1>4. ASSUME NEW r \in Rows, r \notin Range(new)
        PROVE  row'[r].of = row[r].of
    <2>1. row[r] \in Row
      BY DEF RowsTabled
    <2>2. [row[r] EXCEPT !.active = Found(s, r)].of = row[r].of
      BY <2>1 DEF Row
    <2>3. QED
      BY <1>1, <1>4, <2>2
  <1>5. ASSUME NEW r \in Rows, NEW q \in Range(new), row[r].of = row'[q].of, row[r].of # NoChannel
        PROVE  FALSE
    <2>1. row[r].of \in Channels(Rows, scan[s].loaded)
      BY <1>2, <1>5 DEF Channels
    <2>2. QED
      BY <1>3, <1>5, <2>1 DEF Missing
  <1>6. ASSUME NEW q \in Rows, NEW r \in Rows, row'[q].of = row'[r].of, row'[q].of # NoChannel
        PROVE  q = r
    <2>1. CASE q \in Range(new) /\ r \in Range(new)
      BY <1>3, <1>6, <2>1
    <2>2. CASE q \in Range(new) /\ r \notin Range(new)
      BY <1>4, <1>5, <1>6, <2>2
    <2>3. CASE q \notin Range(new) /\ r \in Range(new)
      BY <1>4, <1>5, <1>6, <2>3
    <2>4. CASE q \notin Range(new) /\ r \notin Range(new)
      BY <1>4, <1>6, <2>4 DEF Orderly, Distinct
    <2>5. QED
      BY <2>1, <2>2, <2>3, <2>4
  <1>7. QED
    BY <1>6 DEF Distinct

\* When the table is still what it was, the active rows are then those of the channels it
\* has found.
LEMMA WriteMirrors ==
    ASSUME RowsTabled, apart, Orderly, NEW s \in Scans, WriteRows(s)
    PROVE  Mirrored'
  <1> DEFINE t == scan[s].loaded
  <1>1. PICK R \in Records(s), new \in Injection(Missing(s), {r \in Rows : row[r] = NoRow}) :
            row' = [r \in Rows |->
                       IF r \in Range(new)
                       THEN [of |-> CHOOSE c \in Missing(s) : new[c] = r, active |-> TRUE]
                       ELSE IF r \in R /\ t[r].active # Found(s, r)
                       THEN [row[r] EXCEPT !.active = Found(s, r)]
                       ELSE row[r]]
    BY DEF WriteRows
  <1>2. SUFFICES ASSUME t = row
                 PROVE  Channels({r \in Rows : row[r].active}, row)' = scan[s].found
    BY DEF WriteRows, Mirrored
  <1>3. NoChannel \notin scan[s].found /\ \A r \in Rows : row[r].active \in BOOLEAN
    BY NoChannelIsNone DEF RowsTabled, Scan, Row
  <1>4. ASSUME NEW r \in Range(new)
        PROVE  /\ r \in Rows /\ row'[r].active
               /\ row'[r].of \in Missing(s) /\ new[row'[r].of] = r
    BY <1>1 DEF Range, Injection
  <1>5. ASSUME NEW r \in R, r \notin Range(new)
        PROVE  r \in Rows /\ row'[r].of = row[r].of /\ row'[r].active = Found(s, r)
    <2>1. r \in Rows
      BY DEF Records
    <2>2. row[r] \in Row
      BY <2>1 DEF RowsTabled
    <2>3. /\ [row[r] EXCEPT !.active = Found(s, r)].of = row[r].of
          /\ [row[r] EXCEPT !.active = Found(s, r)].active = Found(s, r)
      BY <2>2 DEF Row
    <2>4. QED
      BY <1>1, <1>2, <1>5, <2>1, <2>3
  <1>6. ASSUME NEW r \in Rows, r \notin R
        PROVE  row[r].of = NoChannel
    <2>1. SUFFICES ASSUME row[r].of # NoChannel
                   PROVE  FALSE
      OBVIOUS
    <2>2. row[r].of \in Channels(Rows, t)
      BY <1>2, <2>1 DEF Channels
    <2>3. row[r].of \in Channels(R, t) /\ R \subseteq Rows
      BY <2>2 DEF Records
    <2>4. PICK q \in R : row[q].of = row[r].of
      BY <1>2, <2>3 DEF Channels
    <2>5. QED
      BY <1>6, <2>1, <2>3, <2>4 DEF Orderly, Distinct
  <1>7. ASSUME NEW c \in scan[s].found
        PROVE  \E r \in Rows : row'[r].active /\ row'[r].of = c
    <2>1. CASE c \in Missing(s)
      <3>1. new[c] \in Range(new)
        BY <2>1 DEF Range, Injection
      <3>2. row'[new[c]].of = c
        BY <2>1, <3>1, <1>4 DEF Injection, IsInjective
      <3>3. QED
        BY <3>1, <3>2, <1>4
    <2>2. CASE c \notin Missing(s)
      <3>1. c \in Channels(R, t)
        BY <2>2 DEF Missing, Records
      <3>2. PICK r \in R : row[r].of = c
        BY <3>1, <1>2 DEF Channels
      <3>3. r \notin Range(new)
        <4>1. r \in Range(new) => row[r] = NoRow
          BY DEF Range, Injection
        <4>2. QED
          BY <4>1, <3>2, <1>3 DEF NoRow
      <3>4. Found(s, r)
        BY <3>2, <1>2 DEF Found
      <3>5. QED
        BY <3>2, <3>3, <3>4, <1>5
    <2>3. QED
      BY <2>1, <2>2
  <1>8. ASSUME NEW r \in Rows, row'[r].active, row'[r].of # NoChannel
        PROVE  row'[r].of \in scan[s].found
    <2>1. CASE r \in Range(new)
      BY <2>1, <1>4 DEF Missing
    <2>2. CASE r \notin Range(new) /\ r \in R
      BY <2>2, <1>5, <1>8, <1>2 DEF Found
    <2>3. CASE r \notin Range(new) /\ r \notin R
      BY <2>3, <1>1, <1>6, <1>8
    <2>4. QED
      BY <2>1, <2>2, <2>3
  <1>9. QED
    BY <1>3, <1>7, <1>8 DEF Channels

\* Every action keeps the invariant.
LEMMA OrderlyStep ==
    ASSUME RowsTabled, RowsTabled', Orderly, [RNext]_rvars
    PROVE  Orderly'
  <1> SUFFICES ASSUME apart'
               PROVE  (Distinct(row) /\ Single /\ Current /\ Mirrored)'
    BY DEF Orderly
  <1>1. CASE \E c \in Broadcasts : RightsChange(c)
    BY <1>1 DEF RightsChange, Orderly, Distinct, Single, Current, Mirrored, Channels
  <1>2. CASE \E c \in Broadcasts : PostRow(c)
    BY <1>2 DEF PostRow
  <1>3. ASSUME NEW s \in Scans, BeginScan(s)
        PROVE  (Distinct(row) /\ Single /\ Current /\ Mirrored)'
    <2>1. /\ apart /\ \A o \in Scans : scan[o].at = "idle"
          /\ UNCHANGED <<row, mirror>>
          /\ \A o \in Scans \ {s} : scan'[o] = scan[o]
          /\ scan'[s].at = "dialogs"
      BY <1>3 DEF BeginScan, NoScan, RowsTabled
    <2>2. QED
      BY <2>1 DEF Orderly, Distinct, Single, Current, Mirrored, Channels
  <1>4. ASSUME NEW s \in Scans, ReadDialog(s) \/ ScanFailed(s) \/ EmptyScan(s)
        PROVE  (Distinct(row) /\ Single /\ Current /\ Mirrored)'
    <2>1. /\ apart /\ scan[s].at # "idle"
          /\ UNCHANGED <<row, mirror>>
          /\ \A o \in Scans \ {s} : scan'[o] = scan[o]
      BY <1>4 DEF ReadDialog, ScanFailed, EmptyScan, RowsTabled
    <2>2. scan'[s].at # "write"
      <3>1. CASE ReadDialog(s)
        <4>1. PICK c \in scan[s].todo :
                  scan' = [scan EXCEPT ![s].todo = @ \ {c}, ![s].found = @ \cup ({c} \cap posting)]
          BY <3>1 DEF ReadDialog
        <4>2. scan[s] \in Scan /\ scan[s].at = "dialogs"
          BY <3>1 DEF ReadDialog, RowsTabled
        <4>3. scan'[s].at = scan[s].at
          BY <4>1, <4>2 DEF RowsTabled, Scan
        <4>4. QED
          BY <4>2, <4>3
      <3>2. CASE ScanFailed(s) \/ EmptyScan(s)
        <4>1. scan' = [scan EXCEPT ![s] = NoScan]
          BY <3>2 DEF ScanFailed, EmptyScan
        <4>2. NoScan.at = "idle"
          BY DEF NoScan
        <4>3. QED
          BY <4>1, <4>2 DEF RowsTabled
      <3>3. QED
        BY <1>4, <3>1, <3>2
    <2>3. QED
      BY <2>1, <2>2 DEF Orderly, Distinct, Single, Current, Mirrored, Channels
  <1>5. ASSUME NEW s \in Scans, LoadRows(s)
        PROVE  (Distinct(row) /\ Single /\ Current /\ Mirrored)'
    <2>1. /\ apart /\ scan[s].at # "idle"
          /\ UNCHANGED <<row, mirror>>
          /\ \A o \in Scans \ {s} : scan'[o] = scan[o]
          /\ scan'[s].loaded = row
      BY <1>5 DEF LoadRows, RowsTabled, Scan
    <2>2. QED
      BY <2>1 DEF Orderly, Distinct, Single, Current, Mirrored, Channels
  <1>6. ASSUME NEW s \in Scans, WriteRows(s)
        PROVE  (Distinct(row) /\ Single /\ Current /\ Mirrored)'
    <2>1. /\ apart /\ scan[s].at # "idle"
          /\ \A o \in Scans \ {s} : scan'[o] = scan[o]
          /\ scan'[s].at = "idle"
      BY <1>6 DEF WriteRows, RowsTabled, NoScan
    <2>2. Single' /\ Current'
      BY <2>1 DEF Orderly, Single, Current
    <2>3. Distinct(row')
      BY <1>6, <2>1, WriteKeepsDistinct
    <2>4. Mirrored'
      BY <1>6, <2>1, WriteMirrors
    <2>5. QED
      BY <2>2, <2>3, <2>4 DEF Distinct
  <1>7. ASSUME NEW r \in Rows, DeleteRow(r)
        PROVE  (Distinct(row) /\ Single /\ Current /\ Mirrored)'
    <2>1. /\ apart /\ mirror' = {} /\ UNCHANGED scan
          /\ \A q \in Rows : row'[q].of = row[q].of
      BY <1>7 DEF DeleteRow, RowsTabled, Row
    <2>2. QED
      BY <2>1 DEF Orderly, Distinct, Single, Current, Mirrored
  <1>8. CASE UNCHANGED rvars
    BY <1>8 DEF rvars, Orderly, Distinct, Single, Current, Mirrored, Channels
  <1>9. QED
    BY <1>1, <1>2, <1>3, <1>4, <1>5, <1>6, <1>7, <1>8 DEF RNext

\* The two together are an invariant.
LEMMA AlwaysOrderly == RSpec => [](RowsTabled /\ Orderly)
  <1>1. RInit => RowsTabled /\ Orderly
    BY DEF RInit, RowsTabled, Orderly, Distinct, Single, Current, Mirrored, NoRow, Row, NoScan, Scan
  <1>2. QED
    BY <1>1, RowsTabledStep, OrderlyStep, PTL DEF RSpec

\* Discoveries that come one after the other, with no row posted by hand, never leave two
\* rows for a channel.
THEOREM OneRowSafe == RSpec => []OneRowPerChannel
  <1>1. Orderly => OneRowPerChannel
    BY DEF Orderly, Distinct, OneRowPerChannel
  <1>2. QED
    BY <1>1, AlwaysOrderly, PTL

\* After such a discovery the active rows are those of the channels it has found.
THEOREM MirrorSafe == RSpec => []ScanIsMirrored
  <1>1. Orderly => ScanIsMirrored
    BY DEF Orderly, Mirrored, ScanIsMirrored
  <1>2. QED
    BY <1>1, AlwaysOrderly, PTL

\* What is posted to and what was found are channels: a discovery reads no others.
RegistryInv == RowsTabled /\ RegistryTypeOK

LEMMA RegistryInit == RInit => RegistryInv
  BY DEF RInit, RegistryInv, RegistryTypeOK, RowsTabled, NoRow, Row, NoScan, Scan

LEMMA RegistryInvStep == RegistryInv /\ [RNext]_rvars => RegistryInv'
  <1> SUFFICES ASSUME RegistryInv, [RNext]_rvars
               PROVE  RegistryInv'
    OBVIOUS
  <1>1. RowsTabled'
    BY RowsTabledStep DEF RegistryInv
  <1>2. posting' \subseteq Broadcasts
    <2>1. posting \subseteq Broadcasts
      BY DEF RegistryInv, RegistryTypeOK
    <2>2. CASE \E c \in Broadcasts : RightsChange(c)
      BY <2>1, <2>2 DEF RightsChange
    <2>3. CASE ~\E c \in Broadcasts : RightsChange(c)
      BY <2>1, <2>3 DEF RNext, rvars, PostRow, BeginScan, ReadDialog, ScanFailed, EmptyScan,
                        LoadRows, WriteRows, DeleteRow
    <2>4. QED
      BY <2>2, <2>3
  <1>3. mirror' \subseteq Broadcasts
    <2>1. mirror \subseteq Broadcasts /\ \A s \in Scans : scan[s].found \subseteq Broadcasts
      BY DEF RegistryInv, RegistryTypeOK, Scan
    <2>2. CASE \E s \in Scans : WriteRows(s)
      BY <2>1, <2>2 DEF WriteRows
    <2>3. CASE ~\E s \in Scans : WriteRows(s)
      BY <2>1, <2>3 DEF RNext, rvars, PostRow, BeginScan, ReadDialog, ScanFailed, EmptyScan,
                        LoadRows, RightsChange, DeleteRow
    <2>4. QED
      BY <2>2, <2>3
  <1>4. QED
    BY <1>1, <1>2, <1>3 DEF RegistryInv, RegistryTypeOK, RowsTabled

----------------------------------------------------------------------------
(* The three parts together. *)

PanelInv == PoolInv /\ WizInv /\ RegistryInv

\* Whichever part of the panel is used, every variable of the three keeps its type.
THEOREM PanelTyped == PanelSpec => []PanelTypeOK
  <1>1. PanelInit => PanelInv
    BY PoolInit, WizardInit, RegistryInit DEF PanelInit, PanelInv
  <1>2. PanelInv /\ [PanelNext]_panel => PanelInv'
    <2> SUFFICES ASSUME PanelInv, [PanelNext]_panel
                 PROVE  PanelInv'
      OBVIOUS
    <2>1. [PNext]_pvars /\ [WNext]_wvars /\ [RNext]_rvars
      BY DEF PanelNext, panel
    <2>2. QED
      BY <2>1, PoolInvStep, WizardInvStep, RegistryInvStep DEF PanelInv
  <1>3. PanelInv => PanelTypeOK
    BY DEF PanelInv, PanelTypeOK, PoolInv, WizInv, RegistryInv
  <1>4. QED
    BY <1>1, <1>2, <1>3, PTL DEF PanelSpec

================================================================================
