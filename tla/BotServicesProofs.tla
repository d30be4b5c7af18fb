--------------------------- MODULE BotServicesProofs ---------------------------
(***************************************************************************)
(* The userbot manager, for any number of accounts, client objects, taps   *)
(* and loops, and the AI engine, for any number of calls under way and any *)
(* length of the cooldown.                                                 *)
(***************************************************************************)
EXTENDS BotServicesMC, FiniteSetTheorems, TLAPS

----------------------------------------------------------------------------
(* The clients as objects *)

\* The clients are as before, except for the flag and the link of o.
Relinking(new, obj, o, flag, link) ==
    /\ new \in [Objects -> Object]
    /\ \A p \in Objects : new[p].acct = obj[p].acct /\ new[p].wired = obj[p].wired
    /\ \A p \in Objects : p # o => new[p] = obj[p]
    /\ o \in Objects => new[o].flag = flag /\ new[o].link = link

\* What the steps do that write the link and the flag of a client.
LEMMA LinksDoNotMatter ==
    ASSUME NEW obj \in [Objects -> Object], NEW o, NEW link \in BOOLEAN
    PROVE  /\ Relinking([obj EXCEPT ![o].link = link], obj, o, obj[o].flag, link)
           /\ \A flag \in BOOLEAN :
                 /\ Relinking([obj EXCEPT ![o].flag = flag, ![o].link = link], obj, o, flag, link)
                 /\ Relinking([obj EXCEPT ![o].link = link, ![o].flag = flag], obj, o, flag, link)
  <1>1. CASE o \notin Objects
    BY <1>1 DEF Relinking
  <1>2. ASSUME o \in Objects, NEW r \in Object,
               r.acct = obj[o].acct, r.wired = obj[o].wired
        PROVE  Relinking([obj EXCEPT ![o] = r], obj, o, r.flag, r.link)
    BY <1>2 DEF Relinking
  <1>3. CASE o \in Objects
    <2> SUFFICES ASSUME NEW flag \in BOOLEAN
                 PROVE  /\ Relinking([obj EXCEPT ![o].link = link], obj, o, obj[o].flag, link)
                        /\ Relinking([obj EXCEPT ![o].flag = flag, ![o].link = link], obj, o, flag, link)
                        /\ Relinking([obj EXCEPT ![o].link = link, ![o].flag = flag], obj, o, flag, link)
      OBVIOUS
    <2>1. obj[o] \in Object
      BY <1>3
    <2> DEFINE r == [obj[o] EXCEPT !.link = link]
               q == [obj[o] EXCEPT !.flag = flag, !.link = link]
    <2>2. /\ r \in Object /\ r.acct = obj[o].acct /\ r.wired = obj[o].wired
          /\ r.flag = obj[o].flag /\ r.link = link
          /\ q \in Object /\ q.acct = obj[o].acct /\ q.wired = obj[o].wired
          /\ q.flag = flag /\ q.link = link
      BY <2>1 DEF Object
    <2>3. /\ [obj EXCEPT ![o].link = link] = [obj EXCEPT ![o] = r]
          /\ [obj EXCEPT ![o].flag = flag, ![o].link = link] = [obj EXCEPT ![o] = q]
          /\ [obj EXCEPT ![o].link = link, ![o].flag = flag] = [obj EXCEPT ![o] = q]
      BY <1>3, <2>1 DEF Object
    <2> HIDE DEF r, q
    <2>4. QED
      BY <1>2, <1>3, <2>2, <2>3
  <1>4. QED
    BY <1>1, <1>3

\* Neither do the handlers concern the link, the flag or the account.
LEMMA HandlersDoNotMatter ==
    ASSUME NEW obj \in [Objects -> Object], NEW o, Wire(o, obj)
    PROVE  /\ object' \in [Objects -> Object]
           /\ \A p \in Objects : /\ object'[p].acct = obj[p].acct
                                 /\ object'[p].flag = obj[p].flag /\ object'[p].link = obj[p].link
  <1>1. CASE obj[o].acct \in registered \/ o \notin Objects
    BY <1>1 DEF Wire
  <1>2. CASE obj[o].acct \notin registered /\ o \in Objects
    <2> DEFINE r == [obj[o] EXCEPT !.wired = IF @ < 2 THEN @ + 1 ELSE @]
    <2>1. obj[o] \in Object
      BY <1>2
    <2>2. r \in Object /\ r.acct = obj[o].acct /\ r.flag = obj[o].flag /\ r.link = obj[o].link
      BY <2>1 DEF Object
    <2>3. object' = [obj EXCEPT ![o] = r]
      BY <1>2, <2>1 DEF Wire
    <2> HIDE DEF r
    <2>4. QED
      BY <1>2, <2>2, <2>3
  <1>3. QED
    BY <1>1, <1>2

----------------------------------------------------------------------------
(* Types *)

\* ManagerTypeOK is not inductive: it does not say that a client which a job or a health task
\* works on was made for an account, nor that a health task reconnects no client it gave up.
Working ==
    /\ \A j \in Jobs : job[j].at = "connect" =>
          job[j].obj \in Objects /\ object[job[j].obj].acct \in Accounts
    /\ \A l \in Loops : health[l].at \in {"connect", "linked"} =>
          /\ health[l].obj \in Objects /\ object[health[l].obj].acct \in Accounts
          /\ health[l].fails < MaxFailures
    /\ \A l \in Loops : \A p \in health[l].todo : object[p[2]].acct = p[1]

ManagerTyping == ManagerTypeOK /\ Working

\* The table of clients has no more clients than there are accounts.
LEMMA SizeOfTable == Mapped \subseteq Accounts /\ Cardinality(Mapped) \in 0..Cardinality(Accounts)
  <1>1. Mapped \subseteq Accounts
    BY DEF Mapped
  <1>2. IsFiniteSet(Mapped) /\ Cardinality(Mapped) <= Cardinality(Accounts)
    BY <1>1, ManagerAssumption, FS_Subset
  <1>3. Cardinality(Mapped) \in Nat /\ Cardinality(Accounts) \in Nat
    BY <1>2, ManagerAssumption, FS_CardinalityType
  <1>4. QED
    BY <1>1, <1>2, <1>3

\* What a stop writes: the job, and the end of the loops created last.
LEMMA StopTyped ==
    ASSUME ManagerTyping, NEW j \in Jobs, NEW op \in {"stop", "restart"}, BeginStop(j, op)
    PROVE  /\ job' \in [Jobs -> Job] /\ health' \in [Loops -> Health] /\ keepers' \subseteq keepers
           /\ job'[j] = [Idle EXCEPT !.at = "stop", !.op = op, !.todo = Mapped,
                                     !.size = Cardinality(Mapped)]
           /\ \A k \in Jobs : k # j => job'[k] = job[k]
           /\ \A l \in Loops : l # task => health'[l] = health[l]
           /\ task \in Loops => health'[task] = NoTask /\ task \notin keepers'
  <1>1. [Idle EXCEPT !.at = "stop", !.op = op, !.todo = Mapped, !.size = Cardinality(Mapped)] \in Job
    BY SizeOfTable DEF Idle, Job
  <1>2. NoTask \in Health
    BY DEF NoTask, Health, MaxFailures
  <1>3. QED
    BY <1>1, <1>2, ManagerAssumption DEF BeginStop, CancelLoops, ManagerTyping, ManagerTypeOK

LEMMA ManagerTypeStep ==
    ASSUME ManagerTyping, [MNext]_mvars
    PROVE  ManagerTyping'
  <1> USE DEF ManagerTyping, ManagerTypeOK
  <1>a. /\ Idle \in Job /\ NoTask \in Health /\ Idle.at = "idle" /\ NoTask.at = "none" /\ NoTask.todo = {}
    <2>1. Cardinality(Accounts) \in Nat
      BY ManagerAssumption, FS_CardinalityType
    <2>2. QED
      BY <2>1 DEF Idle, Job, NoTask, Health, MaxFailures
  \* Clients change, but not the accounts they are for.
  <1>b. ASSUME object' \in [Objects -> Object],
               \A o \in Objects : object'[o].acct = object[o].acct,
               UNCHANGED <<rows, clients, failures, registered, running, task, keepers>>,
               entangled' \in BOOLEAN,
               job' \in [Jobs -> Job], health' \in [Loops -> Health],
               \A j \in Jobs : job'[j].at = "connect" => job[j].at = "connect" /\ job'[j].obj = job[j].obj,
               \A l \in Loops : health'[l].at \in {"connect", "linked"} =>
                   /\ health[l].at \in {"connect", "linked"} /\ health'[l].obj = health[l].obj
                   /\ health'[l].fails = health[l].fails,
               \A l \in Loops : health'[l].todo \subseteq health[l].todo
        PROVE  ManagerTyping'
    <2>1. Mapped' = Mapped
      BY <1>b DEF Mapped
    <2>2. \A a \in Mapped : clients[a] \in Objects
      BY DEF Mapped
    <2>3. Working'
      <3>1. \A l \in Loops : \A p \in health'[l].todo : object'[p[2]].acct = p[1]
        BY <1>b DEF Working, Health
      <3>2. QED
        BY <1>b, <3>1 DEF Working
    <2>4. QED
      BY <1>b, <2>1, <2>2, <2>3 DEF rows
  <1>1. ASSUME NEW a \in Accounts, Toggle(a)
        PROVE  ManagerTyping'
    BY <1>1 DEF Toggle, manager, Working, Mapped
  \* A client is created by job j for a: it is no client that anybody works on.
  <1>c. ASSUME NEW j \in Jobs, NEW a \in Accounts, NEW todo \in SUBSET Accounts,
               NEW op \in {"stop", "restart", "add"}, Dial(j, a, todo, op),
               UNCHANGED <<manager, health, keepers>>,
               active' \subseteq known', authed' \subseteq known', known' \subseteq Accounts,
               entangled' \in BOOLEAN
        PROVE  ManagerTyping'
    <2>0. PICK o \in Free :
              /\ object' = [object EXCEPT ![o] = Fresh(a)]
              /\ job' = [job EXCEPT ![j] = [Idle EXCEPT !.at = "connect", !.op = op, !.todo = todo,
                                                        !.obj = o]]
      BY <1>c DEF Dial
    <2>1. /\ o \in Objects /\ Fresh(a) \in Object /\ object' \in [Objects -> Object]
          /\ object' = [object EXCEPT ![o] = Fresh(a)]
      BY <2>0 DEF Free, Fresh, Object
    <2> DEFINE r == [Idle EXCEPT !.at = "connect", !.op = op, !.todo = todo, !.obj = o]
    <2>2. r \in Job /\ r.at = "connect" /\ r.obj = o
      BY <1>c, <2>1, <1>a DEF Idle, Job
    <2>3. job' = [job EXCEPT ![j] = r]
      BY <2>0
    <2> HIDE DEF r
    <2>4. object'[o].acct = a /\ \A p \in Objects : p # o => object'[p] = object[p]
      BY <2>1 DEF Fresh
    <2>5. \A b \in Mapped : clients[b] \in Objects /\ clients[b] # o
      BY <2>1 DEF Free, Mapped
    <2>6. Mapped' = Mapped
      BY <1>c DEF Mapped, manager
    <2>7. \A k \in Jobs : k # j => job'[k] = job[k] /\ job[k].obj # o
      BY <2>0 DEF Free
    <2>8. \A l \in Loops : health[l].obj # o
      BY <2>1 DEF Free
    <2>9. Working'
      <3>1. \A k \in Jobs : job'[k].at = "connect" =>
                job'[k].obj \in Objects /\ object'[job'[k].obj].acct \in Accounts
        <4> TAKE k \in Jobs
        <4>1. CASE k = j
          BY <1>c, <2>2, <2>3, <2>4, <4>1, <2>1
        <4>2. CASE k # j
          BY <2>4, <2>7, <4>2 DEF Working
        <4>3. QED
          BY <4>1, <4>2
      <3>2. \A l \in Loops : \A p \in health[l].todo : p[2] \in Objects /\ p[2] # o
        BY <2>1 DEF Free, Health
      <3>3. \A l \in Loops : \A p \in health'[l].todo : object'[p[2]].acct = p[1]
        BY <1>c, <2>4, <3>2 DEF Working
      <3>4. QED
        BY <1>c, <2>4, <2>8, <3>1, <3>3 DEF Working
    <2>10. job' \in [Jobs -> Job]
      BY <2>2, <2>3
    <2>11. QED
      BY <1>c, <2>1, <2>4, <2>5, <2>6, <2>9, <2>10 DEF manager
  <1>2. ASSUME NEW j \in Jobs, NEW a \in Accounts, PostAccount(j, a)
        PROVE  ManagerTyping'
    <2>1. active' \subseteq known' /\ known' \subseteq Accounts /\ UNCHANGED <<manager, health, keepers>>
      BY <1>2 DEF PostAccount
    <2>2. CASE UNCHANGED <<authed, object, job, entangled>>
      BY <1>2, <2>1, <2>2 DEF PostAccount, manager, Working, Mapped
    <2>3. CASE authed' = authed \cup {a} /\ Dial(j, a, {}, "add") /\ entangled' \in BOOLEAN
      <3>1. authed' \subseteq known'
        BY <1>2, <2>3 DEF PostAccount
      <3>2. QED
        BY <1>c, <2>1, <2>3, <3>1
    <2>4. QED
      BY <1>2, <2>2, <2>3 DEF PostAccount
  <1>3. ASSUME NEW j \in Jobs, NEW op \in {"stop", "restart"}, BeginStop(j, op)
        PROVE  ManagerTyping'
    <2>1. /\ job' \in [Jobs -> Job] /\ health' \in [Loops -> Health] /\ keepers' \subseteq keepers
          /\ job'[j] = [Idle EXCEPT !.at = "stop", !.op = op, !.todo = Mapped,
                                     !.size = Cardinality(Mapped)]
          /\ \A k \in Jobs : k # j => job'[k] = job[k]
          /\ \A l \in Loops : l # task => health'[l] = health[l]
          /\ task \in Loops => health'[task] = NoTask /\ task \notin keepers'
      BY <1>3, StopTyped
    <2>2. job'[j].at = "stop"
      BY <2>1 DEF Idle
    <2>3. /\ UNCHANGED <<rows, object, clients, failures, registered, task>>
          /\ running' = FALSE /\ entangled' \in BOOLEAN
      BY <1>3 DEF BeginStop, Entangle
    <2>4. \A l \in Loops : health'[l] = health[l] \/ health'[l] = NoTask
      BY <2>1
    <2>5. Working'
      BY <2>1, <2>2, <2>3, <2>4, <1>a DEF Working
    <2>6. QED
      BY <2>1, <2>3, <2>5 DEF Mapped, rows
  <1>4. ASSUME NEW j \in Calls, TapStart(j) \/ TapStop(j) \/ TapRestart(j)
        PROVE  ManagerTyping'
    <2>1. j \in Jobs
      BY DEF Jobs
    <2>2. CASE BeginStop(j, "stop") \/ BeginStop(j, "restart")
      BY <1>3, <2>1, <2>2
    <2>3. CASE /\ ~running /\ running' = TRUE /\ Entangle
               /\ job' = [job EXCEPT ![j] = [Idle EXCEPT !.at = "load", !.op = "restart"]]
               /\ UNCHANGED <<rows, object, clients, failures, registered, task, health, keepers>>
      <3>1. [Idle EXCEPT !.at = "load", !.op = "restart"] \in Job
        BY <1>a DEF Idle, Job
      <3>2. job' \in [Jobs -> Job] /\ \A k \in Jobs : job'[k].at = "connect" => job'[k] = job[k]
        BY <2>3, <3>1 DEF Idle
      <3>3. QED
        BY <2>3, <3>2 DEF Mapped, Working, Entangle, rows
    <2>4. QED
      BY <1>4, <2>2, <2>3 DEF TapStart, TapStop, TapRestart
  \* Only the job goes on, or ends.
  <1>d. ASSUME NEW j \in Jobs, NEW r \in Job, job' = [job EXCEPT ![j] = r],
               r.at = "connect" => r = job[j],
               object' \in [Objects -> Object],
               \A o \in Objects : object'[o].acct = object[o].acct,
               UNCHANGED <<rows, manager, health, keepers, entangled>>
        PROVE  ManagerTyping'
    BY <1>b, <1>d DEF manager
  <1>5. ASSUME NEW j \in Jobs, StopOne(j)
        PROVE  ManagerTyping'
    <2>1. PICK a \in Linked(j) :
              /\ object' = [object EXCEPT ![clients[a]].link = FALSE, ![clients[a]].flag = FALSE]
              /\ job' = [job EXCEPT ![j].todo = @ \ {a}]
      BY <1>5 DEF StopOne
    <2>2. /\ object' \in [Objects -> Object]
          /\ \A p \in Objects : object'[p].acct = object[p].acct
      <3>1. Relinking(object', object, clients[a], FALSE, FALSE)
        BY <2>1, LinksDoNotMatter
      <3>2. QED
        BY <3>1 DEF Relinking
    <2> DEFINE r == [job[j] EXCEPT !.todo = @ \ {a}]
    <2>3. job[j] \in Job /\ job[j].at = "stop"
      BY <1>5 DEF StopOne
    <2>4. r \in Job /\ r.at = "stop"
      BY <2>3 DEF Job
    <2>5. job' = [job EXCEPT ![j] = r]
      BY <2>1
    <2> HIDE DEF r
    <2>6. QED
      BY <1>5, <1>d, <2>2, <2>4, <2>5 DEF StopOne
  <1>6. ASSUME NEW j \in Jobs, StopDone(j)
        PROVE  ManagerTyping'
    <2> DEFINE r == IF job[j].op = "restart" THEN [Idle EXCEPT !.at = "load", !.op = "restart"] ELSE Idle
    <2>1. r \in Job /\ r.at # "connect"
      BY <1>a DEF Idle, Job
    <2>2. job' = [job EXCEPT ![j] = r]
      BY <1>6 DEF StopDone
    <2> HIDE DEF r
    <2>3. Mapped' = {} /\ clients' \in [Accounts -> Objects \cup {None}]
      BY <1>6 DEF StopDone, Mapped
    <2>4. failures' \in [Accounts -> 0..MaxFailures]
      BY <1>6 DEF StopDone, MaxFailures
    <2>5. Working'
      BY <1>6, <2>1, <2>2 DEF StopDone, Working
    <2>6. QED
      BY <1>6, <2>1, <2>2, <2>3, <2>4, <2>5 DEF StopDone, rows
  <1>7. ASSUME NEW j \in Jobs, StopBroken(j) \/ Aborted(j)
        PROVE  ManagerTyping'
    BY <1>7, <1>a, <1>d DEF StopBroken, Aborted
  <1>8. ASSUME NEW j \in Jobs, AddNext(j)
        PROVE  ManagerTyping'
    <2>1. PICK a \in Left(j) \cap authed : Dial(j, a, Left(j) \ {a}, job[j].op)
      BY <1>8 DEF AddNext
    <2>2. a \in Accounts /\ Left(j) \ {a} \in SUBSET Accounts /\ job[j].op \in {"stop", "restart", "add"}
      BY DEF Left, Job
    <2>3. QED
      BY <1>8, <1>c, <2>1, <2>2 DEF AddNext, rows
  <1>9. ASSUME NEW j \in Jobs, StartDone(j)
        PROVE  ManagerTyping'
    <2>1. job' \in [Jobs -> Job] /\ \A k \in Jobs : job'[k].at = "connect" => job'[k] = job[k]
      BY <1>9, <1>a DEF StartDone
    <2>2. /\ health' \in [Loops -> Health] /\ keepers' \subseteq Loops /\ task' \in Loops \cup {None}
          /\ \A l \in Loops : \/ health'[l] = health[l]
                              \/ health'[l].at = "sleep" /\ health'[l].todo = {}
      <3>1. CASE UNCHANGED <<health, keepers, task>>
        BY <3>1
      <3>2. CASE \E l \in Loops : /\ health' = [health EXCEPT ![l] = [NoTask EXCEPT !.at = "sleep"]]
                                 /\ keepers' = keepers \cup {l} /\ task' = l
        <4>1. /\ [NoTask EXCEPT !.at = "sleep"] \in Health
              /\ [NoTask EXCEPT !.at = "sleep"].at = "sleep" /\ [NoTask EXCEPT !.at = "sleep"].todo = {}
          BY <1>a DEF NoTask, Health
        <4>2. QED
          BY <3>2, <4>1
      <3>3. QED
        BY <1>9, <3>1, <3>2 DEF StartDone
    <2>3. UNCHANGED <<rows, object, clients, failures, registered, running, entangled>>
      BY <1>9 DEF StartDone
    <2>4. QED
      BY <2>1, <2>2, <2>3 DEF Working, Mapped, rows
  <1>10. ASSUME NEW j \in Jobs, Added(j)
         PROVE  ManagerTyping'
    <2> DEFINE o == job[j].obj
               a == object[o].acct
               obj == [object EXCEPT ![o].flag = TRUE, ![o].link = TRUE]
               r == [job[j] EXCEPT !.at = "settle", !.obj = None]
    <2>1. o \in Objects /\ a \in Accounts
      BY <1>10 DEF Added, Working
    <2>2. obj \in [Objects -> Object] /\ \A p \in Objects : obj[p].acct = object[p].acct
      <3>1. Relinking(obj, object, o, TRUE, TRUE)
        BY LinksDoNotMatter
      <3>2. QED
        BY <3>1 DEF Relinking
    <2>3. Wire(o, obj)
      BY <1>10 DEF Added
    <2>4. clients' = [clients EXCEPT ![a] = o] /\ failures' = [failures EXCEPT ![a] = 0]
      BY <1>10 DEF Added
    <2>5. r \in Job /\ r.at = "settle"
      BY <1>10 DEF Added, Job
    <2>6. job' = [job EXCEPT ![j] = r]
      BY <1>10 DEF Added, Job
    <2>7. registered' = registered \cup {obj[o].acct}
      BY <2>3 DEF Wire
    <2> HIDE DEF r, obj
    <2>8. object' \in [Objects -> Object] /\ \A p \in Objects : object'[p].acct = object[p].acct
      BY <2>2, <2>3, HandlersDoNotMatter
    <2>9. /\ clients' \in [Accounts -> Objects \cup {None}] /\ failures' \in [Accounts -> 0..MaxFailures]
          /\ registered' \subseteq Accounts
      BY <2>1, <2>2, <2>4, <2>7 DEF MaxFailures
    <2>10. \A b \in Mapped' : object'[clients'[b]].acct = b
      BY <2>1, <2>4, <2>8 DEF Mapped
    <2>11. /\ UNCHANGED <<rows, running, task, health, keepers, entangled>>
      BY <1>10 DEF Added
    <2>12. Working'
      <3>1. \A l \in Loops : \A p \in health'[l].todo : object'[p[2]].acct = p[1]
        BY <2>8, <2>11 DEF Working, Health
      <3>2. QED
        BY <2>5, <2>6, <2>8, <2>11, <3>1 DEF Working
    <2>13. QED
      BY <2>5, <2>6, <2>8, <2>9, <2>10, <2>11, <2>12 DEF rows
  <1>11. ASSUME NEW j \in Jobs, NotAdded(j)
         PROVE  ManagerTyping'
    <2>1. \/ object' = [object EXCEPT ![job[j].obj].link = TRUE]
          \/ object' = [object EXCEPT ![job[j].obj].link = FALSE]
      BY <1>11 DEF NotAdded
    <2>4. object' \in [Objects -> Object] /\ \A p \in Objects : object'[p].acct = object[p].acct
      <3> DEFINE o == job[j].obj
      <3>0. \/ object' = [object EXCEPT ![o].link = TRUE]
            \/ object' = [object EXCEPT ![o].link = FALSE]
        BY <2>1
      <3> HIDE DEF o
      <3>1. \/ Relinking(object', object, o, object[o].flag, TRUE)
            \/ Relinking(object', object, o, object[o].flag, FALSE)
        <4>1. /\ Relinking([object EXCEPT ![o].link = TRUE], object, o, object[o].flag, TRUE)
              /\ Relinking([object EXCEPT ![o].link = FALSE], object, o, object[o].flag, FALSE)
          BY LinksDoNotMatter
        <4>2. QED
          BY <3>0, <4>1
      <3>2. QED
        BY <3>1 DEF Relinking
    <2> DEFINE r == [job[j] EXCEPT !.at = "settle", !.obj = None]
    <2>5. r \in Job /\ r.at = "settle"
      BY <1>11 DEF NotAdded, Job
    <2>6. job' = [job EXCEPT ![j] = r]
      BY <1>11 DEF NotAdded, Job
    <2> HIDE DEF r
    <2>7. QED
      BY <1>11, <1>d, <2>4, <2>5, <2>6 DEF NotAdded
  <1>12. ASSUME NEW o \in Objects, LinkLost(o)
         PROVE  ManagerTyping'
    <2>2. object' \in [Objects -> Object] /\ \A p \in Objects : object'[p].acct = object[p].acct
      <3>1. Relinking(object', object, o, object[o].flag, FALSE)
        BY <1>12, LinksDoNotMatter DEF LinkLost
      <3>2. QED
        BY <3>1 DEF Relinking
    <2>3. QED
      BY <1>12, <1>b, <2>2 DEF LinkLost, manager
  \* Only the round of a health task goes on, or ends.
  <1>e. ASSUME NEW l \in Loops, NEW r \in Health, health' = [health EXCEPT ![l] = r],
               r.at \in {"connect", "linked"} =>
                   /\ r.obj \in Objects /\ object[r.obj].acct \in Accounts /\ r.fails < MaxFailures,
               \A p \in r.todo : object[p[2]].acct = p[1],
               object' \in [Objects -> Object],
               \A o \in Objects : object'[o].acct = object[o].acct,
               UNCHANGED <<rows, clients, running, task, keepers, job, entangled>>,
               registered' \subseteq Accounts, failures' \in [Accounts -> 0..MaxFailures]
        PROVE  ManagerTyping'
    <2>1. Mapped' = Mapped /\ \A a \in Mapped : clients[a] \in Objects
      BY <1>e DEF Mapped
    <2>2. Working'
      <3>1. \A m \in Loops : \A p \in health'[m].todo : object'[p[2]].acct = p[1]
        BY <1>e DEF Working, Health
      <3>2. QED
        BY <1>e, <3>1 DEF Working
    <2>3. QED
      BY <1>e, <2>1, <2>2 DEF rows
  <1>13. ASSUME NEW l \in Loops, CheckNext(l)
         PROVE  ManagerTyping'
    <2>1. PICK p \in Down(l) :
           health' = [health EXCEPT ![l] =
               IF GivenUp(p[1])
               THEN [NoTask EXCEPT !.at = "alert", !.todo = Down(l) \ {p}]
               ELSE [at |-> "connect", todo |-> Down(l) \ {p}, obj |-> p[2], fails |-> failures[p[1]]]]
      BY <1>13 DEF CheckNext
    <2>2. Down(l) \subseteq Accounts \X Objects /\ \A q \in Down(l) : object[q[2]].acct = q[1]
      <3>1. CASE health[l].at = "sleep"
        BY <3>1 DEF Down, Mapped
      <3>2. CASE health[l].at # "sleep"
        BY <3>2 DEF Down, Health, Working
      <3>3. QED
        BY <3>1, <3>2
    <2>3. p[1] \in Accounts /\ p[2] \in Objects
      BY <2>1, <2>2
    <2>4. CASE GivenUp(p[1])
      <3> DEFINE r == [NoTask EXCEPT !.at = "alert", !.todo = Down(l) \ {p}]
      <3>1. r \in Health /\ r.at = "alert" /\ \A q \in r.todo : object[q[2]].acct = q[1]
        BY <2>2, <1>a DEF NoTask, Health
      <3>2. health' = [health EXCEPT ![l] = r]
        BY <2>1, <2>4
      <3> HIDE DEF r
      <3>3. QED
        BY <1>13, <1>e, <3>1, <3>2 DEF CheckNext, manager
    <2>5. CASE ~GivenUp(p[1])
      <3> DEFINE r == [at |-> "connect", todo |-> Down(l) \ {p}, obj |-> p[2], fails |-> failures[p[1]]]
      <3>1. failures[p[1]] \in 0..MaxFailures /\ failures[p[1]] < MaxFailures
        BY <2>3, <2>5 DEF GivenUp, MaxFailures
      <3>2. r \in Health /\ r.obj = p[2] /\ r.fails = failures[p[1]]
        BY <2>2, <2>3, <3>1 DEF Health
      <3>3. health' = [health EXCEPT ![l] = r]
        BY <2>1, <2>5
      <3>4. object[p[2]].acct \in Accounts /\ \A q \in r.todo : object[q[2]].acct = q[1]
        BY <2>1, <2>2, <2>3
      <3> HIDE DEF r
      <3>5. QED
        BY <1>13, <1>e, <2>3, <3>1, <3>2, <3>3, <3>4 DEF CheckNext, manager
    <2>6. QED
      BY <2>4, <2>5
  \* The round stays where it is, or ends, or goes on without its client.
  <1>f. ASSUME NEW l \in Loops, NEW r \in {[NoTask EXCEPT !.at = "sleep"], NoTask},
               health' = [health EXCEPT ![l] = r],
               UNCHANGED <<rows, object, manager, keepers, job, entangled>>
        PROVE  ManagerTyping'
    <2>1. r \in Health /\ r.at \notin {"connect", "linked"} /\ r.todo = {}
      BY <1>f, <1>a DEF NoTask, Health
    <2>2. QED
      BY <1>e, <1>f, <2>1 DEF manager
  <1>14. ASSUME NEW l \in Loops, RoundOver(l) \/ HealthDies(l)
         PROVE  ManagerTyping'
    BY <1>14, <1>f DEF RoundOver, HealthDies
  <1>15. ASSUME NEW l \in Loops, AttemptFailed(l)
         PROVE  ManagerTyping'
    <2>1. \/ object' = [object EXCEPT ![health[l].obj].link = TRUE]
          \/ object' = [object EXCEPT ![health[l].obj].link = FALSE]
      BY <1>15 DEF AttemptFailed
    <2>3. object' \in [Objects -> Object] /\ \A p \in Objects : object'[p].acct = object[p].acct
      <3> DEFINE o == health[l].obj
      <3>0. \/ object' = [object EXCEPT ![o].link = TRUE]
            \/ object' = [object EXCEPT ![o].link = FALSE]
        BY <2>1
      <3> HIDE DEF o
      <3>1. \/ Relinking(object', object, o, object[o].flag, TRUE)
            \/ Relinking(object', object, o, object[o].flag, FALSE)
        <4>1. /\ Relinking([object EXCEPT ![o].link = TRUE], object, o, object[o].flag, TRUE)
              /\ Relinking([object EXCEPT ![o].link = FALSE], object, o, object[o].flag, FALSE)
          BY LinksDoNotMatter
        <4>2. QED
          BY <3>0, <4>1
      <3>2. QED
        BY <3>1 DEF Relinking
    <2>4. QED
      BY <1>15, <1>b, <2>3 DEF AttemptFailed, manager
  <1>16. ASSUME NEW l \in Loops, Relinked(l) \/ RelinkUnseen(l)
         PROVE  ManagerTyping'
    <2>1. object' \in [Objects -> Object] /\ \A p \in Objects : object'[p].acct = object[p].acct
      <3>1. CASE Relinked(l)
        <4>1. Relinking(object', object, health[l].obj, TRUE, TRUE)
          BY <3>1, LinksDoNotMatter DEF Relinked
        <4>2. QED
          BY <4>1 DEF Relinking
      <3>2. CASE RelinkUnseen(l)
        BY <3>2 DEF RelinkUnseen
      <3>3. QED
        BY <1>16, <3>1, <3>2
    <2>2. PICK at \in {"linked", "connect"} : health' = [health EXCEPT ![l] = [@ EXCEPT !.at = at]]
      BY <1>16 DEF Relinked, RelinkUnseen
    <2> DEFINE r == [health[l] EXCEPT !.at = at]
    <2>3. health[l] \in Health /\ health[l].at \in {"connect", "linked"}
      BY <1>16 DEF Relinked, RelinkUnseen
    <2>4. r \in Health /\ r.obj = health[l].obj /\ r.fails = health[l].fails /\ r.todo = health[l].todo
      BY <2>3 DEF Health
    <2>5. health' = [health EXCEPT ![l] = r]
      BY <2>2
    <2> HIDE DEF r
    <2>6. UNCHANGED <<rows, manager, keepers, job, entangled>>
      BY <1>16 DEF Relinked, RelinkUnseen
    <2>7. /\ r.obj \in Objects /\ object[r.obj].acct \in Accounts /\ r.fails < MaxFailures
          /\ \A p \in r.todo : object[p[2]].acct = p[1]
      BY <2>3, <2>4 DEF Working
    <2>8. QED
      BY <1>e, <2>1, <2>4, <2>5, <2>6, <2>7 DEF manager
  <1>17. ASSUME NEW l \in Loops, Rewired(l) \/ GaveUp(l)
         PROVE  ManagerTyping'
    <2> DEFINE o == health[l].obj
               a == object[o].acct
               r == [health[l] EXCEPT !.at = "alert", !.obj = None, !.fails = 0]
    <2>1. /\ health[l] \in Health /\ health[l].at \in {"connect", "linked"} /\ o \in Objects
          /\ a \in Accounts /\ health[l].fails \in 0..MaxFailures /\ health[l].fails < MaxFailures
      BY <1>17 DEF Rewired, GaveUp, Working, Health
    <2>2. r \in Health /\ r.at = "alert" /\ r.todo = health[l].todo
      <3>1. 0 \in 0..MaxFailures
        BY DEF MaxFailures
      <3>2. health[l] \in Health
        OBVIOUS
      <3>3. QED
        BY <3>1, <3>2 DEF Health
    <2>3. health' = [health EXCEPT ![l] = r]
      BY <1>17 DEF Rewired, GaveUp
    <2>4. failures' \in [Accounts -> 0..MaxFailures]
      <3>1. health[l].fails + 1 \in 0..MaxFailures /\ 0 \in 0..MaxFailures
        BY <2>1 DEF MaxFailures
      <3>2. failures' = [failures EXCEPT ![a] = 0] \/ failures' = [failures EXCEPT ![a] = health[l].fails + 1]
        BY <1>17 DEF Rewired, GaveUp, CountFailure
      <3>3. QED
        BY <3>1, <3>2
    <2>5. /\ object' \in [Objects -> Object] /\ \A p \in Objects : object'[p].acct = object[p].acct
          /\ registered' \subseteq Accounts
      <3>1. CASE Rewired(l)
        <4>1. Wire(o, object)
          BY <3>1 DEF Rewired
        <4>2. registered' = registered \cup {a}
          BY <4>1 DEF Wire
        <4>3. QED
          BY <2>1, <4>1, <4>2, HandlersDoNotMatter
      <3>2. CASE GaveUp(l)
        BY <3>2 DEF GaveUp
      <3>3. QED
        BY <1>17, <3>1, <3>2
    <2>6. UNCHANGED <<rows, clients, running, task, keepers, job, entangled>>
      BY <1>17 DEF Rewired, GaveUp
    <2>7. \A p \in r.todo : object[p[2]].acct = p[1]
      BY <2>2 DEF Working
    <2> HIDE DEF r
    <2>8. QED
      BY <1>e, <2>2, <2>3, <2>4, <2>5, <2>6, <2>7
  <1>18. ASSUME NEW l \in Loops, KeeperEnds(l)
         PROVE  ManagerTyping'
    BY <1>18 DEF KeeperEnds, manager, rows, Working, Mapped
  <1>19. CASE UNCHANGED mvars
    BY <1>19 DEF mvars, manager, rows, Working, Mapped
  <1>20. ASSUME NEW j \in Calls, NEW a \in Accounts, PostAccount(j, a)
         PROVE  ManagerTyping'
    BY <1>2, <1>20 DEF Jobs
  <1>21. QED
    BY <1>1, <1>4, <1>5, <1>6, <1>7, <1>8, <1>9, <1>10, <1>11, <1>12, <1>13, <1>14, <1>15, <1>16,
       <1>17, <1>18, <1>19, <1>20 DEF MNext, HealthStep, Settled

LEMMA ManagerTypingInit == MInit => ManagerTyping
  <1> SUFFICES ASSUME MInit
               PROVE  ManagerTyping
    OBVIOUS
  <1> USE DEF MInit
  <1>1. Cardinality(Accounts) \in Nat
    BY ManagerAssumption, FS_CardinalityType
  <1>2. Idle \in Job /\ [Idle EXCEPT !.at = "load", !.op = "restart"] \in Job
    <2>1. 0 \in 0..Cardinality(Accounts)
      BY <1>1
    <2>2. QED
      BY <2>1 DEF Idle, Job
  <1>3. NoTask \in Health /\ 0 \in 0..MaxFailures
    BY DEF NoTask, Health, MaxFailures
  <1>4. job \in [Jobs -> Job] /\ \A j \in Jobs : job[j].at # "connect"
    BY <1>2 DEF Idle
  <1>5. health \in [Loops -> Health] /\ \A l \in Loops : health[l].at = "none" /\ health[l].todo = {}
    BY <1>3 DEF NoTask
  <1>6. object \in [Objects -> Object] /\ Mapped = {}
    BY DEF Fresh, Object, Mapped
  <1>7. QED
    BY <1>3, <1>4, <1>5, <1>6 DEF ManagerTyping, ManagerTypeOK, Working

\* Every variable of the manager keeps its type, and the table of clients holds for an
\* account only objects made for that account.
THEOREM ManagerTyped == MSpec => []ManagerTypeOK
  <1>1. ManagerTyping => ManagerTypeOK
    BY DEF ManagerTyping
  <1>2. QED
    BY <1>1, ManagerTypingInit, ManagerTypeStep, PTL DEF MSpec

----------------------------------------------------------------------------
(* A private message is handled once *)

\* AnsweredOnce is not inductive: it does not say why the client that gets its handlers now
\* is the first of its account.  It is because the accounts that ever had handlers are
\* marked, and no mark is ever taken back.
OnceEach(obj, marks) ==
    /\ obj \in [Objects -> Object]
    /\ \A o \in Objects : obj[o].wired <= 1 /\ (obj[o].wired = 1 => obj[o].acct \in marks)
    /\ \A o, p \in Objects :
          (obj[o].acct = obj[p].acct /\ obj[o].wired = 1 /\ obj[p].wired = 1) => o = p

Once == OnceEach(object, registered)

\* A new client object has no handlers, and links do not matter.
LEMMA FreshHasNone ==
    ASSUME NEW obj, NEW marks, OnceEach(obj, marks), NEW o \in Objects, NEW a \in Accounts
    PROVE  OnceEach([obj EXCEPT ![o] = Fresh(a)], marks)
  BY DEF OnceEach, Object, Fresh

LEMMA RelinkedOnce ==
    ASSUME NEW obj, NEW marks, OnceEach(obj, marks), NEW o
    PROVE  /\ OnceEach([obj EXCEPT ![o].link = FALSE], marks)
           /\ OnceEach([obj EXCEPT ![o].link = TRUE], marks)
           /\ OnceEach([obj EXCEPT ![o].flag = TRUE, ![o].link = TRUE], marks)
           /\ OnceEach([obj EXCEPT ![o].link = FALSE, ![o].flag = FALSE], marks)
  <1>1. ASSUME NEW new, NEW flag, NEW link, Relinking(new, obj, o, flag, link)
        PROVE  OnceEach(new, marks)
    BY <1>1 DEF OnceEach, Relinking
  <1>2. obj \in [Objects -> Object]
    BY DEF OnceEach
  <1>3. /\ Relinking([obj EXCEPT ![o].link = FALSE], obj, o, obj[o].flag, FALSE)
        /\ Relinking([obj EXCEPT ![o].link = TRUE], obj, o, obj[o].flag, TRUE)
        /\ Relinking([obj EXCEPT ![o].flag = TRUE, ![o].link = TRUE], obj, o, TRUE, TRUE)
        /\ Relinking([obj EXCEPT ![o].link = FALSE, ![o].flag = FALSE], obj, o, FALSE, FALSE)
    BY <1>2, LinksDoNotMatter
  <1>4. QED
    BY <1>1, <1>3

\* A client gets handlers when its account was never marked, and then it is.
LEMMA WireOnce ==
    ASSUME NEW obj, OnceEach(obj, registered), NEW o, Wire(o, obj)
    PROVE  Once'
  <1>1. CASE obj[o].acct \in registered \/ o \notin Objects
    <2>1. object' = obj /\ registered \subseteq registered'
      BY <1>1 DEF Wire, OnceEach
    <2>2. QED
      BY <2>1 DEF Once, OnceEach
  <1>2. CASE obj[o].acct \notin registered /\ o \in Objects
    <2> DEFINE r == [obj[o] EXCEPT !.wired = 1]
    <2>1. obj[o] \in Object /\ obj[o].wired = 0
      BY <1>2 DEF OnceEach, Object
    <2>2. object' = [obj EXCEPT ![o] = r] /\ registered' = registered \cup {obj[o].acct}
      BY <1>2, <2>1 DEF Wire, OnceEach
    <2>3. r \in Object /\ r.wired = 1 /\ r.acct = obj[o].acct
      BY <2>1 DEF Object
    <2> HIDE DEF r
    <2>4. QED
      BY <1>2, <2>2, <2>3 DEF Once, OnceEach
  <1>3. QED
    BY <1>1, <1>2

\* Every action keeps the invariant.
LEMMA OnceStep ==
    ASSUME Once, ManagerTyping, [MNext]_mvars
    PROVE  Once'
  <1>1. CASE UNCHANGED <<object, registered>>
    BY <1>1 DEF Once
  <1>2. ASSUME NEW j, NEW a \in Accounts, NEW todo, NEW op, Dial(j, a, todo, op),
               UNCHANGED registered
        PROVE  Once'
    <2>1. PICK o \in Objects : object' = [object EXCEPT ![o] = Fresh(a)]
      BY <1>2 DEF Dial, Free
    <2>2. OnceEach([object EXCEPT ![o] = Fresh(a)], registered)
      BY FreshHasNone DEF Once
    <2>3. OnceEach(object', registered')
      BY <1>2, <2>1, <2>2
    <2>4. QED
      BY <2>3 DEF Once
  <1>3. ASSUME NEW o, UNCHANGED registered,
               \/ object' = [object EXCEPT ![o].link = FALSE]
               \/ object' = [object EXCEPT ![o].link = TRUE]
               \/ object' = [object EXCEPT ![o].flag = TRUE, ![o].link = TRUE]
               \/ object' = [object EXCEPT ![o].link = FALSE, ![o].flag = FALSE]
        PROVE  Once'
    <2>1. /\ OnceEach([object EXCEPT ![o].link = FALSE], registered)
          /\ OnceEach([object EXCEPT ![o].link = TRUE], registered)
          /\ OnceEach([object EXCEPT ![o].flag = TRUE, ![o].link = TRUE], registered)
          /\ OnceEach([object EXCEPT ![o].link = FALSE, ![o].flag = FALSE], registered)
      BY RelinkedOnce DEF Once
    <2>2. OnceEach(object', registered')
      BY <1>3, <2>1
    <2>3. QED
      BY <2>2 DEF Once
  <1>4. ASSUME NEW j \in Calls, NEW a \in Accounts, PostAccount(j, a)
        PROVE  Once'
    BY <1>1, <1>2, <1>4 DEF PostAccount, manager
  <1>5. ASSUME NEW j \in Jobs, StopOne(j)
        PROVE  Once'
    <2>1. PICK a : object' = [object EXCEPT ![clients[a]].link = FALSE, ![clients[a]].flag = FALSE]
      BY <1>5 DEF StopOne
    <2>2. UNCHANGED registered
      BY <1>5 DEF StopOne, manager
    <2>3. QED
      BY <1>3, <2>1, <2>2
  <1>6. ASSUME NEW j \in Jobs, AddNext(j)
        PROVE  Once'
    <2>1. PICK a \in Left(j) \cap authed : Dial(j, a, Left(j) \ {a}, job[j].op)
      BY <1>6 DEF AddNext
    <2>2. UNCHANGED registered
      BY <1>6 DEF AddNext, manager
    <2>3. PICK o \in Objects : object' = [object EXCEPT ![o] = Fresh(a)]
      BY <2>1 DEF Dial, Free
    <2>4. OnceEach([object EXCEPT ![o] = Fresh(a)], registered)
      BY FreshHasNone DEF Once, ManagerTyping, ManagerTypeOK
    <2>5. QED
      BY <2>2, <2>3, <2>4 DEF Once
  <1>7. ASSUME NEW j \in Jobs, Added(j)
        PROVE  Once'
    <2> DEFINE o == job[j].obj
               obj == [object EXCEPT ![o].flag = TRUE, ![o].link = TRUE]
    <2>1. OnceEach(obj, registered)
      BY RelinkedOnce DEF Once
    <2>2. Wire(o, obj)
      BY <1>7 DEF Added
    <2> HIDE DEF o, obj
    <2>3. QED
      BY <2>1, <2>2, WireOnce
  <1>8. ASSUME NEW j \in Jobs, NotAdded(j)
        PROVE  Once'
    <2>1. \/ object' = [object EXCEPT ![job[j].obj].link = FALSE]
          \/ object' = [object EXCEPT ![job[j].obj].link = TRUE]
      BY <1>8 DEF NotAdded
    <2>2. UNCHANGED registered
      BY <1>8 DEF NotAdded, manager
    <2>3. QED
      BY <1>3, <2>1, <2>2
  <1>9. ASSUME NEW o \in Objects, LinkLost(o)
        PROVE  Once'
    BY <1>9, <1>3 DEF LinkLost, manager
  <1>10. ASSUME NEW l \in Loops, AttemptFailed(l) \/ Relinked(l)
        PROVE  Once'
    <2>1. UNCHANGED registered
      BY <1>10 DEF AttemptFailed, Relinked, manager
    <2>2. CASE AttemptFailed(l)
      <3>1. \/ object' = [object EXCEPT ![health[l].obj].link = FALSE]
            \/ object' = [object EXCEPT ![health[l].obj].link = TRUE]
        BY <2>2 DEF AttemptFailed
      <3>2. QED
        BY <1>3, <2>1, <3>1
    <2>3. CASE Relinked(l)
      <3>1. object' = [object EXCEPT ![health[l].obj].flag = TRUE, ![health[l].obj].link = TRUE]
        BY <2>3 DEF Relinked
      <3>2. QED
        BY <1>3, <2>1, <3>1
    <2>4. QED
      BY <1>10, <2>2, <2>3
  <1>11. ASSUME NEW l \in Loops, Rewired(l)
         PROVE  Once'
    BY <1>11, WireOnce DEF Rewired, Once
  <1>12. ASSUME NEW l \in Loops, CheckNext(l) \/ RoundOver(l) \/ GaveUp(l) \/ RelinkUnseen(l)
                                 \/ HealthDies(l) \/ KeeperEnds(l)
         PROVE  Once'
    BY <1>1, <1>12 DEF CheckNext, RoundOver, GaveUp, RelinkUnseen, HealthDies, KeeperEnds, manager
  <1>13. ASSUME NEW j \in Jobs, StopDone(j) \/ StopBroken(j) \/ StartDone(j) \/ Aborted(j)
         PROVE  Once'
    BY <1>1, <1>13 DEF StopDone, StopBroken, StartDone, Aborted, manager
  <1>14. ASSUME NEW j \in Calls, TapStart(j) \/ TapStop(j) \/ TapRestart(j)
         PROVE  Once'
    BY <1>1, <1>14 DEF TapStart, TapStop, TapRestart, BeginStop
  <1>15. ASSUME NEW a \in Accounts, Toggle(a)
         PROVE  Once'
    BY <1>1, <1>15 DEF Toggle, manager
  <1>16. CASE UNCHANGED mvars
    BY <1>1, <1>16 DEF mvars, manager
  <1>17. QED
    BY <1>4, <1>5, <1>6, <1>7, <1>8, <1>9, <1>10, <1>11, <1>12, <1>13, <1>14, <1>15, <1>16
       DEF MNext, HealthStep, Settled

\* Over all client objects of an account, forgotten ones included, the handler is
\* registered at most once.
THEOREM AnsweredOnceSafe == MSpec => []AnsweredOnce
  <1>1. MInit => Once
    BY DEF MInit, Once, OnceEach, Fresh, Object
  <1>2. Once => AnsweredOnce
    BY DEF Once, OnceEach, AnsweredOnce, Object
  <1>3. QED
    BY <1>1, <1>2, ManagerTypingInit, OnceStep, ManagerTypeStep, PTL DEF MSpec

----------------------------------------------------------------------------
(* A stopped manager is silent *)

Busy(j) == job[j].at # "idle"
Awake(l) == health[l].at # "none" \/ l \in keepers
InTable(o) == \E a \in Accounts : clients[a] = o

\* StoppedIsSilent speaks of the end of a stop only.  What makes it true is how a manager that
\* only one job works on at a time looks in between: every connected client is in the table, or
\* still on the list of the stop; the one pair of loops is that of the last start; they touch
\* only clients of the table; and the client that is being added is not one of those.
OneJob == \A j, k \in Jobs : (Busy(j) /\ Busy(k)) => j = k

ClientsInTable == Mapped \subseteq known /\ \A o \in Objects : Connected(o) => InTable(o)

LoopInOrder(l) ==
    /\ Awake(l) => running /\ l = task /\ \A j \in Jobs : Busy(j) => job[j].op = "add"
    /\ health[l].at # "none" => \A p \in health[l].todo : clients[p[1]] = p[2]
    /\ health[l].at \in {"connect", "linked"} => InTable(health[l].obj)

JobInOrder(j) ==
    /\ job[j].at = "stop" =>
          /\ ~running /\ job[j].op # "add" /\ job[j].size = Cardinality(Mapped)
          /\ \A o \in Objects : Connected(o) => \E a \in job[j].todo : clients[a] = o
    /\ job[j].at = "load" => running /\ job[j].op = "restart" /\ Mapped = {}
    /\ job[j].at \in {"connect", "settle"} =>
          running /\ job[j].todo \subseteq known /\ job[j].todo \cap Mapped = {}
    /\ job[j].at = "connect" =>
          /\ object[job[j].obj].acct \in known \ (Mapped \cup job[j].todo)
          /\ ~object[job[j].obj].flag /\ ~InTable(job[j].obj)

Orderly ==
    /\ OneJob /\ ClientsInTable
    /\ \A l \in Loops : LoopInOrder(l)
    /\ \A j \in Jobs : JobInOrder(j)
    /\ (~running /\ \A j \in Jobs : ~Busy(j)) => Mapped = {}

\* What was once entangled stays so.
LEMMA EntangledStays ==
    ASSUME [MNext]_mvars, entangled
    PROVE  entangled'
  <1>1. CASE UNCHANGED mvars
    BY <1>1 DEF mvars
  <1>2. CASE \E a \in Accounts : Toggle(a)
    BY <1>2 DEF Toggle
  <1>3. CASE \E j \in Calls, a \in Accounts : PostAccount(j, a)
    BY <1>3 DEF PostAccount
  <1>4. CASE \E j \in Calls : TapStart(j) \/ TapStop(j) \/ TapRestart(j)
    BY <1>4 DEF TapStart, TapStop, TapRestart, BeginStop, Entangle
  <1>5. CASE \E j \in Jobs : \/ StopOne(j) \/ StopDone(j) \/ StopBroken(j) \/ AddNext(j)
                            \/ StartDone(j) \/ Aborted(j) \/ Added(j) \/ NotAdded(j)
    BY <1>5 DEF StopOne, StopDone, StopBroken, AddNext, StartDone, Aborted, Added, NotAdded
  <1>6. CASE \E o \in Objects : LinkLost(o)
    BY <1>6 DEF LinkLost
  <1>7. CASE \E l \in Loops : \/ HealthStep(l) \/ AttemptFailed(l) \/ RelinkUnseen(l)
                             \/ HealthDies(l) \/ KeeperEnds(l)
    BY <1>7 DEF HealthStep, Settled, CheckNext, RoundOver, Relinked, Rewired, GaveUp,
                AttemptFailed, RelinkUnseen, HealthDies, KeeperEnds
  <1>8. QED
    BY <1>1, <1>2, <1>3, <1>4, <1>5, <1>6, <1>7 DEF MNext

\* The steps of the admin and of the REST calls.
LEMMA BegunInOrder ==
    ASSUME ManagerTyping, Orderly, ~entangled', NEW j \in Calls,
           \/ \E a \in Accounts : PostAccount(j, a)
           \/ TapStart(j) \/ TapStop(j) \/ TapRestart(j)
    PROVE  Orderly'
  <1> USE DEF Orderly, OneJob, Busy
  <1>0. /\ j \in Jobs /\ job \in [Jobs -> Job] /\ object \in [Objects -> Object]
        /\ None \notin Objects
    BY ManagerAssumption DEF Jobs, ManagerTyping, ManagerTypeOK
  <1>1. ASSUME NEW a \in Accounts, PostAccount(j, a), UNCHANGED <<authed, object, job, entangled>>
        PROVE  Orderly'
    BY <1>1 DEF PostAccount, manager, ClientsInTable, Mapped, Connected, InTable, LoopInOrder,
                Awake, JobInOrder
  <1>2. ASSUME NEW a \in Accounts, PostAccount(j, a), Dial(j, a, {}, "add"),
               entangled' = (entangled \/ ~running \/ \E k \in Jobs : job[k].at # "idle")
        PROVE  Orderly'
    <2>1. PICK o \in Free :
              /\ object' = [object EXCEPT ![o] = Fresh(a)]
              /\ job' = [job EXCEPT ![j] = [Idle EXCEPT !.at = "connect", !.op = "add", !.todo = {},
                                                        !.obj = o]]
      BY <1>2 DEF Dial
    <2>2. running /\ \A k \in Jobs : job[k].at = "idle"
      BY <1>2
    <2>3. UNCHANGED <<manager, health, keepers>> /\ known' = known \cup {a} /\ a \notin known
      BY <1>2 DEF PostAccount
    <2>4. /\ job'[j].at = "connect" /\ job'[j].op = "add" /\ job'[j].todo = {} /\ job'[j].obj = o
          /\ \A k \in Jobs : k # j => job'[k].at = "idle"
      BY <1>0, <2>1, <2>2 DEF Idle
    <2>5. /\ object'[o].acct = a /\ object'[o].flag = FALSE /\ ~InTable(o) /\ o \in Objects
          /\ \A p \in Objects : p # o => object'[p] = object[p]
      BY <1>0, <2>1 DEF Free, Fresh, InTable
    <2>6. /\ Mapped' = Mapped /\ running' = running /\ task' = task /\ clients' = clients
          /\ \A p : InTable(p)' = InTable(p)
      BY <2>3 DEF manager, Mapped, InTable
    <2>7. OneJob'
      BY <2>4
    <2>8. ClientsInTable'
      BY <2>3, <2>5, <2>6 DEF ClientsInTable, Connected
    <2>9. \A l \in Loops : LoopInOrder(l)'
      BY <1>0, <2>2, <2>3, <2>4, <2>6 DEF LoopInOrder, Awake
    <2>10. \A k \in Jobs : JobInOrder(k)'
      BY <2>2, <2>3, <2>4, <2>5, <2>6 DEF JobInOrder, ClientsInTable
    <2>11. QED
      BY <2>2, <2>6, <2>7, <2>8, <2>9, <2>10
  <1>3. ASSUME NEW op \in {"stop", "restart"}, BeginStop(j, op)
        PROVE  Orderly'
    <2>1. /\ job' \in [Jobs -> Job] /\ health' \in [Loops -> Health] /\ keepers' \subseteq keepers
          /\ job'[j] = [Idle EXCEPT !.at = "stop", !.op = op, !.todo = Mapped,
                                     !.size = Cardinality(Mapped)]
          /\ \A k \in Jobs : k # j => job'[k] = job[k]
          /\ \A l \in Loops : l # task => health'[l] = health[l]
          /\ task \in Loops => health'[task] = NoTask /\ task \notin keepers'
      BY <1>0, <1>3, StopTyped
    <2>2. /\ UNCHANGED <<rows, object, clients, failures, registered, task>>
          /\ running' = FALSE /\ \A k \in Jobs : job[k].at = "idle"
      BY <1>3 DEF BeginStop, Entangle
    <2>3. /\ job'[j].at = "stop" /\ job'[j].op = op /\ job'[j].todo = Mapped
          /\ job'[j].size = Cardinality(Mapped)
          /\ \A k \in Jobs : k # j => job'[k].at = "idle"
      BY <2>1, <2>2 DEF Idle
    <2>4. Mapped' = Mapped /\ \A p : InTable(p)' = InTable(p)
      BY <2>2 DEF Mapped, InTable
    <2>5. OneJob'
      BY <2>3
    <2>6. ClientsInTable'
      BY <2>2, <2>4 DEF ClientsInTable, Connected, rows
    <2>7. \A l \in Loops : health'[l].at = "none" /\ l \notin keepers'
      BY <2>1 DEF LoopInOrder, Awake, NoTask
    <2>8. \A l \in Loops : LoopInOrder(l)'
      BY <2>7 DEF LoopInOrder, Awake
    <2>9. \A k \in Jobs : JobInOrder(k)'
      <3>1. \A o \in Objects : Connected(o)' => \E a \in Mapped : clients'[a] = o
        BY <1>0, <2>2 DEF ClientsInTable, Connected, InTable, Mapped
      <3>2. QED
        BY <1>3, <2>2, <2>3, <2>4, <3>1 DEF JobInOrder
    <2>10. QED
      BY <1>0, <2>3, <2>5, <2>6, <2>8, <2>9
  <1>4. ASSUME ~running, running' = TRUE, Entangle,
               job' = [job EXCEPT ![j] = [Idle EXCEPT !.at = "load", !.op = "restart"]],
               UNCHANGED <<rows, object, clients, failures, registered, task, health, keepers>>
        PROVE  Orderly'
    <2>1. \A k \in Jobs : job[k].at = "idle"
      BY <1>4 DEF Entangle
    <2>2. /\ job'[j].at = "load" /\ job'[j].op = "restart"
          /\ \A k \in Jobs : k # j => job'[k].at = "idle"
      BY <1>0, <1>4, <2>1 DEF Idle
    <2>3. Mapped = {} /\ Mapped' = Mapped /\ \A p : InTable(p)' = InTable(p)
      BY <1>4, <2>1 DEF Mapped, InTable
    <2>4. OneJob'
      BY <2>2
    <2>5. ClientsInTable'
      BY <1>4, <2>3 DEF ClientsInTable, Connected, rows
    <2>6. \A l \in Loops : LoopInOrder(l)'
      BY <1>4 DEF LoopInOrder, Awake
    <2>7. \A k \in Jobs : JobInOrder(k)'
      BY <1>4, <2>2, <2>3 DEF JobInOrder
    <2>8. QED
      BY <1>4, <2>4, <2>5, <2>6, <2>7
  <1>5. QED
    BY <1>1, <1>2, <1>3, <1>4 DEF PostAccount, TapStart, TapStop, TapRestart

\* The steps of a job that is under way: no other job is.
LEMMA JobStepInOrder ==
    ASSUME ManagerTyping, Orderly, NEW j \in Jobs,
           \/ StopOne(j) \/ StopDone(j) \/ StopBroken(j) \/ AddNext(j)
           \/ StartDone(j) \/ Aborted(j) \/ Added(j) \/ NotAdded(j)
    PROVE  Orderly'
  <1> USE DEF Orderly, OneJob, Busy
  <1>0. /\ job \in [Jobs -> Job] /\ object \in [Objects -> Object] /\ None \notin Objects
        /\ clients \in [Accounts -> Objects \cup {None}] /\ health \in [Loops -> Health]
        /\ known \subseteq Accounts
    BY ManagerAssumption DEF ManagerTyping, ManagerTypeOK
  <1>1. Busy(j) /\ \A k \in Jobs : k # j => job[k].at = "idle"
    BY DEF StopOne, StopDone, StopBroken, AddNext, StartDone, Aborted, Added, NotAdded
  <1>2. JobInOrder(j) /\ job[j] \in Job
    BY <1>0
  \* The job ends and nothing else happens: this is no way to end a stop.
  <1>a. ASSUME job' = [job EXCEPT ![j] = Idle], job[j].at # "stop",
               UNCHANGED <<rows, object, clients, running, task, health, keepers>>
        PROVE  Orderly'
    <2>1. \A k \in Jobs : job'[k].at = "idle"
      BY <1>0, <1>1, <1>a DEF Idle
    <2>2. running
      BY <1>1, <1>2, <1>a DEF JobInOrder, Job
    <2>3. Mapped' = Mapped /\ \A p : InTable(p)' = InTable(p)
      BY <1>a DEF Mapped, InTable
    <2>4. ClientsInTable'
      BY <1>a, <2>3 DEF ClientsInTable, Connected, rows
    <2>5. \A l \in Loops : LoopInOrder(l)'
      BY <1>a, <2>1, <2>2, <2>3 DEF LoopInOrder, Awake
    <2>6. \A k \in Jobs : JobInOrder(k)'
      BY <2>1 DEF JobInOrder
    <2>7. QED
      BY <1>a, <2>1, <2>2, <2>4, <2>5, <2>6
  <1>3. CASE StopOne(j)
    <2>1. PICK a \in Linked(j) :
              /\ object' = [object EXCEPT ![clients[a]].link = FALSE, ![clients[a]].flag = FALSE]
              /\ job' = [job EXCEPT ![j].todo = @ \ {a}]
      BY <1>3 DEF StopOne
    <2>2. Relinking(object', object, clients[a], FALSE, FALSE)
      BY <1>0, <2>1, LinksDoNotMatter
    <2>3. /\ job'[j].at = "stop" /\ job'[j].op = job[j].op /\ job'[j].size = job[j].size
          /\ job'[j].todo = job[j].todo \ {a}
          /\ \A k \in Jobs : k # j => job'[k].at = "idle"
      BY <1>0, <1>1, <1>2, <1>3, <2>1 DEF StopOne, Job
    <2>4. UNCHANGED <<rows, clients, running, task, health, keepers>>
      BY <1>3 DEF StopOne, manager
    <2>5. Mapped' = Mapped /\ \A p : InTable(p)' = InTable(p)
      BY <2>4 DEF Mapped, InTable
    <2>6. \A p \in Objects : Connected(p)' => Connected(p) /\ p # clients[a]
      BY <2>2 DEF Relinking, Connected
    <2>7. ClientsInTable'
      BY <2>4, <2>5, <2>6 DEF ClientsInTable, rows
    <2>8. \A l \in Loops : LoopInOrder(l)'
      BY <1>2, <1>3, <2>4, <2>5 DEF LoopInOrder, Awake, StopOne, JobInOrder
    <2>9. \A k \in Jobs : JobInOrder(k)'
      BY <1>2, <1>3, <2>3, <2>4, <2>5, <2>6 DEF JobInOrder, StopOne
    <2>10. QED
      BY <1>1, <2>3, <2>7, <2>8, <2>9
  <1>4. CASE StopDone(j)
    <2>1. /\ clients' = [a \in Accounts |-> None] /\ running' = (job[j].op = "restart")
          /\ UNCHANGED <<rows, object, task, health, keepers>>
          /\ job' = [job EXCEPT ![j] = IF job[j].op = "restart"
                                       THEN [Idle EXCEPT !.at = "load", !.op = "restart"] ELSE Idle]
      BY <1>4 DEF StopDone
    <2>2. Mapped' = {}
      BY <2>1 DEF Mapped
    <2>3. /\ \A k \in Jobs : k # j => job'[k].at = "idle"
          /\ \/ job'[j].at = "idle" /\ job[j].op # "restart"
             \/ job'[j].at = "load" /\ job'[j].op = "restart" /\ job[j].op = "restart"
      BY <1>0, <1>1, <2>1 DEF Idle
    <2>4. \A o \in Objects : ~Connected(o)
      <3>1. ASSUME NEW o \in Objects, Connected(o)
            PROVE  FALSE
        <4>1. PICK a \in job[j].todo : clients[a] = o
          BY <1>2, <1>4, <3>1 DEF JobInOrder, StopDone
        <4>2. a \in Linked(j)
          BY <1>0, <3>1, <4>1 DEF Linked, Connected
        <4>3. QED
          BY <1>4, <4>2 DEF StopDone
      <3>2. QED
        BY <3>1
    <2>5. ClientsInTable'
      BY <2>1, <2>2, <2>4 DEF ClientsInTable, Connected
    <2>6. \A l \in Loops : ~Awake(l)
      BY <1>2, <1>4 DEF LoopInOrder, JobInOrder, StopDone
    <2>7. \A l \in Loops : LoopInOrder(l)'
      BY <2>1, <2>6 DEF LoopInOrder, Awake
    <2>8. \A k \in Jobs : JobInOrder(k)'
      BY <2>1, <2>2, <2>3 DEF JobInOrder
    <2>9. QED
      BY <2>2, <2>3, <2>5, <2>7, <2>8
  <1>5. CASE StopBroken(j)
    BY <1>2, <1>5 DEF StopBroken, Resized, JobInOrder
  <1>6. CASE Aborted(j)
    BY <1>6, <1>a DEF Aborted, manager
  <1>7. CASE AddNext(j)
    <2>1. PICK a \in Left(j) \cap authed : Dial(j, a, Left(j) \ {a}, job[j].op)
      BY <1>7 DEF AddNext
    <2>2. PICK o \in Free :
              /\ object' = [object EXCEPT ![o] = Fresh(a)]
              /\ job' = [job EXCEPT ![j] = [Idle EXCEPT !.at = "connect", !.op = job[j].op,
                                                        !.todo = Left(j) \ {a}, !.obj = o]]
      BY <2>1 DEF Dial
    <2>3. UNCHANGED <<rows, manager, health, keepers>> /\ job[j].at \in {"load", "settle"}
      BY <1>7 DEF AddNext
    <2>4. /\ job'[j].at = "connect" /\ job'[j].op = job[j].op /\ job'[j].todo = Left(j) \ {a}
          /\ job'[j].obj = o
          /\ \A k \in Jobs : k # j => job'[k].at = "idle"
      BY <1>0, <1>1, <2>2 DEF Idle
    <2>5. /\ object'[o].acct = a /\ object'[o].flag = FALSE /\ ~InTable(o) /\ o \in Objects
          /\ \A p \in Objects : p # o => object'[p] = object[p]
      BY <1>0, <2>2 DEF Free, Fresh, InTable
    <2>6. /\ Mapped' = Mapped /\ running' = running /\ task' = task /\ clients' = clients
          /\ known' = known /\ \A p : InTable(p)' = InTable(p)
      BY <2>3 DEF manager, Mapped, InTable, rows
    <2>7. running /\ Left(j) \subseteq known /\ Left(j) \cap Mapped = {} /\ a \in Left(j)
      BY <1>2, <2>1, <2>3 DEF JobInOrder, Left, ManagerTyping, ManagerTypeOK
    <2>8. OneJob'
      BY <2>4
    <2>9. ClientsInTable'
      BY <2>5, <2>6 DEF ClientsInTable, Connected
    <2>10. \A l \in Loops : LoopInOrder(l)'
      BY <1>1, <2>3, <2>4, <2>6 DEF LoopInOrder, Awake
    <2>11. \A k \in Jobs : JobInOrder(k)'
      BY <2>4, <2>5, <2>6, <2>7 DEF JobInOrder
    <2>12. QED
      BY <2>6, <2>7, <2>8, <2>9, <2>10, <2>11
  <1>8. CASE StartDone(j)
    <2>1. CASE job[j].op = "add" /\ UNCHANGED <<health, keepers, task>>
      BY <1>8, <1>a, <2>1 DEF StartDone
    <2>2. CASE job[j].op = "restart"
      <3>1. PICK l \in Loops :
                 /\ health' = [health EXCEPT ![l] = [NoTask EXCEPT !.at = "sleep"]]
                 /\ keepers' = keepers \cup {l}
                 /\ task' = l
        BY <1>8, <2>2 DEF StartDone
      <3>2. /\ UNCHANGED <<rows, object, clients, running>> /\ job' = [job EXCEPT ![j] = Idle]
            /\ job[j].at \in {"load", "settle"}
        BY <1>8 DEF StartDone
      <3>3. \A k \in Jobs : job'[k].at = "idle"
        BY <1>0, <1>1, <3>2 DEF Idle
      <3>4. running /\ \A m \in Loops : ~Awake(m)
        BY <1>1, <1>2, <2>2, <3>2 DEF JobInOrder, LoopInOrder
      <3>5. Mapped' = Mapped /\ \A p : InTable(p)' = InTable(p)
        BY <3>2 DEF Mapped, InTable
      <3>6. ClientsInTable'
        BY <3>2, <3>5 DEF ClientsInTable, Connected, rows
      <3>7. /\ health'[l].at = "sleep" /\ health'[l].todo = {}
            /\ \A m \in Loops : m # l => health'[m].at = "none" /\ m \notin keepers'
        BY <1>0, <3>1, <3>4 DEF Awake, NoTask
      <3>8. \A m \in Loops : LoopInOrder(m)'
        BY <3>1, <3>2, <3>3, <3>4, <3>7 DEF LoopInOrder, Awake
      <3>9. \A k \in Jobs : JobInOrder(k)'
        BY <3>3 DEF JobInOrder
      <3>10. QED
        BY <3>2, <3>3, <3>4, <3>6, <3>8, <3>9
    <2>3. QED
      BY <1>8, <2>1, <2>2 DEF StartDone
  <1>9. CASE Added(j)
    <2>o. PICK o : o = job[j].obj
      OBVIOUS
    <2>a. PICK a : a = object[o].acct
      OBVIOUS
    <2> DEFINE obj == [object EXCEPT ![o].flag = TRUE, ![o].link = TRUE]
    <2>1. /\ o \in Objects /\ a \in Accounts /\ a \in known /\ a \notin Mapped /\ a \notin job[j].todo
          /\ ~InTable(o) /\ running
      BY <1>0, <1>2, <1>9, <2>o, <2>a DEF Added, ManagerTyping, Working, JobInOrder
    <2>2. Relinking(obj, object, o, TRUE, TRUE) /\ Wire(o, obj)
      BY <1>0, <1>9, <2>o, LinksDoNotMatter DEF Added
    <2>3. /\ clients' = [clients EXCEPT ![a] = o]
          /\ UNCHANGED <<rows, running, task, health, keepers>>
      BY <1>9, <2>o, <2>a DEF Added
    <2>4. /\ job'[j].at = "settle" /\ job'[j].op = job[j].op /\ job'[j].todo = job[j].todo
          /\ \A k \in Jobs : k # j => job'[k].at = "idle"
      BY <1>0, <1>1, <1>2, <1>9 DEF Added, Job
    <2> HIDE DEF obj
    <2>5. obj \in [Objects -> Object]
      BY <2>2 DEF Relinking
    <2>6. \A p \in Objects : p # o => (Connected(p)' => Connected(p))
      BY <2>2, <2>5, HandlersDoNotMatter DEF Relinking, Connected
    <2>7. Mapped' = Mapped \cup {a} /\ InTable(o)' /\ \A p \in Objects : InTable(p) => InTable(p)'
      <3>1. clients[a] = None
        BY <2>1 DEF Mapped
      <3>2. clients' \in [Accounts -> Objects \cup {None}] /\ clients'[a] = o
            /\ \A b \in Accounts : b # a => clients'[b] = clients[b]
        BY <1>0, <2>1, <2>3
      <3>3. Mapped' = Mapped \cup {a}
        BY <1>0, <2>1, <3>1, <3>2 DEF Mapped
      <3>4. ASSUME NEW p \in Objects, InTable(p)
            PROVE  InTable(p)'
        <4>1. PICK b \in Accounts : clients[b] = p
          BY <3>4 DEF InTable
        <4>2. b # a
          BY <1>0, <3>1, <4>1
        <4>3. QED
          BY <3>2, <4>1, <4>2 DEF InTable
      <3>5. InTable(o)'
        BY <2>1, <3>2 DEF InTable
      <3>6. QED
        BY <3>3, <3>4, <3>5
    <2>8. ClientsInTable'
      BY <2>1, <2>3, <2>6, <2>7 DEF ClientsInTable, rows
    <2>9. ASSUME NEW l \in Loops
          PROVE  LoopInOrder(l)'
      <3>1. LoopInOrder(l) /\ health[l] \in Health /\ health'[l] = health[l] /\ task' = task
        BY <1>0, <2>3
      <3>2. health[l].at # "none" => \A p \in health[l].todo : clients'[p[1]] = p[2]
        <4> SUFFICES ASSUME health[l].at # "none", NEW p \in health[l].todo
                     PROVE  clients'[p[1]] = p[2]
          OBVIOUS
        <4>1. p[1] \in Accounts /\ p[2] \in Objects /\ clients[p[1]] = p[2]
          BY <3>1 DEF LoopInOrder, Health
        <4>2. p[1] # a
          BY <1>0, <2>1, <4>1 DEF Mapped
        <4>3. QED
          BY <1>0, <2>3, <4>1, <4>2
      <3>3. health[l].at \in {"connect", "linked"} => health[l].obj \in Objects
        BY DEF ManagerTyping, Working
      <3>4. QED
        BY <1>1, <2>1, <2>3, <2>4, <2>7, <3>1, <3>2, <3>3 DEF LoopInOrder, Awake
    <2>10. \A k \in Jobs : JobInOrder(k)'
      <3>1. job[j].todo \subseteq known /\ job[j].todo \cap Mapped = {}
        BY <1>2, <1>9 DEF JobInOrder, Added
      <3>2. known' = known /\ running' = running
        BY <2>3 DEF rows
      <3>3. JobInOrder(j)'
        BY <2>1, <2>4, <2>7, <3>1, <3>2 DEF JobInOrder
      <3>4. QED
        BY <2>4, <3>3 DEF JobInOrder
    <2>11. QED
      BY <2>1, <2>3, <2>4, <2>8, <2>9, <2>10
  <1>10. CASE NotAdded(j)
    <2> DEFINE o == job[j].obj
    <2>1. \/ object' = [object EXCEPT ![o].link = TRUE]
          \/ object' = [object EXCEPT ![o].link = FALSE]
      BY <1>10 DEF NotAdded
    <2>2. UNCHANGED <<rows, manager, health, keepers>>
      BY <1>10 DEF NotAdded
    <2>3. /\ job'[j].at = "settle" /\ job'[j].op = job[j].op /\ job'[j].todo = job[j].todo
          /\ \A k \in Jobs : k # j => job'[k].at = "idle"
      BY <1>0, <1>1, <1>2, <1>10 DEF NotAdded, Job
    <2>4. o \in Objects /\ ~object[o].flag /\ running /\ ~InTable(o)
      BY <1>2, <1>10 DEF NotAdded, ManagerTyping, Working, JobInOrder
    <2> HIDE DEF o
    <2>5. /\ Relinking([object EXCEPT ![o].link = TRUE], object, o, object[o].flag, TRUE)
          /\ Relinking([object EXCEPT ![o].link = FALSE], object, o, object[o].flag, FALSE)
      BY <1>0, LinksDoNotMatter
    <2>6. \A p \in Objects : Connected(p)' => Connected(p)
      BY <2>1, <2>4, <2>5 DEF Relinking, Connected
    <2>7. /\ Mapped' = Mapped /\ running' = running /\ task' = task /\ clients' = clients
          /\ known' = known /\ \A p : InTable(p)' = InTable(p)
      BY <2>2 DEF manager, Mapped, InTable, rows
    <2>8. ClientsInTable'
      BY <2>6, <2>7 DEF ClientsInTable
    <2>9. \A l \in Loops : LoopInOrder(l)'
      BY <1>1, <2>2, <2>3, <2>7 DEF LoopInOrder, Awake
    <2>10. \A k \in Jobs : JobInOrder(k)'
      BY <1>2, <1>10, <2>3, <2>7 DEF JobInOrder, NotAdded
    <2>11. QED
      BY <2>3, <2>4, <2>7, <2>8, <2>9, <2>10
  <1>11. QED
    BY <1>3, <1>4, <1>5, <1>6, <1>7, <1>8, <1>9, <1>10

\* The steps of the loops, and a link that is lost.
LEMMA LoopStepInOrder ==
    ASSUME ManagerTyping, Orderly,
           \/ \E o \in Objects : LinkLost(o)
           \/ \E l \in Loops : \/ HealthStep(l) \/ AttemptFailed(l) \/ RelinkUnseen(l)
                               \/ HealthDies(l) \/ KeeperEnds(l)
    PROVE  Orderly'
  <1> USE DEF Orderly, OneJob, Busy
  <1>0. /\ object \in [Objects -> Object] /\ health \in [Loops -> Health]
    BY DEF ManagerTyping, ManagerTypeOK
  \* A client of the table may be connected, or one may be disconnected; one loop may go on.
  <1>a. ASSUME NEW o \in Objects, NEW flag, NEW link, Relinking(object', object, o, flag, link),
               (flag /\ link) => \/ Connected(o)
                                 \/ InTable(o) /\ \A j \in Jobs : job[j].at # "stop",
               flag => object[o].flag \/ InTable(o),
               UNCHANGED <<rows, clients, running, task, keepers, job>>,
               \A l \in Loops : LoopInOrder(l)'
        PROVE  Orderly'
    <2>1. Mapped' = Mapped /\ \A p : InTable(p)' = InTable(p)
      BY <1>a DEF Mapped, InTable
    <2>2. \A p \in Objects : Connected(p)' => \/ Connected(p)
                                              \/ InTable(p) /\ \A j \in Jobs : job[j].at # "stop"
      BY <1>a DEF Relinking, Connected
    <2>3. ClientsInTable'
      BY <1>a, <2>1, <2>2 DEF ClientsInTable, rows
    <2>4. ASSUME NEW j \in Jobs
          PROVE  JobInOrder(j)'
      <3>1. JobInOrder(j) /\ (job[j].at = "connect" => job[j].obj \in Objects)
        BY DEF ManagerTyping, Working
      <3>2. job[j].at = "connect" => /\ object'[job[j].obj].acct = object[job[j].obj].acct
                                     /\ ~object'[job[j].obj].flag
        BY <1>a, <3>1 DEF Relinking, JobInOrder
      <3>3. QED
        BY <1>a, <2>1, <2>2, <3>1, <3>2 DEF JobInOrder, rows
    <2>5. QED
      BY <1>a, <2>1, <2>3, <2>4
  \* The clients stay as they are; one loop goes on.
  <1>b. ASSUME NEW l \in Loops,
               UNCHANGED <<rows, clients, running, task, job>>, object' \in [Objects -> Object],
               \A p \in Objects : /\ object'[p].acct = object[p].acct
                                  /\ object'[p].flag = object[p].flag /\ object'[p].link = object[p].link,
               \A m \in Loops : m # l => health'[m] = health[m] /\ (m \in keepers' <=> m \in keepers),
               LoopInOrder(l)'
        PROVE  Orderly'
    <2>1. Mapped' = Mapped /\ \A p : InTable(p)' = InTable(p)
      BY <1>b DEF Mapped, InTable
    <2>2. \A p \in Objects : Connected(p)' = Connected(p)
      BY <1>b DEF Connected
    <2>3. ClientsInTable'
      BY <1>b, <2>1, <2>2 DEF ClientsInTable, rows
    <2>4. \A m \in Loops : LoopInOrder(m)'
      BY <1>b, <2>1 DEF LoopInOrder, Awake
    <2>5. ASSUME NEW j \in Jobs
          PROVE  JobInOrder(j)'
      <3>1. JobInOrder(j) /\ (job[j].at = "connect" => job[j].obj \in Objects)
        BY DEF ManagerTyping, Working
      <3>2. QED
        BY <1>b, <2>1, <2>2, <3>1 DEF JobInOrder, rows
    <2>6. QED
      BY <1>b, <2>1, <2>3, <2>4, <2>5
  <1>1. ASSUME NEW o \in Objects, LinkLost(o)
        PROVE  Orderly'
    <2>1. Relinking([object EXCEPT ![o].link = FALSE], object, o, object[o].flag, FALSE)
      BY <1>0, LinksDoNotMatter
    <2>2. /\ Relinking(object', object, o, object[o].flag, FALSE)
          /\ UNCHANGED <<rows, clients, running, task, health, keepers, job>>
      BY <1>1, <2>1 DEF LinkLost, manager
    <2>3. \A p : InTable(p)' = InTable(p)
      BY <2>2 DEF InTable
    <2>4. \A l \in Loops : LoopInOrder(l)'
      BY <2>2, <2>3 DEF LoopInOrder, Awake
    <2>5. QED
      BY <1>a, <2>2, <2>4
  <1>2. ASSUME NEW l \in Loops, AttemptFailed(l) \/ Relinked(l)
        PROVE  Orderly'
    <2>o. PICK o : o = health[l].obj
      OBVIOUS
    <2>1. o \in Objects /\ InTable(o) /\ Awake(l)
      BY <1>2, <2>o DEF AttemptFailed, Relinked, ManagerTyping, Working, LoopInOrder, Awake
    <2>2. \A j \in Jobs : job[j].at # "stop"
      BY <2>1 DEF LoopInOrder, JobInOrder
    <2>3. /\ Relinking([object EXCEPT ![o].link = FALSE], object, o, object[o].flag, FALSE)
          /\ Relinking([object EXCEPT ![o].link = TRUE], object, o, object[o].flag, TRUE)
          /\ Relinking([object EXCEPT ![o].flag = TRUE, ![o].link = TRUE], object, o, TRUE, TRUE)
      BY <1>0, LinksDoNotMatter
    <2>4. \/ object' = [object EXCEPT ![o].link = FALSE]
          \/ object' = [object EXCEPT ![o].link = TRUE]
          \/ object' = [object EXCEPT ![o].flag = TRUE, ![o].link = TRUE]
      BY <1>2, <2>o DEF AttemptFailed, Relinked
    <2>5. UNCHANGED <<rows, clients, running, task, keepers, job>>
      BY <1>2 DEF AttemptFailed, Relinked, manager
    <2>6. \A p : InTable(p)' = InTable(p)
      BY <2>5 DEF InTable
    <2>7. \A m \in Loops : LoopInOrder(m)'
      <3>1. \/ health' = health
            \/ health' = [health EXCEPT ![l] = [@ EXCEPT !.at = "linked"]] /\ health[l].at = "connect"
        BY <1>2 DEF AttemptFailed, Relinked
      <3>2. \A m \in Loops : \/ health'[m] = health[m]
                             \/ /\ health'[m].at = "linked" /\ health[m].at = "connect"
                                /\ health'[m].obj = health[m].obj /\ health'[m].todo = health[m].todo
        BY <1>0, <3>1 DEF Health
      <3>3. QED
        BY <2>5, <2>6, <3>2 DEF LoopInOrder, Awake
    <2>8. \/ Relinking(object', object, o, object[o].flag, FALSE)
          \/ Relinking(object', object, o, object[o].flag, TRUE)
          \/ Relinking(object', object, o, TRUE, TRUE)
      BY <2>3, <2>4
    <2>9. QED
      BY <1>a, <2>1, <2>2, <2>5, <2>7, <2>8
  <1>3. ASSUME NEW l \in Loops, CheckNext(l)
        PROVE  Orderly'
    <2>1. PICK p \in Down(l) :
           health' = [health EXCEPT ![l] =
               IF GivenUp(p[1])
               THEN [NoTask EXCEPT !.at = "alert", !.todo = Down(l) \ {p}]
               ELSE [at |-> "connect", todo |-> Down(l) \ {p}, obj |-> p[2], fails |-> failures[p[1]]]]
      BY <1>3 DEF CheckNext
    <2>2. \A q \in Down(l) : q[1] \in Accounts /\ clients[q[1]] = q[2]
      <3>1. CASE health[l].at = "sleep"
        BY <3>1 DEF Down, Mapped
      <3>2. CASE health[l].at # "sleep"
        BY <1>0, <1>3, <3>2 DEF Down, LoopInOrder, CheckNext, Health
      <3>3. QED
        BY <3>1, <3>2
    <2>3. UNCHANGED <<rows, object, manager, keepers, job>> /\ Awake(l)
      BY <1>3 DEF CheckNext, Awake
    <2>4. /\ health'[l].todo = Down(l) \ {p}
          /\ \/ health'[l].at = "alert"
             \/ health'[l].at = "connect" /\ health'[l].obj = p[2]
          /\ \A m \in Loops : m # l => health'[m] = health[m]
      BY <1>0, <2>1 DEF NoTask
    <2>5. UNCHANGED <<clients, running, task>> /\ (InTable(p[2]))' = InTable(p[2]')
      BY <2>3 DEF manager, InTable
    <2>6. LoopInOrder(l)'
      <3>1. \A q \in health'[l].todo : clients'[q[1]] = q[2]
        BY <2>2, <2>4, <2>5
      <3>2. health'[l].at = "connect" => InTable(health[l].obj)'
        BY <2>2, <2>4, <2>5 DEF InTable
      <3>3. LoopInOrder(l)
        OBVIOUS
      <3>4. QED
        BY <2>3, <2>4, <2>5, <3>1, <3>2, <3>3 DEF LoopInOrder, Awake
    <2>7. QED
      BY <1>0, <1>b, <2>3, <2>4, <2>5, <2>6
  <1>4. ASSUME NEW l \in Loops, RoundOver(l) \/ HealthDies(l)
        PROVE  Orderly'
    <2>1. /\ UNCHANGED <<rows, object, clients, running, task, keepers, job>> /\ Awake(l)
      BY <1>4 DEF RoundOver, HealthDies, Awake, manager
    <2>2. /\ \/ health'[l].at = "none"
             \/ health'[l].at = "sleep" /\ health'[l].todo = {}
          /\ \A m \in Loops : m # l => health'[m] = health[m]
      BY <1>0, <1>4 DEF RoundOver, HealthDies, NoTask
    <2>3. LoopInOrder(l)'
      BY <2>1, <2>2 DEF LoopInOrder, Awake
    <2>4. QED
      BY <1>0, <1>b, <2>1, <2>2, <2>3
  <1>5. ASSUME NEW l \in Loops, Rewired(l) \/ GaveUp(l) \/ RelinkUnseen(l)
        PROVE  Orderly'
    <2>1. UNCHANGED <<rows, clients, running, task, keepers, job>> /\ Awake(l)
      BY <1>5 DEF Rewired, GaveUp, RelinkUnseen, Awake, manager
    <2>2. /\ object' \in [Objects -> Object]
          /\ \A p \in Objects : /\ object'[p].acct = object[p].acct
                                /\ object'[p].flag = object[p].flag /\ object'[p].link = object[p].link
      <3>1. CASE Rewired(l)
        <4>1. Wire(health[l].obj, object)
          BY <3>1 DEF Rewired
        <4>2. QED
          BY <1>0, <4>1, HandlersDoNotMatter
      <3>2. CASE GaveUp(l) \/ RelinkUnseen(l)
        BY <1>0, <3>2 DEF GaveUp, RelinkUnseen
      <3>3. QED
        BY <1>5, <3>1, <3>2
    <2>3. /\ health'[l].todo = health[l].todo /\ health[l].at \in {"connect", "linked"}
          /\ \/ health'[l].at = "alert"
             \/ health'[l].at = "connect" /\ health'[l].obj = health[l].obj
          /\ \A m \in Loops : m # l => health'[m] = health[m]
      <3>1. health[l] \in Health
        BY <1>0
      <3>2. CASE RelinkUnseen(l)
        BY <1>0, <3>1, <3>2 DEF RelinkUnseen, Health
      <3>3. CASE Rewired(l) \/ GaveUp(l)
        <4>1. /\ health[l].at \in {"connect", "linked"}
              /\ health' = [health EXCEPT ![l] = [@ EXCEPT !.at = "alert", !.obj = None, !.fails = 0]]
          BY <3>3 DEF Rewired, GaveUp
        <4>2. QED
          BY <1>0, <3>1, <4>1 DEF Health
      <3>4. QED
        BY <1>5, <3>2, <3>3
    <2>4. LoopInOrder(l)'
      <3>1. \A p : InTable(p)' = InTable(p)
        BY <2>1 DEF InTable
      <3>2. QED
        BY <2>1, <2>3, <3>1 DEF LoopInOrder, Awake
    <2>5. QED
      BY <1>b, <2>1, <2>2, <2>3, <2>4
  <1>6. ASSUME NEW l \in Loops, KeeperEnds(l)
        PROVE  Orderly'
    <2>1. Awake(l) /\ ~running
      BY <1>6 DEF KeeperEnds, Awake
    <2>2. QED
      BY <2>1 DEF LoopInOrder
  <1>7. QED
    BY <1>1, <1>2, <1>3, <1>4, <1>5, <1>6 DEF HealthStep, Settled

\* As long as nothing overlaps, the manager is in order.
LEMMA OrderlyStep ==
    ASSUME ManagerTyping, entangled \/ Orderly, [MNext]_mvars
    PROVE  (entangled \/ Orderly)'
  <1> SUFFICES ASSUME ~entangled'
               PROVE  Orderly'
    OBVIOUS
  <1>1. Orderly
    BY EntangledStays
  <1>2. CASE \/ UNCHANGED mvars
             \/ \E a \in Accounts : Toggle(a)
    <2>1. UNCHANGED <<known, object, clients, running, task, health, keepers, job>>
      BY <1>2 DEF mvars, manager, rows, Toggle
    <2>2. Mapped' = Mapped /\ \A p : InTable(p)' = InTable(p) /\ Connected(p)' = Connected(p)
      BY <2>1 DEF Mapped, InTable, Connected
    <2>3. ClientsInTable'
      BY <1>1, <2>1, <2>2 DEF ClientsInTable, Orderly
    <2>4. \A l \in Loops : LoopInOrder(l)'
      BY <1>1, <2>1, <2>2 DEF LoopInOrder, Awake, Busy, Orderly
    <2>5. \A j \in Jobs : JobInOrder(j)'
      BY <1>1, <2>1, <2>2 DEF JobInOrder, Orderly
    <2>6. QED
      BY <1>1, <2>1, <2>2, <2>3, <2>4, <2>5 DEF Orderly, OneJob, Busy
  <1>3. CASE \E j \in Calls : \/ \E a \in Accounts : PostAccount(j, a)
                              \/ TapStart(j) \/ TapStop(j) \/ TapRestart(j)
    BY <1>1, <1>3, BegunInOrder
  <1>4. CASE \E j \in Jobs : \/ StopOne(j) \/ StopDone(j) \/ StopBroken(j) \/ AddNext(j)
                             \/ StartDone(j) \/ Aborted(j) \/ Added(j) \/ NotAdded(j)
    BY <1>1, <1>4, JobStepInOrder
  <1>5. CASE \/ \E o \in Objects : LinkLost(o)
             \/ \E l \in Loops : \/ HealthStep(l) \/ AttemptFailed(l) \/ RelinkUnseen(l)
                                 \/ HealthDies(l) \/ KeeperEnds(l)
    BY <1>1, <1>5, LoopStepInOrder
  <1>6. QED
    BY <1>2, <1>3, <1>4, <1>5 DEF MNext

\* When the manager was stopped and no job is under way, no client is connected and no loop
\* is left that could reconnect one, unless jobs overlapped.
THEOREM StoppedIsSilentSafe == MSpec => []StoppedIsSilent
  <1>1. MInit => Orderly
    <2> SUFFICES ASSUME MInit
                 PROVE  Orderly
      OBVIOUS
    <2> USE DEF MInit
    <2>1. Mapped = {} /\ \A o \in Objects : ~Connected(o)
      BY DEF Mapped, Connected, Fresh
    <2>2. \A l \in Loops : ~Awake(l) /\ health[l].at = "none"
      BY DEF Awake, NoTask
    <2>3. /\ Boot \in Jobs /\ job[Boot].at = "load" /\ job[Boot].op = "restart"
          /\ \A j \in Jobs : j # Boot => job[j].at = "idle"
      BY DEF Jobs, Idle
    <2>4. QED
      BY <2>1, <2>2, <2>3 DEF Orderly, OneJob, Busy, ClientsInTable, LoopInOrder, JobInOrder
  <1>2. entangled \/ Orderly => StoppedIsSilent
    BY ManagerAssumption DEF Orderly, StoppedIsSilent, Busy, ClientsInTable, Mapped, InTable, LoopInOrder, Awake
  <1>3. QED
    BY <1>1, <1>2, ManagerTypingInit, ManagerTypeStep, OrderlyStep, PTL DEF MSpec

----------------------------------------------------------------------------
(* The engine *)

USE DEF Kinds, Outcomes, Running

LEMMA EngineTypeInit == EInit => EngineTypeOK
  BY EngineTimes DEF EInit, EngineTypeOK, NoCall, Call

LEMMA EngineTypeStep == EngineTypeOK /\ [ENext]_evars => EngineTypeOK'
  <1> SUFFICES ASSUME EngineTypeOK, [ENext]_evars
               PROVE  EngineTypeOK'
    OBVIOUS
  <1> USE DEF EngineTypeOK
  <1>1. ASSUME NEW c \in Asks, NEW kind \in Kinds, BeginCall(c, kind)
        PROVE  EngineTypeOK'
    <2>1. [at |-> "start", kind |-> kind, tries |-> 0] \in Call
      BY DEF Call
    <2>2. QED
      BY <1>1, <2>1 DEF BeginCall
  <1>2. ASSUME NEW c \in Asks, NEW r \in Call, call' = [call EXCEPT ![c] = r],
               r.at = "wait" => r.tries < Attempts(r.kind),
               UNCHANGED <<tick, until, refused>>
        PROVE  EngineTypeOK'
    BY <1>2
  <1>3. ASSUME NEW c \in Asks, Refuse(c) \/ SendRequest(c) \/ Resume(c) \/ Answered200(c) \/ OtherError(c)
        PROVE  EngineTypeOK'
    <2>1. call[c] \in Call /\ call[c].tries \in 0..3
      BY DEF Call
    <2>2. UNCHANGED <<tick, until, refused>>
      BY <1>3 DEF Refuse, SendRequest, Resume, Answered200, OtherError
    <2>3. ASSUME NEW at \in {"start", "wait", "text", "raised", "nothing"},
                 at = "wait" => call[c].tries < Attempts(call[c].kind),
                 call' = [call EXCEPT ![c] = [@ EXCEPT !.at = at]]
          PROVE  EngineTypeOK'
      <3>1. [call[c] EXCEPT !.at = at] \in Call
        BY <2>1, <2>3 DEF Call
      <3>2. QED
        BY <1>2, <2>1, <2>2, <2>3, <3>1 DEF Call
    <2>4. Failure(call[c].kind) \in {"raised", "nothing"}
      BY DEF Failure
    <2>5. CASE Refuse(c)
      BY <2>3, <2>4, <2>5 DEF Refuse
    <2>6. CASE Resume(c)
      BY <2>3, <2>6 DEF Resume
    <2>7. CASE Answered200(c)
      BY <2>3, <2>7 DEF Answered200
    <2>8. CASE OtherError(c)
      <3>1. CASE Another(c)
        BY <2>3, <2>8, <3>1 DEF OtherError, Another
      <3>2. CASE ~Another(c)
        BY <2>3, <2>4, <2>8, <3>2 DEF OtherError
      <3>3. QED
        BY <3>1, <3>2
    <2>9. CASE SendRequest(c)
      <3> DEFINE n == IF call[c].tries < 3 THEN call[c].tries + 1 ELSE 3
                 r == [call[c] EXCEPT !.at = "sent", !.tries = n]
      <3>1. n \in 0..3
        BY <2>1
      <3>2. r \in Call /\ r.at # "wait"
        BY <2>1, <3>1 DEF Call
      <3>3. call' = [call EXCEPT ![c] = r]
        BY <2>9 DEF SendRequest
      <3>4. QED
        BY <1>2, <2>2, <3>2, <3>3
    <2>10. QED
      BY <1>3, <2>5, <2>6, <2>7, <2>8, <2>9
  <1>4. ASSUME NEW c \in Asks, \E error \in {"quota", "alike"} : QuotaError(c, error)
        PROVE  EngineTypeOK'
    <2>1. call[c] \in Call /\ Failure(call[c].kind) \in {"raised", "nothing"}
      BY DEF Failure
    <2>2. [call[c] EXCEPT !.at = Failure(call[c].kind)] \in Call
      BY <2>1 DEF Call
    <2>3. call' = [call EXCEPT ![c] = [@ EXCEPT !.at = Failure(call[c].kind)]]
      BY <1>4 DEF QuotaError
    <2>4. call' \in [Asks -> Call] /\ \A d \in Asks : call'[d].at = "wait" => call'[d] = call[d]
      BY <2>1, <2>2, <2>3 DEF Call
    <2>5. tick' \in 0..LastTick /\ until' \in 0..(LastTick + Cooldown) /\ refused' \in Nat \cup {Never}
      BY <1>4, EngineTimes DEF QuotaError, Mark
    <2>6. QED
      BY <2>4, <2>5
  <1>5. CASE TickOn
    BY <1>5, EngineTimes DEF TickOn
  <1>6. CASE EngineRestart
    BY <1>6, EngineTimes DEF EngineRestart, NoCall, Call
  <1>7. CASE UNCHANGED evars
    BY <1>7 DEF evars
  <1>8. QED
    BY <1>1, <1>3, <1>4, <1>5, <1>6, <1>7 DEF ENext, Proceed

\* Every variable of the engine keeps its type, and the attempts are counted.
THEOREM EngineTyped == ESpec => []EngineTypeOK
  BY EngineTypeInit, EngineTypeStep, PTL DEF ESpec

\* The cooldown that runs is at least that of the last refusal, which is not in the future.
Remembered == refused # Never => refused <= tick /\ refused + Cooldown <= until

LEMMA RememberedStep == EngineTypeOK /\ Remembered /\ [ENext]_evars => Remembered'
  <1> SUFFICES ASSUME EngineTypeOK, Remembered, [ENext]_evars
               PROVE  Remembered'
    OBVIOUS
  <1> USE EngineTimes, NeverIsNoTick DEF Remembered, EngineTypeOK
  <1>1. CASE UNCHANGED <<until, refused>> /\ tick' \in {tick, tick + 1}
    BY <1>1
  <1>2. CASE \E c \in Asks, error \in {"quota", "alike"} : QuotaError(c, error)
    BY <1>2 DEF QuotaError, Mark
  <1>3. CASE EngineRestart
    BY <1>3 DEF EngineRestart
  <1>4. QED
    BY <1>1, <1>2, <1>3
       DEF ENext, Proceed, TickOn, BeginCall, Refuse, SendRequest, Resume, Answered200, OtherError, evars

\* For an hour after a refusal no request is sent, whatever comes back meanwhile.
THEOREM QuietSafe == ESpec => QuietAfterRefusal
  <1>1. EInit => EngineTypeOK /\ Remembered
    BY EngineTypeInit DEF EInit, Remembered
  <1>2. ASSUME EngineTypeOK, Remembered, [ENext]_evars
        PROVE  [\A c \in Asks : (call[c].at = "start" /\ call'[c].at = "sent") =>
                    refused = Never \/ tick >= refused + Cooldown]_evars
    <2> SUFFICES ASSUME NEW c \in Asks, call[c].at = "start", call'[c].at = "sent", refused # Never
                 PROVE  tick >= refused + Cooldown
      OBVIOUS
    <2>1. CASE Exhausted
      <3>1. call'[c].at # "sent"
        <4> USE DEF EngineTypeOK
        <4>1. \A d \in Asks : ~SendRequest(d)
          BY <2>1 DEF SendRequest
        <4>2. \A d \in Asks, kind \in Kinds : BeginCall(d, kind) => call'[c].at # "sent"
          BY DEF BeginCall
        <4>3. ASSUME NEW d \in Asks, Proceed(d)
              PROVE  call'[c].at # "sent"
          <5>1. call[d] \in Call /\ Failure(call[d].kind) \in {"raised", "nothing"}
            BY <1>2, <4>3 DEF Failure
          <5>2. ASSUME NEW at \in {"start", "wait", "text", "raised", "nothing"},
                       call' = [call EXCEPT ![d] = [@ EXCEPT !.at = at]]
                PROVE  call'[c].at # "sent"
            BY <1>2, <4>3, <5>1, <5>2 DEF Call
          <5>3. CASE Refuse(d)
            BY <5>1, <5>2, <5>3 DEF Refuse
          <5>4. CASE Resume(d)
            BY <5>2, <5>4 DEF Resume
          <5>5. CASE Answered200(d)
            BY <5>2, <5>5 DEF Answered200
          <5>6. CASE OtherError(d)
            <6>1. CASE Another(d)
              BY <5>2, <5>6, <6>1 DEF OtherError
            <6>2. CASE ~Another(d)
              BY <5>1, <5>2, <5>6, <6>2 DEF OtherError
            <6>3. QED
              BY <6>1, <6>2
          <5>7. CASE \E error \in {"quota", "alike"} : QuotaError(d, error)
            BY <5>1, <5>2, <5>7 DEF QuotaError
          <5>8. QED
            BY <4>1, <4>3, <5>3, <5>4, <5>5, <5>6, <5>7 DEF Proceed
        <4>4. TickOn \/ EngineRestart \/ UNCHANGED evars => call'[c].at # "sent"
          BY DEF TickOn, EngineRestart, NoCall, evars
        <4>5. QED
          BY <1>2, <4>2, <4>3, <4>4 DEF ENext
      <3>2. QED
        BY <3>1
    <2>2. CASE ~Exhausted
      BY <1>2, <2>2, EngineTimes, NeverIsNoTick DEF Exhausted, Remembered, EngineTypeOK
    <2>3. QED
      BY <2>1, <2>2
  <1>3. QED
    BY <1>1, <1>2, EngineTypeStep, RememberedStep, PTL DEF ESpec, QuietAfterRefusal

----------------------------------------------------------------------------
(* The two services side by side *)

\* A step of the two services is a step, or none, of each of them.
LEMMA BotStepIsStep == [BotNext]_bvars => [MNext]_mvars /\ [ENext]_evars
  BY DEF BotNext, bvars

\* Every variable of the two services keeps its type.
THEOREM BotTyped == BotSpec => []BotTypeOK
  <1>1. BotInit => ManagerTyping /\ EngineTypeOK
    BY ManagerTypingInit, EngineTypeInit DEF BotInit
  <1>2. ManagerTyping /\ EngineTypeOK /\ [BotNext]_bvars => (ManagerTyping /\ EngineTypeOK)'
    BY BotStepIsStep, ManagerTypeStep, EngineTypeStep
  <1>3. ManagerTyping /\ EngineTypeOK => BotTypeOK
    BY DEF ManagerTyping, BotTypeOK
  <1>4. QED
    BY <1>1, <1>2, <1>3, PTL DEF BotSpec

===============================================================================
