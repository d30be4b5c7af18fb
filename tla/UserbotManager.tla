--------------------------- MODULE UserbotManager ---------------------------
(***************************************************************************)
(* The manager of the Telegram accounts that answer private messages: the  *)
(* table of accounts and the REST calls on it, starting, stopping and      *)
(* restarting the manager from the process start-up and from the admin     *)
(* bot, and the health loop that reconnects a client whose link was lost.  *)
(*                                                                         *)
(* Everything runs on one event loop: a step is what happens between two   *)
(* awaits, so taps of the admin, the start-up and the loops interleave     *)
(* only there.  A client object lives on after the manager forgot it: it   *)
(* may still be linked to Telegram and still call its handlers.            *)
(***************************************************************************)
EXTENDS Naturals, FiniteSets

CONSTANTS
    Accounts,   \* rows of telegram_accounts, present or future
    Objects,    \* UserBotClient objects alive at the same time (a bound)
    Boot,       \* the start-up task, cancelled after 30 s
    Calls,      \* taps of the admin and REST calls running at the same time
    Loops,      \* pairs of a health task and a keeper task (a bound)
    None

ASSUME ManagerAssumption ==
    /\ Boot \notin Calls /\ None \notin Accounts \cup Objects \cup Loops
    /\ IsFiniteSet(Accounts)

MaxFailures == 3

VARIABLES
    known, active, authed,      \* rows: present, is_active, with a session string
    object,      \* object[o]: the account it is for, flag (_is_connected), link, handlers
    clients,     \* _clients: account -> object
    failures,    \* _reconnect_failures
    registered,  \* _handlers_registered
    running,     \* _running
    health,      \* health[l]: where health task l is
    keepers,     \* the keeper tasks that are running
    task,        \* _health_task and _keeper_task: the pair created last
    job,         \* job[j]: where a start, stop, restart or add is
    entangled    \* history: two jobs overlapped, or a client was added while stopped

rows    == <<known, active, authed>>
manager == <<clients, failures, registered, running, task>>
mvars   == <<rows, object, manager, health, keepers, job, entangled>>

Jobs == Calls \cup {Boot}

Object == [acct: Accounts \cup {None}, flag: BOOLEAN, link: BOOLEAN, wired: 0..2]
Fresh(a) == [acct |-> a, flag |-> FALSE, link |-> FALSE, wired |-> 0]

Job == [at: {"idle", "stop", "load", "connect", "settle"},
        op: {"stop", "restart", "add"},
        todo: SUBSET Accounts, size: 0..Cardinality(Accounts), obj: Objects \cup {None}]
Idle == [at |-> "idle", op |-> "stop", todo |-> {}, size |-> 0, obj |-> None]

Health == [at: {"none", "sleep", "connect", "linked", "alert"},
           todo: SUBSET (Accounts \X Objects), obj: Objects \cup {None}, fails: 0..MaxFailures]
NoTask == [at |-> "none", todo |-> {}, obj |-> None, fails |-> 0]

Connected(o) == object[o].flag /\ object[o].link

Mapped == {a \in Accounts : clients[a] # None}

\* Objects nobody refers to and that are not linked are collected and may be reused.
Free == {o \in Objects :
            /\ ~object[o].link
            /\ \A a \in Accounts : clients[a] # o
            /\ \A j \in Jobs : job[j].obj # o
            /\ \A l \in Loops : /\ health[l].obj # o
                                /\ \A a \in Accounts : <<a, o>> \notin health[l].todo}

\* The start-up has called start(), which has set _running and waits for the accounts.
MInit ==
    /\ known \in SUBSET Accounts /\ authed \in SUBSET known /\ active = known
    /\ object = [o \in Objects |-> Fresh(None)]
    /\ clients = [a \in Accounts |-> None]
    /\ failures = [a \in Accounts |-> 0]
    /\ registered = {} /\ running = TRUE
    /\ health = [l \in Loops |-> NoTask] /\ keepers = {} /\ task = None
    /\ job = [j \in Jobs |-> IF j = Boot THEN [Idle EXCEPT !.at = "load", !.op = "restart"] ELSE Idle]
    /\ entangled = FALSE

----------------------------------------------------------------------------
(* The table of accounts *)

\* PATCH /accounts/{id}/toggle: the client of the account, if any, is left alone.
Toggle(a) ==
    /\ a \in known
    /\ active' = IF a \in active THEN active \ {a} ELSE active \cup {a}
    /\ UNCHANGED <<known, authed, object, manager, health, keepers, job, entangled>>

Entangle == entangled' = (entangled \/ \E j \in Jobs : job[j].at # "idle")

\* A client object for a is created and asked to connect by job j.
Dial(j, a, todo, op) ==
    \E o \in Free :
        /\ object' = [object EXCEPT ![o] = Fresh(a)]
        /\ job' = [job EXCEPT ![j] = [Idle EXCEPT !.at = "connect", !.op = op, !.todo = todo,
                                                  !.obj = o]]

\* POST /accounts commits a row; with a session string the account is connected at once.
PostAccount(j, a) ==
    /\ job[j].at = "idle" /\ a \notin known
    /\ known' = known \cup {a} /\ active' = active \cup {a}
    /\ \/ UNCHANGED <<authed, object, job, entangled>>
       \/ /\ authed' = authed \cup {a}
          /\ Dial(j, a, {}, "add")
          /\ entangled' = (entangled \/ ~running \/ \E k \in Jobs : job[k].at # "idle")
    /\ UNCHANGED <<manager, health, keepers>>

----------------------------------------------------------------------------
(* Stopping *)

\* Mutated: the loops are left to find out themselves that the manager stopped.
CancelNothing == UNCHANGED <<health, keepers>>

\* The loops of the pair created last are cancelled.
CancelLoops ==
    /\ health' = IF task = None THEN health ELSE [health EXCEPT ![task] = NoTask]
    /\ keepers' = keepers \ {task}

\* stop(): the loops are cancelled, the clients are disconnected one after the other.
BeginStop(j, op) ==
    /\ running' = FALSE
    /\ CancelLoops
    /\ job' = [job EXCEPT ![j] = [Idle EXCEPT !.at = "stop", !.op = op, !.todo = Mapped,
                                              !.size = Cardinality(Mapped)]]
    /\ Entangle
    /\ UNCHANGED <<rows, object, clients, failures, registered, task>>

\* The clients still to be disconnected that have a link.
Linked(j) == {a \in job[j].todo : clients[a] # None /\ object[clients[a]].link}

\* The dictionary that stop() iterates over was changed by another job.
Resized(j) == Cardinality(Mapped) # job[j].size

StopOne(j) ==
    /\ job[j].at = "stop" /\ ~Resized(j)
    /\ \E a \in Linked(j) :
           /\ object' = [object EXCEPT ![clients[a]].link = FALSE, ![clients[a]].flag = FALSE]
           /\ job' = [job EXCEPT ![j].todo = @ \ {a}]
    /\ UNCHANGED <<rows, manager, health, keepers, entangled>>

\* The end of stop(), and for a restart the first half of start().
StopDone(j) ==
    /\ job[j].at = "stop" /\ ~Resized(j) /\ Linked(j) = {}
    /\ clients' = [a \in Accounts |-> None]
    /\ failures' = [a \in Accounts |-> 0]
    /\ running' = (job[j].op = "restart")
    /\ job' = [job EXCEPT ![j] = IF job[j].op = "restart"
                                 THEN [Idle EXCEPT !.at = "load", !.op = "restart"] ELSE Idle]
    /\ UNCHANGED <<rows, object, registered, task, health, keepers, entangled>>

\* RuntimeError: dictionary changed size during iteration; nothing after it is done.
StopBroken(j) ==
    /\ job[j].at = "stop" /\ Resized(j)
    /\ job' = [job EXCEPT ![j] = Idle]
    /\ UNCHANGED <<rows, object, manager, health, keepers, entangled>>

----------------------------------------------------------------------------
(* Starting *)

\* The admin bot is set up when the start-up is done with the manager, or gave up on it.
Tap(j) == job[j].at = "idle" /\ job[Boot].at = "idle"

\* ctrl_start: nothing when the manager runs and a client is connected; when it runs
\* without one it is restarted.
TapStart(j) ==
    /\ Tap(j)
    /\ \/ /\ running /\ ~\E a \in Mapped : Connected(clients[a])
          /\ BeginStop(j, "restart")
       \/ /\ ~running
          /\ running' = TRUE
          /\ job' = [job EXCEPT ![j] = [Idle EXCEPT !.at = "load", !.op = "restart"]]
          /\ Entangle
          /\ UNCHANGED <<rows, object, clients, failures, registered, task, health, keepers>>

\* ctrl_stop and ctrl_restart.
TapStop(j) == Tap(j) /\ BeginStop(j, "stop")
TapRestart(j) == Tap(j) /\ BeginStop(j, "restart")

\* The accounts still to be added when job j goes on: load_accounts() has just read them.
Left(j) == IF job[j].at = "load" THEN active ELSE job[j].todo

\* The next account is given a client; without a session string that is a ValueError.
AddNext(j) ==
    /\ job[j].at \in {"load", "settle"}
    /\ \E a \in Left(j) \cap authed : Dial(j, a, Left(j) \ {a}, job[j].op)
    /\ UNCHANGED <<rows, manager, health, keepers, entangled>>

\* Every account is done: start() creates the health task and the keeper task.
StartDone(j) ==
    /\ job[j].at \in {"load", "settle"} /\ Left(j) = {}
    /\ \/ /\ job[j].op = "restart"
          /\ \E l \in Loops :
                 /\ health[l].at = "none" /\ l \notin keepers
                 /\ health' = [health EXCEPT ![l] = [NoTask EXCEPT !.at = "sleep"]]
                 /\ keepers' = keepers \cup {l}
                 /\ task' = l
       \/ job[j].op = "add" /\ UNCHANGED <<health, keepers, task>>
    /\ job' = [job EXCEPT ![j] = Idle]
    /\ UNCHANGED <<rows, object, clients, failures, registered, running, entangled>>

\* The job ends early: the database failed it, an account has no session string, or the
\* start-up took more than 30 s.  start() has set _running, and it stays set.
Aborted(j) ==
    /\ \/ job[j].at \in {"load", "settle"}
       \/ job[j].at = "connect" /\ j = Boot
    /\ job' = [job EXCEPT ![j] = Idle]
    /\ UNCHANGED <<rows, object, manager, health, keepers, entangled>>

\* Mutated: the handlers are put on the client whenever it connects.
WireAlways(o, obj) ==
    /\ object' = [obj EXCEPT ![o].wired = IF @ < 2 THEN @ + 1 ELSE @]
    /\ registered' = registered \cup {obj[o].acct}

\* _register_handlers: once for each account.
Wire(o, obj) ==
    /\ object' = IF obj[o].acct \in registered THEN obj
                 ELSE [obj EXCEPT ![o].wired = IF @ < 2 THEN @ + 1 ELSE @]
    /\ registered' = registered \cup {obj[o].acct}

\* add_account(): connected, the client gets its handlers and enters the table.
Added(j) ==
    LET o == job[j].obj
        a == object[o].acct
    IN  /\ job[j].at = "connect"
        /\ Wire(o, [object EXCEPT ![o].flag = TRUE, ![o].link = TRUE])
        /\ clients' = [clients EXCEPT ![a] = o]
        /\ failures' = [failures EXCEPT ![a] = 0]
        /\ job' = [job EXCEPT ![j].at = "settle", ![j].obj = None]
        /\ UNCHANGED <<rows, running, task, health, keepers, entangled>>

\* connect() returned False; the link may be up when the session is not authorised.
NotAdded(j) ==
    /\ job[j].at = "connect"
    /\ \E up \in BOOLEAN : object' = [object EXCEPT ![job[j].obj].link = up]
    /\ job' = [job EXCEPT ![j].at = "settle", ![j].obj = None]
    /\ UNCHANGED <<rows, manager, health, keepers, entangled>>

----------------------------------------------------------------------------
(* The health loop and the keeper *)

\* Telethon gave up on the link of o.
LinkLost(o) ==
    /\ object[o].link
    /\ object' = [object EXCEPT ![o].link = FALSE]
    /\ UNCHANGED <<rows, manager, health, keepers, job, entangled>>

Down(l) == LET todo == IF health[l].at = "sleep" THEN {<<a, clients[a]>> : a \in Mapped}
                       ELSE health[l].todo
           IN  {p \in todo : ~Connected(p[2])}

\* Mutated: the limit is forgotten.
NeverGivenUp(a) == a \notin Accounts

\* Too many failed rounds: the client is not reconnected any more.
GivenUp(a) == failures[a] >= MaxFailures

\* The round goes on with a client that is not connected: reconnect it, or only alert.
CheckNext(l) ==
    /\ health[l].at \in {"sleep", "alert"}
    /\ \E p \in Down(l) :
           health' = [health EXCEPT ![l] =
               IF GivenUp(p[1])
               THEN [NoTask EXCEPT !.at = "alert", !.todo = Down(l) \ {p}]
               ELSE [at |-> "connect", todo |-> Down(l) \ {p}, obj |-> p[2], fails |-> failures[p[1]]]]
    /\ UNCHANGED <<rows, object, manager, keepers, job, entangled>>

\* The round is over: sleep again, or end when the manager was stopped.
RoundOver(l) ==
    /\ health[l].at \in {"sleep", "alert"} /\ Down(l) = {}
    /\ health' = [health EXCEPT ![l] = IF running THEN [NoTask EXCEPT !.at = "sleep"] ELSE NoTask]
    /\ UNCHANGED <<rows, object, manager, keepers, job, entangled>>

\* One of the five attempts of reconnect_with_backoff fails, possibly with the link up.
AttemptFailed(l) ==
    /\ health[l].at = "connect"
    /\ \E up \in BOOLEAN : object' = [object EXCEPT ![health[l].obj].link = up]
    /\ UNCHANGED <<rows, manager, health, keepers, job, entangled>>

Relinked(l) ==
    /\ health[l].at = "connect"
    /\ object' = [object EXCEPT ![health[l].obj].flag = TRUE, ![health[l].obj].link = TRUE]
    /\ health' = [health EXCEPT ![l].at = "linked"]
    /\ UNCHANGED <<rows, manager, keepers, job, entangled>>

\* After the alert of reconnect_with_backoff the client gets its handlers.
Rewired(l) ==
    /\ health[l].at = "linked"
    /\ Wire(health[l].obj, object)
    /\ failures' = [failures EXCEPT ![object[health[l].obj].acct] = 0]
    /\ health' = [health EXCEPT ![l] = [@ EXCEPT !.at = "alert", !.obj = None, !.fails = 0]]
    /\ UNCHANGED <<rows, clients, running, task, keepers, job, entangled>>

\* That alert could not be stored: the attempt counts as failed.
RelinkUnseen(l) ==
    /\ health[l].at = "linked"
    /\ health' = [health EXCEPT ![l].at = "connect"]
    /\ UNCHANGED <<rows, object, manager, keepers, job, entangled>>

\* Mutated: a failed round is not counted.
CountNothing(l) == UNCHANGED failures

CountFailure(l) ==
    failures' = [failures EXCEPT ![object[health[l].obj].acct] = health[l].fails + 1]

\* All attempts failed.
GaveUp(l) ==
    /\ health[l].at = "connect"
    /\ CountFailure(l)
    /\ health' = [health EXCEPT ![l] = [@ EXCEPT !.at = "alert", !.obj = None, !.fails = 0]]
    /\ UNCHANGED <<rows, object, clients, registered, running, task, keepers, job, entangled>>

\* An alert could not be stored: the exception ends the health task, unnoticed.
HealthDies(l) ==
    /\ health[l].at \in {"connect", "alert"}
    /\ health' = [health EXCEPT ![l] = NoTask]
    /\ UNCHANGED <<rows, object, manager, keepers, job, entangled>>

\* A keeper that nobody cancelled finds the manager stopped.
KeeperEnds(l) ==
    /\ l \in keepers /\ ~running
    /\ keepers' = keepers \ {l}
    /\ UNCHANGED <<rows, object, manager, health, job, entangled>>

Settled(l) == Rewired(l) \/ GaveUp(l)

HealthStep(l) == CheckNext(l) \/ RoundOver(l) \/ Relinked(l) \/ Settled(l)

MNext ==
    \/ \E a \in Accounts : Toggle(a)
    \/ \E j \in Calls : \/ \E a \in Accounts : PostAccount(j, a)
                        \/ TapStart(j) \/ TapStop(j) \/ TapRestart(j)
    \/ \E j \in Jobs : \/ StopOne(j) \/ StopDone(j) \/ StopBroken(j)
                       \/ AddNext(j) \/ StartDone(j) \/ Aborted(j) \/ Added(j) \/ NotAdded(j)
    \/ \E o \in Objects : LinkLost(o)
    \/ \E l \in Loops : HealthStep(l) \/ AttemptFailed(l) \/ RelinkUnseen(l) \/ HealthDies(l) \/ KeeperEnds(l)

MSpec == MInit /\ [][MNext]_mvars

\* Timers fire, and the five attempts of a reconnection come to an end.
MFairSpec == MSpec /\ \A l \in Loops : WF_mvars(HealthStep(l)) /\ SF_mvars(Settled(l))

----------------------------------------------------------------------------
(* Properties *)

\* Every variable of the manager keeps its type, and the table of clients holds for an
\* account only objects made for that account.
ManagerTypeOK ==
    /\ active \subseteq known /\ authed \subseteq known /\ known \subseteq Accounts
    /\ object \in [Objects -> Object]
    /\ clients \in [Accounts -> Objects \cup {None}]
    /\ \A a \in Mapped : object[clients[a]].acct = a
    /\ failures \in [Accounts -> 0..MaxFailures]
    /\ registered \subseteq Accounts /\ running \in BOOLEAN
    /\ health \in [Loops -> Health] /\ keepers \subseteq Loops /\ task \in Loops \cup {None}
    /\ job \in [Jobs -> Job] /\ entangled \in BOOLEAN

\* However starts, restarts and reconnections interleave, a private message to an account
\* is handled once: over all client objects of an account, forgotten ones included, the
\* handler is registered at most once (manager.py:91-98).
AnsweredOnce ==
    \A o, p \in Objects :
        /\ object[o].wired <= 1
        /\ (object[o].acct = object[p].acct /\ object[o].wired = 1 /\ object[p].wired = 1) => o = p

\* When the manager was stopped and no job is under way, no client is connected and no
\* loop is left that could reconnect one, unless jobs overlapped (manager.py:182-195).
StoppedIsSilent ==
    (~running /\ ~entangled /\ \A j \in Jobs : job[j].at = "idle") =>
        /\ \A o \in Objects : ~Connected(o)
        /\ \A l \in Loops : health[l].at = "none" /\ l \notin keepers

\* A client of the table that lost its link is reconnected, or its failures reach the
\* limit, or it leaves the table, as long as a health task lives (manager.py:153-173).
LossNoticed ==
    \A a \in Accounts :
        (clients[a] # None /\ ~Connected(clients[a])) ~>
            \/ clients[a] = None \/ Connected(clients[a])
            \/ failures[a] = MaxFailures
            \/ \A l \in Loops : health[l].at = "none"

\* The message with which _register_handlers skips a client says what it assumes: an
\* account that is marked has its handlers on the client in the table (manager.py:93), be
\* it that no two jobs ever overlapped.
SkippedClientHasHandlers ==
    ~entangled => \A a \in Mapped : a \in registered => object[clients[a]].wired = 1

\* AUDIT.md item 11: the health check is not run twice at the same time.
OneHealthLoop ==
    \A l, m \in Loops : (health[l].at # "none" /\ health[m].at # "none") => l = m

=============================================================================
