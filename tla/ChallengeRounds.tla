---------------------------- MODULE ChallengeRounds ----------------------------
(***************************************************************************)
(* When challenges are created and published: the scheduler of every web   *)
(* process looks every ten minutes whether one is due, and the admins have *)
(* one created with a command or over REST at any time.  A challenge is    *)
(* written for up to a minute, announced in channel after channel, and     *)
(* committed when that is over: all of it is one transaction.              *)
(***************************************************************************)
EXTENDS Integers, FiniteSets

CONSTANTS
    Ids,        \* challenges (a bound)
    Makers,     \* creations under way at the same time
    Interval,   \* CHALLENGE_INTERVAL_HOURS
    Duration,   \* CHALLENGE_DURATION_HOURS
    RetryAfter, \* the hour after which a failed publication is repeated
    LastHour,   \* the time that is modelled (a bound)
    NoId

ASSUME RoundTimes ==
    Interval \in Nat \ {0} /\ Duration \in Nat \ {0} /\ RetryAfter \in Nat /\ LastHour \in Nat
ASSUME NoIdIsNone == NoId \notin Ids

VARIABLES
    hour,
    round,      \* round[i]: the committed row of a challenge
    maker,      \* maker[m]: where a creation is
    boot,       \* what the first look of the scheduler since the start of the process did
    orderly     \* history: no two creations overlapped and none was ordered by an admin

cvars == <<hour, round, maker, boot, orderly>>

Hours == 0..LastHour
Round == [status: {"none", "active", "publish_failed"}, born: Hours, starts: Hours,
          ends: 0..(LastHour + Duration), auto: BOOLEAN]
NoRound == [status |-> "none", born |-> 0, starts |-> 0, ends |-> 0, auto |-> FALSE]

Maker == [at: {"idle", "write", "announce", "commit"}, id: Ids \cup {NoId}, of: Round]
NoMaker == [at |-> "idle", id |-> NoId, of |-> NoRound]

CInit ==
    /\ hour = 0
    /\ round = [i \in Ids |-> NoRound]
    /\ maker = [m \in Makers |-> NoMaker]
    /\ boot = "none yet"
    /\ orderly = TRUE

----------------------------------------------------------------------------
Rows == {i \in Ids : round[i].status # "none"}

\* get_active_challenge finds one.
Running(i) == round[i].status = "active" /\ round[i].starts <= hour /\ hour < round[i].ends

\* The row that was created last.
Latest(i) == i \in Rows /\ \A j \in Rows : round[j].born <= round[i].born

\* Mutated: an hour after a failure or an interval after the last challenge, whatever runs.
DueByLatest ==
    Rows = {} \/ \E i \in Rows : Latest(i) /\ round[i].born < hour - Interval

\* No challenge is running, and the last one failed an hour ago or is an interval old.
Due ==
    /\ \A i \in Ids : ~Running(i)
    /\ \/ Rows = {}
       \/ \E i \in Rows :
              /\ Latest(i)
              /\ \/ round[i].status = "publish_failed" /\ round[i].born < hour - RetryAfter
                 \/ round[i].born < hour - Interval

\* Mutated: a challenge in the making is not told from a new one.
AllFree == Ids \ Rows

Free == Ids \ (Rows \cup {maker[m].id : m \in Makers})

\* The row will have the time of the transaction's begin as created_at.
Make(m, auto) ==
    /\ maker[m].at = "idle"
    /\ \E i \in Free :
           maker' = [maker EXCEPT ![m] =
               [at |-> "write", id |-> i, of |-> [NoRound EXCEPT !.born = hour, !.auto = auto]]]
    /\ orderly' = (orderly /\ auto /\ \A o \in Makers : maker[o].at = "idle")

\* The scheduler's look.
LookDue(m) ==
    /\ Due /\ Make(m, TRUE)
    /\ boot' = IF boot = "none yet" THEN "made one" ELSE boot
    /\ UNCHANGED <<hour, round>>

LookNotDue ==
    /\ ~Due /\ boot = "none yet" /\ boot' = "passed"
    /\ UNCHANGED <<hour, round, maker, orderly>>

\* /challenge and POST /challenges do not ask what is running.
Order(m) ==
    /\ Make(m, FALSE)
    /\ UNCHANGED <<hour, round, boot>>

\* The challenge is written (by the AI or from the texts in the code) and will run from now.
Written(m) ==
    /\ maker[m].at = "write"
    /\ maker' = [maker EXCEPT ![m].at = "announce", ![m].of.starts = hour,
                              ![m].of.ends = hour + Duration]
    /\ UNCHANGED <<hour, round, boot, orderly>>

\* The announcement reaches a channel or none.
Announce(m) ==
    /\ maker[m].at = "announce"
    /\ \E status \in {"active", "publish_failed"} :
           maker' = [maker EXCEPT ![m].at = "commit", ![m].of.status = status]
    /\ UNCHANGED <<hour, round, boot, orderly>>

\* The transaction is committed.
Store(m) ==
    /\ maker[m].at = "commit"
    /\ round' = [round EXCEPT ![maker[m].id] = maker[m].of]
    /\ maker' = [maker EXCEPT ![m] = NoMaker]
    /\ UNCHANGED <<hour, boot, orderly>>

\* It is not: there are no channels, there is an exception, or the commit fails.
Failed(m) ==
    /\ maker[m].at # "idle"
    /\ maker' = [maker EXCEPT ![m] = NoMaker]
    /\ UNCHANGED <<hour, round, boot, orderly>>

\* The process restarts.
Reboot ==
    /\ maker' = [m \in Makers |-> NoMaker]
    /\ boot' = "none yet"
    /\ UNCHANGED <<hour, round, orderly>>

HourPasses ==
    /\ hour < LastHour /\ hour' = hour + 1
    /\ UNCHANGED <<round, maker, boot, orderly>>

CNext ==
    \/ Reboot \/ HourPasses \/ LookNotDue
    \/ \E m \in Makers : LookDue(m) \/ Order(m) \/ Written(m) \/ Announce(m) \/ Store(m) \/ Failed(m)

CSpec == CInit /\ [][CNext]_cvars

----------------------------------------------------------------------------
(* Properties *)

\* Every variable of the rounds keeps its type, and no row is written twice.
RoundsTypeOK ==
    /\ hour \in Hours /\ round \in [Ids -> Round] /\ maker \in [Makers -> Maker]
    /\ boot \in {"none yet", "made one", "passed"} /\ orderly \in BOOLEAN
    /\ \A m \in Makers : maker[m].id \notin Rows

\* Challenges of the scheduler that reached a channel are apart: one starts an interval
\* after the other and when that has ended, however long one was in the making and whatever
\* failed in between (service.py:494, 533-545).
RoundsApart ==
    orderly =>
        \A i, j \in Ids :
            (i # j /\ round[i].status = "active" /\ round[j].status = "active") =>
                LET later(a, b) == /\ round[b].starts >= round[a].starts + Interval
                                   /\ round[b].starts >= round[a].ends
                IN  later(i, j) \/ later(j, i)

\* "The product contract requires a fresh challenge on every process start, including when
\* the previous challenge is still active": the first look after a start makes a challenge
\* (service.py:495-499).
FreshOnStart == boot # "passed"

================================================================================
