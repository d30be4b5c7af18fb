------------------------------ MODULE HealthAlerts ------------------------------
(***************************************************************************)
(* How the admins hear that something is wrong.  The maintenance loop      *)
(* probes the services every half hour and the load every five minutes,    *)
(* and the userbot's health task reports lost accounts; all of them go     *)
(* through send_alert, which asks the cache for a cooldown, stores the     *)
(* alert in the database, sets the cooldown and tells the admins.          *)
(* A cache or database that does not answer raises on the way.             *)
(***************************************************************************)
EXTENDS Naturals, FiniteSets

CONSTANTS
    Watch,      \* the loop that runs the health and the metrics task
    Losses,     \* the tasks that report the loss of one account
    MaxDown     \* services that are down at the same time (a bound)

ASSUME WatchIsNoLoss == Watch \notin Losses

VARIABLES
    services,   \* the services that answer
    load,       \* CPU (or memory, or disk) against the thresholds
    last,       \* system:last_health_status
    cool,       \* the alert_cooldown keys that are alive
    report      \* report[w]: where task w is

avars == <<services, load, last, cool, report>>

Services == {"database", "redis", "ai"}
Loads == {"fine", "high", "top"}

\* kind and the failing services are in the text of an alert; so is the severity of a load,
\* but for that there is a dedup_key.
Alert == [kind: {"critical", "degraded", "restored", "load", "lost"},
          failing: SUBSET Services, grade: Loads]

\* Mutated: the cooldown is kept per message.
KeyByMessage(a) == a

\* The condition an alert is about.
Condition(a) == [a EXCEPT !.grade = "fine"]

Key(a) == Condition(a)

About(kind) == [kind |-> kind, failing |-> {}, grade |-> "fine"]
OverallOf(failing) ==
    IF failing \cap {"database", "redis"} # {} THEN "critical"
    ELSE IF failing # {} THEN "degraded" ELSE "ok"

\* Mutated: a recovery has a cooldown like any other alert.
MarkAll(kind) == "mark"

\* A recovery is told without a cooldown.
AfterCommit(kind) == IF kind = "restored" THEN "tell" ELSE "mark"

Report == [at: {"idle", "read", "ask", "store", "mark", "tell", "note", "dead"},
           status: {"none", "ok", "degraded", "critical"}, alert: Alert]
Silent == [at |-> "idle", status |-> "none", alert |-> About("load")]

AInit ==
    /\ services = Services /\ load = "fine"
    /\ last = "none" /\ cool = {}
    /\ report = [w \in Losses \cup {Watch} |-> Silent]

----------------------------------------------------------------------------
Go(w, at) == report' = [report EXCEPT ![w].at = at]

\* Mutated: an exception ends the loop.
Dies(w) == Go(w, "dead")

\* The tasks catch what is raised, and the loop goes on.
Raised(w) == report' = [report EXCEPT ![w] = Silent]

\* What comes after an alert: a round of the health check notes its status.
Resumed(w) == IF report[w].status = "none" THEN Raised(w) ELSE Go(w, "note")

\* full_health_check() asks all the services.
Probe ==
    /\ report[Watch].at = "idle"
    /\ report' = [report EXCEPT ![Watch] =
           [at |-> "read", status |-> OverallOf(Services \ services),
            alert |-> [About("critical") EXCEPT !.failing = Services \ services]]]
    /\ UNCHANGED <<services, load, last, cool>>

\* The status of the round before decides: an outage is always reported, a degradation when
\* all was well before, and a recovery without a cooldown.
ReadLast ==
    /\ report[Watch].at = "read"
    /\ LET now == report[Watch].status
           alarm(kind, at) == report' = [report EXCEPT ![Watch].at = at, ![Watch].alert.kind = kind]
       IN  \/ "redis" \notin services /\ Raised(Watch)
           \/ /\ "redis" \in services
              /\ \/ now = "critical" /\ alarm("critical", "ask")
                 \/ now = "degraded" /\ last = "ok" /\ alarm("degraded", "ask")
                 \/ now = "ok" /\ last \in {"critical", "degraded"} /\ alarm("restored", "store")
                 \/ now = "degraded" /\ last # "ok" /\ Go(Watch, "note")
                 \/ now = "ok" /\ last \in {"none", "ok"} /\ Go(Watch, "note")
    /\ UNCHANGED <<services, load, last, cool>>

\* task_collect_metrics stores what it measured, and then compares it with the thresholds.
Measure ==
    /\ report[Watch].at = "idle" /\ "redis" \in services /\ load # "fine"
    /\ report' = [report EXCEPT ![Watch] =
                     [at |-> "ask", status |-> "none", alert |-> [About("load") EXCEPT !.grade = load]]]
    /\ UNCHANGED <<services, load, last, cool>>

\* notify_account_disconnected
Lose(w) ==
    /\ report[w].at = "idle"
    /\ report' = [report EXCEPT ![w] = [at |-> "ask", status |-> "none", alert |-> About("lost")]]
    /\ UNCHANGED <<services, load, last, cool>>

\* send_alert: suppressed while on cooldown.
AskCooldown(w) ==
    /\ report[w].at = "ask"
    /\ \/ "redis" \notin services /\ Raised(w)
       \/ "redis" \in services /\ Key(report[w].alert) \in cool /\ Resumed(w)
       \/ "redis" \in services /\ Key(report[w].alert) \notin cool /\ Go(w, "store")
    /\ UNCHANGED <<services, load, last, cool>>

\* The alert is committed.
CommitAlert(w) ==
    /\ report[w].at = "store"
    /\ \/ "database" \notin services /\ Raised(w)
       \/ /\ "database" \in services
          /\ Go(w, AfterCommit(report[w].alert.kind))
    /\ UNCHANGED <<services, load, last, cool>>

\* The cooldown is set.
SetCooldown(w) ==
    /\ report[w].at = "mark"
    /\ \/ "redis" \notin services /\ Raised(w) /\ cool' = cool
       \/ /\ "redis" \in services /\ Go(w, "tell")
          /\ cool' = cool \cup {Key(report[w].alert)}
    /\ UNCHANGED <<services, load, last>>

\* The admins are told; that a message does not arrive is only logged.
Tell(w) ==
    /\ report[w].at = "tell" /\ Resumed(w)
    /\ UNCHANGED <<services, load, last, cool>>

\* The status of the round is remembered.
Note ==
    /\ report[Watch].at = "note" /\ Raised(Watch)
    /\ last' = IF "redis" \in services THEN report[Watch].status ELSE last
    /\ UNCHANGED <<services, load, cool>>

\* A key's hour is over.
Expire(k) ==
    /\ k \in cool
    /\ cool' = cool \ {k}
    /\ UNCHANGED <<services, load, last, report>>

\* ... or that of the remembered status, or the cache is a new one.
Forget ==
    /\ last' = "none"
    /\ cool' \in {cool, {}}
    /\ UNCHANGED <<services, load, report>>

ServiceChanges(s) ==
    /\ \/ s \notin services /\ services' = services \cup {s}
       \/ Cardinality(Services \ services) < MaxDown /\ services' = services \ {s}
    /\ UNCHANGED <<load, last, cool, report>>

LoadChanges ==
    /\ load' \in Loads \ {load}
    /\ UNCHANGED <<services, last, cool, report>>

WatchStep == ReadLast \/ AskCooldown(Watch) \/ CommitAlert(Watch) \/ SetCooldown(Watch) \/ Tell(Watch) \/ Note

ANext ==
    \/ Probe \/ Measure \/ WatchStep \/ Forget \/ LoadChanges
    \/ \E w \in Losses : Lose(w) \/ AskCooldown(w) \/ CommitAlert(w) \/ SetCooldown(w) \/ Tell(w)
    \/ \E k \in cool : Expire(k)
    \/ \E s \in Services : ServiceChanges(s)

ASpec == AInit /\ [][ANext]_avars

\* The maintenance loop comes round, a task it awaits goes on, and keys have a TTL.
AFairness ==
    /\ SF_avars(Measure) /\ WF_avars(WatchStep)
    /\ WF_avars(Expire(About("load")))

AFairSpec == ASpec /\ AFairness

----------------------------------------------------------------------------
(* Properties *)

\* Every variable of the alerts keeps its type, and a recovery has no cooldown.
AlertsTypeOK ==
    /\ services \subseteq Services /\ load \in Loads
    /\ last \in {"none", "ok", "degraded", "critical"}
    /\ cool \subseteq Alert /\ \A k \in cool : k.kind # "restored"
    /\ report \in [Losses \cup {Watch} -> Report]

\* No condition is reported again while its cooldown runs, whatever the text of the alert
\* says and whichever alert failed on the way (alerting.py:48-55, 70-71).
QuietHour ==
    [][\A w \in Losses \cup {Watch} :
          (report[w].at = "store" /\ report'[w].at = "mark") =>
              \A k \in cool : Condition(k) # Condition(report[w].alert)]_avars

\* A load that stays above a threshold is reported again and again, once the database and
\* the cache answer: no failure before that ends the loop (main.py:138-141, 160-164).
LoadKeepsRinging ==
    <>[](load # "fine" /\ {"database", "redis"} \subseteq services) =>
        []<>(report[Watch].at = "tell" /\ report[Watch].alert.kind = "load")

================================================================================
