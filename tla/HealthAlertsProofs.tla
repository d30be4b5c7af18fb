--------------------------- MODULE HealthAlertsProofs ---------------------------
(***************************************************************************)
(* The cooldown of the alerts keeps what it promises, whatever fails on    *)
(* the way and for whatever is reported: a condition is not reported again *)
(* while its cooldown runs, as long as one task reports a lost account.    *)
(***************************************************************************)
EXTENDS HealthAlerts, TLAPS

Tasks == Losses \cup {Watch}
Places == {"idle", "read", "ask", "store", "mark", "tell", "note", "dead"}
Statuses == {"none", "ok", "degraded", "critical"}
Kinds == {"critical", "degraded", "restored", "load", "lost"}

\* A key names a condition, and a recovery comes nowhere near a cooldown.
Keyed ==
    /\ \A k \in cool : k.grade = "fine"
    /\ \A w \in Tasks : report[w].at \in {"ask", "mark"} => report[w].alert.kind # "restored"

\* The loop reports no lost account, and the health task of the userbot nothing else.
Divided ==
    \A w \in Tasks : report[w].at # "idle" => (report[w].alert.kind = "lost" <=> w \in Losses)

\* What is about to be stored has no cooldown: nobody else reports the same condition.
Unheard ==
    \A w \in Tasks : (report[w].at = "store" /\ report[w].alert.kind # "restored") =>
                         Condition(report[w].alert) \notin cool

AlertsInv == AlertsTypeOK /\ Keyed /\ Divided

\* One task reports the loss of the account.
OneReporter == \A v, w \in Losses : v = w

----------------------------------------------------------------------------
\* What the types say of one task.
LEMMA ReportFields ==
    ASSUME AlertsTypeOK, NEW w \in Tasks
    PROVE  /\ report[w].at \in Places /\ report[w].status \in Statuses /\ report[w].alert \in Alert
           /\ report[w].alert.kind \in Kinds /\ report[w].alert.failing \subseteq Services
           /\ report[w].alert.grade \in Loads
  BY DEF AlertsTypeOK, Report, Alert, Tasks, Places, Statuses, Kinds

LEMMA AlertType ==
    ASSUME NEW kind \in Kinds, NEW failing \in SUBSET Services, NEW grade \in Loads
    PROVE  [kind |-> kind, failing |-> failing, grade |-> grade] \in Alert
  BY DEF Alert, Kinds

LEMMA ReportType ==
    ASSUME NEW at \in Places, NEW status \in Statuses, NEW alert \in Alert
    PROVE  [at |-> at, status |-> status, alert |-> alert] \in Report
  BY DEF Report, Places, Statuses

LEMMA Replaced ==
    ASSUME NEW r \in Report, NEW at \in Places, NEW alert \in Alert
    PROVE  [r EXCEPT !.at = at, !.alert = alert] = [at |-> at, status |-> r.status, alert |-> alert]
  <1> DEFINE s == [r EXCEPT !.at = at]
  <1>1. r.status \in Statuses /\ r.alert \in Alert
    BY DEF Report, Statuses
  <1>2. s = [at |-> at, status |-> r.status, alert |-> r.alert]
    BY DEF Report
  <1>3. s \in Report /\ s.at = at /\ s.status = r.status
    BY <1>1, <1>2, ReportType
  <1>4. [r EXCEPT !.at = at, !.alert = alert] = [s EXCEPT !.alert = alert]
    OBVIOUS
  <1> HIDE DEF s
  <1>5. [s EXCEPT !.alert = alert] = [at |-> s.at, status |-> s.status, alert |-> alert]
    BY <1>3 DEF Report
  <1>6. QED
    BY <1>3, <1>4, <1>5

LEMMA SilentType ==
    /\ Silent \in Report /\ Silent.at = "idle" /\ Silent.status = "none"
    /\ Silent.alert.kind = "load"
  <1>1. About("load") \in Alert /\ About("load").kind = "load"
    BY DEF About, Alert, Loads
  <1>2. Silent \in Report
    BY <1>1, ReportType DEF Silent, Places, Statuses
  <1>3. QED
    BY <1>1, <1>2 DEF Silent

\* The condition of an alert is an alert of the same kind with no grade.
LEMMA ConditionType ==
    ASSUME NEW a \in Alert
    PROVE  /\ Condition(a) \in Alert /\ Condition(a).kind = a.kind /\ Condition(a).grade = "fine"
           /\ a.grade = "fine" => Condition(a) = a
  BY DEF Condition, Alert, Loads

\* A task that goes somewhere takes along what it had, and the others stay.
LEMMA Gone ==
    ASSUME AlertsTypeOK, NEW w \in Tasks, NEW at \in Places, Go(w, at)
    PROVE  /\ report' \in [Tasks -> Report]
           /\ report'[w].at = at /\ report'[w].alert = report[w].alert
           /\ \A o \in Tasks \ {w} : report'[o] = report[o]
  <1> DEFINE new == [at |-> at, status |-> report[w].status, alert |-> report[w].alert]
  <1>1. report \in [Tasks -> Report]
    BY DEF AlertsTypeOK, Tasks
  <1>2. new \in Report
    BY ReportFields, ReportType
  <1>3. new.at = at /\ new.alert = report[w].alert
    OBVIOUS
  <1>4. [report[w] EXCEPT !.at = at] = new
    BY <1>1 DEF Report
  <1>5. report' = [report EXCEPT ![w] = new]
    BY <1>4 DEF Go
  <1> HIDE DEF new
  <1>6. QED
    BY <1>1, <1>2, <1>3, <1>5

\* A task that is put somewhere with an alert of its own.
LEMMA Put ==
    ASSUME AlertsTypeOK, NEW w \in Tasks, NEW new \in Report, report' = [report EXCEPT ![w] = new]
    PROVE  /\ report' \in [Tasks -> Report] /\ report'[w] = new
           /\ \A o \in Tasks \ {w} : report'[o] = report[o]
  BY DEF AlertsTypeOK, Tasks

\* A task that has raised, or resumed, is silent or only notes the status.
LEMMA Resting ==
    ASSUME AlertsTypeOK, NEW w \in Tasks, Raised(w) \/ Resumed(w)
    PROVE  /\ report' \in [Tasks -> Report]
           /\ \/ report'[w].at = "idle"
              \/ report'[w].at = "note" /\ report'[w].alert = report[w].alert
           /\ \A o \in Tasks \ {w} : report'[o] = report[o]
  <1>1. CASE Raised(w)
    BY <1>1, SilentType, Put DEF Raised
  <1>2. CASE Go(w, "note")
    BY <1>2, Gone DEF Places
  <1>3. QED
    BY <1>1, <1>2 DEF Resumed

----------------------------------------------------------------------------
\* A step of one task that puts no key.
LEMMA TaskStep ==
    ASSUME AlertsInv, NEW w \in Tasks, report' \in [Tasks -> Report],
           \A o \in Tasks \ {w} : report'[o] = report[o],
           UNCHANGED <<services, load, cool>>, last' \in Statuses,
           report'[w].at # "idle" => (report'[w].alert.kind = "lost" <=> w \in Losses),
           report'[w].at \in {"ask", "mark"} => report'[w].alert.kind # "restored"
    PROVE  AlertsInv'
  BY DEF AlertsInv, AlertsTypeOK, Keyed, Divided, Tasks, Statuses

\* ... that has no alert to store either, or one that was not on cooldown.
LEMMA UnheardStep ==
    ASSUME Unheard, NEW w \in Tasks, \A o \in Tasks \ {w} : report'[o] = report[o], cool' \subseteq cool,
           (report'[w].at = "store" /\ report'[w].alert.kind # "restored") =>
               Condition(report'[w].alert) \notin cool
    PROVE  Unheard'
  BY DEF Unheard

\* A status is one of those of a round.
LEMMA OverallType ==
    ASSUME NEW failing
    PROVE  OverallOf(failing) \in Statuses
  BY DEF OverallOf, Statuses

\* What a task does inside send_alert.
LEMMA SendStep ==
    ASSUME AlertsInv, NEW w \in Tasks, AskCooldown(w) \/ CommitAlert(w) \/ SetCooldown(w) \/ Tell(w)
    PROVE  AlertsInv' /\ (Unheard /\ OneReporter => Unheard')
  <1>1. /\ AlertsTypeOK /\ report[w].at # "idle" /\ last' \in Statuses
        /\ report[w].alert \in Alert /\ (report[w].alert.kind = "lost" <=> w \in Losses)
    BY ReportFields DEF AlertsInv, AlertsTypeOK, Divided, Statuses, AskCooldown, CommitAlert, SetCooldown, Tell
  <1>2. CASE Raised(w) \/ Resumed(w)
    <2>1. CASE UNCHANGED <<services, load, cool>>
      <3>1. /\ report' \in [Tasks -> Report]
            /\ \/ report'[w].at = "idle"
               \/ report'[w].at = "note" /\ report'[w].alert = report[w].alert
            /\ \A o \in Tasks \ {w} : report'[o] = report[o]
        BY <1>1, <1>2, Resting
      <3>2. AlertsInv'
        BY <1>1, <2>1, <3>1, TaskStep
      <3>3. Unheard => Unheard'
        BY <2>1, <3>1, UnheardStep
      <3>4. QED
        BY <3>2, <3>3
    <2>2. UNCHANGED <<services, load, cool>>
      <3>1. CASE SetCooldown(w)
        <4>1. report'[w].at # "tell"
          BY <1>1, <1>2, Resting
        <4>2. ~Go(w, "tell")
          BY <1>1, <4>1, Gone DEF Places
        <4>3. QED
          BY <3>1, <4>2 DEF SetCooldown
      <3>2. CASE ~SetCooldown(w)
        BY <3>2 DEF AskCooldown, CommitAlert, Tell
      <3>3. QED
        BY <3>1, <3>2
    <2>3. QED
      BY <2>1, <2>2
  <1>3. CASE AskCooldown(w) /\ ~(Raised(w) \/ Resumed(w))
    <2>1. /\ report[w].at = "ask" /\ Key(report[w].alert) \notin cool /\ Go(w, "store")
          /\ UNCHANGED <<services, load, last, cool>>
      BY <1>3 DEF AskCooldown
    <2>2. /\ report' \in [Tasks -> Report]
          /\ report'[w].at = "store" /\ report'[w].alert = report[w].alert
          /\ \A o \in Tasks \ {w} : report'[o] = report[o]
      BY <1>1, <2>1, Gone DEF Places
    <2>3. AlertsInv'
      BY <1>1, <2>1, <2>2, TaskStep
    <2>4. Unheard => Unheard'
      BY <2>1, <2>2, UnheardStep DEF Key
    <2>5. QED
      BY <2>3, <2>4
  <1>4. CASE CommitAlert(w) /\ ~Raised(w)
    <2>1. /\ report[w].at = "store" /\ Go(w, AfterCommit(report[w].alert.kind))
          /\ UNCHANGED <<services, load, last, cool>>
      BY <1>4 DEF CommitAlert
    <2> DEFINE at == AfterCommit(report[w].alert.kind)
    <2>2. at \in {"tell", "mark"} /\ (at = "mark" => report[w].alert.kind # "restored")
      BY DEF AfterCommit
    <2>3. Go(w, at)
      BY <2>1
    <2> HIDE DEF at
    <2>4. /\ report' \in [Tasks -> Report]
          /\ report'[w].at = at /\ report'[w].alert = report[w].alert
          /\ \A o \in Tasks \ {w} : report'[o] = report[o]
      BY <1>1, <2>2, <2>3, Gone DEF Places
    <2>5. AlertsInv'
      BY <1>1, <2>1, <2>2, <2>4, TaskStep
    <2>6. Unheard => Unheard'
      BY <2>1, <2>2, <2>4, UnheardStep
    <2>7. QED
      BY <2>5, <2>6
  <1>5. CASE SetCooldown(w) /\ ~Raised(w)
    <2>1. /\ report[w].at = "mark" /\ Go(w, "tell")
          /\ cool' = cool \cup {Condition(report[w].alert)}
          /\ UNCHANGED <<services, load, last>>
      BY <1>5 DEF SetCooldown, Key
    <2>2. /\ report' \in [Tasks -> Report]
          /\ report'[w].at = "tell" /\ report'[w].alert = report[w].alert
          /\ \A o \in Tasks \ {w} : report'[o] = report[o]
      BY <1>1, <2>1, Gone DEF Places
    <2>3. /\ Condition(report[w].alert) \in Alert
          /\ Condition(report[w].alert).kind = report[w].alert.kind
          /\ Condition(report[w].alert).grade = "fine"
      BY <1>1, ConditionType
    <2>4. report[w].alert.kind # "restored"
      BY <2>1 DEF AlertsInv, Keyed
    <2>5. AlertsInv'
      BY <1>1, <2>1, <2>2, <2>3, <2>4 DEF AlertsInv, AlertsTypeOK, Keyed, Divided, Tasks, Statuses
    <2>6. ASSUME Unheard, OneReporter
          PROVE  Unheard'
      <3> SUFFICES ASSUME NEW o \in Tasks, report'[o].at = "store", report'[o].alert.kind # "restored"
                   PROVE  Condition(report'[o].alert) \notin cool'
        BY DEF Unheard
      <3>1. o # w /\ report'[o] = report[o]
        BY <2>2
      <3>2. (o \in Losses) # (w \in Losses)
        BY <2>6, <3>1 DEF OneReporter, Tasks
      <3>3. report[o].alert \in Alert /\ (report[o].alert.kind = "lost" <=> o \in Losses)
        BY <1>1, <3>1, ReportFields DEF AlertsInv, Divided
      <3>4. Condition(report[o].alert).kind = report[o].alert.kind
        BY <3>3, ConditionType
      <3>5. Condition(report[o].alert) # Condition(report[w].alert)
        BY <1>1, <2>3, <3>2, <3>3, <3>4
      <3>6. Condition(report[o].alert) \notin cool
        BY <2>6, <3>1 DEF Unheard
      <3>7. QED
        BY <2>1, <3>1, <3>5, <3>6
    <2>7. QED
      BY <2>5, <2>6
  <1>6. QED
    BY <1>2, <1>3, <1>4, <1>5 DEF Tell

\* A task starts to report something: a round of the health check, a load or a lost account.
LEMMA StartStep ==
    ASSUME AlertsInv, Probe \/ Measure \/ \E w \in Losses : Lose(w)
    PROVE  AlertsInv' /\ (Unheard => Unheard')
  <1>1. /\ AlertsTypeOK /\ UNCHANGED <<services, load, last, cool>> /\ last' \in Statuses
    BY DEF AlertsInv, AlertsTypeOK, Statuses, Probe, Measure, Lose
  <1>2. ASSUME NEW w \in Tasks, NEW new \in Report, report' = [report EXCEPT ![w] = new],
               new.at \in {"read", "ask"}, new.alert.kind = "lost" <=> w \in Losses,
               new.alert.kind # "restored"
        PROVE  AlertsInv' /\ (Unheard => Unheard')
    <2>1. /\ report' \in [Tasks -> Report] /\ report'[w] = new
          /\ \A o \in Tasks \ {w} : report'[o] = report[o]
      BY <1>1, <1>2, Put
    <2>2. AlertsInv'
      BY <1>1, <1>2, <2>1, TaskStep
    <2>3. Unheard => Unheard'
      BY <1>1, <1>2, <2>1, UnheardStep
    <2>4. QED
      BY <2>2, <2>3
  <1>3. Watch \in Tasks /\ Watch \notin Losses
    BY WatchIsNoLoss DEF Tasks
  <1>4. CASE Probe
    <2> DEFINE failing == Services \ services
               alert == [kind |-> "critical", failing |-> failing, grade |-> "fine"]
               new == [at |-> "read", status |-> OverallOf(failing), alert |-> alert]
    <2>1. alert \in Alert
      BY AlertType DEF Kinds, Loads
    <2>2. new \in Report /\ new.at = "read" /\ new.alert.kind = "critical"
      BY <2>1, OverallType, ReportType DEF Places
    <2>3. report' = [report EXCEPT ![Watch] = new]
      <3>1. [About("critical") EXCEPT !.failing = failing] = alert
        BY DEF About
      <3>2. QED
        BY <1>4, <3>1 DEF Probe
    <2> HIDE DEF new
    <2>4. QED
      BY <1>2, <1>3, <2>2, <2>3
  <1>5. CASE Measure
    <2> DEFINE alert == [kind |-> "load", failing |-> {}, grade |-> load]
               new == [at |-> "ask", status |-> "none", alert |-> alert]
    <2>1. alert \in Alert
      BY <1>1, AlertType DEF AlertsTypeOK, Kinds
    <2>2. new \in Report /\ new.at = "ask" /\ new.alert.kind = "load"
      BY <2>1, ReportType DEF Places, Statuses
    <2>3. report' = [report EXCEPT ![Watch] = new]
      <3>1. [About("load") EXCEPT !.grade = load] = alert
        BY DEF About
      <3>2. QED
        BY <1>5, <3>1 DEF Measure
    <2> HIDE DEF new
    <2>4. QED
      BY <1>2, <1>3, <2>2, <2>3
  <1>6. ASSUME NEW w \in Losses, Lose(w)
        PROVE  AlertsInv' /\ (Unheard => Unheard')
    <2> DEFINE alert == [kind |-> "lost", failing |-> {}, grade |-> "fine"]
               new == [at |-> "ask", status |-> "none", alert |-> alert]
    <2>1. alert \in Alert
      BY AlertType DEF Kinds, Loads
    <2>2. new \in Report /\ new.at = "ask" /\ new.alert.kind = "lost"
      BY <2>1, ReportType DEF Places, Statuses
    <2>3. report' = [report EXCEPT ![w] = new] /\ w \in Tasks
      BY <1>6 DEF Lose, About, Tasks
    <2> HIDE DEF new
    <2>4. QED
      BY <1>2, <2>2, <2>3
  <1>7. QED
    BY <1>4, <1>5, <1>6

\* The round decides by the status of the one before.
LEMMA ReadStep ==
    ASSUME AlertsInv, ReadLast
    PROVE  AlertsInv' /\ (Unheard => Unheard')
  <1>1. /\ AlertsTypeOK /\ UNCHANGED <<services, load, last, cool>> /\ last' \in Statuses
        /\ Watch \in Tasks /\ Watch \notin Losses /\ report[Watch].at = "read"
        /\ report[Watch].alert.kind # "lost"
    BY WatchIsNoLoss DEF AlertsInv, AlertsTypeOK, Statuses, ReadLast, Tasks, Divided
  <1>2. ASSUME NEW kind \in {"critical", "degraded", "restored"}, NEW at \in {"ask", "store"},
               kind = "restored" <=> at = "store",
               report' = [report EXCEPT ![Watch].at = at, ![Watch].alert.kind = kind]
        PROVE  AlertsInv' /\ (Unheard => Unheard')
    <2> DEFINE old == report[Watch]
               alert == [kind |-> kind, failing |-> old.alert.failing, grade |-> old.alert.grade]
               new == [at |-> at, status |-> old.status, alert |-> alert]
    <2>1. /\ old \in Report /\ old.alert \in Alert /\ old.status \in Statuses
          /\ old.alert.failing \subseteq Services /\ old.alert.grade \in Loads
      BY <1>1, ReportFields DEF AlertsTypeOK, Tasks
    <2>2. alert \in Alert
      BY <2>1, AlertType DEF Kinds
    <2>3. new \in Report /\ new.at = at /\ new.alert.kind = kind
      BY <2>1, <2>2, ReportType DEF Places
    <2>4. report' = [report EXCEPT ![Watch] = new]
      <3>1. [old.alert EXCEPT !.kind = kind] = alert
        BY <2>1 DEF Alert
      <3>2. report' = [report EXCEPT ![Watch] = [old EXCEPT !.at = at, !.alert = [old.alert EXCEPT !.kind = kind]]]
        BY <1>1, <1>2 DEF AlertsTypeOK
      <3>3. [old EXCEPT !.at = at, !.alert = alert] = new
        <4>1. at \in Places
          BY DEF Places
        <4> HIDE DEF old, alert
        <4>2. [old EXCEPT !.at = at, !.alert = alert] = [at |-> at, status |-> old.status, alert |-> alert]
          BY <2>1, <2>2, <4>1, Replaced
        <4>3. QED
          BY <4>2
      <3>4. QED
        BY <3>1, <3>2, <3>3
    <2> HIDE DEF new
    <2>5. /\ report' \in [Tasks -> Report] /\ report'[Watch] = new
          /\ \A o \in Tasks \ {Watch} : report'[o] = report[o]
      BY <1>1, <2>3, <2>4, Put
    <2>6. AlertsInv'
      BY <1>1, <1>2, <2>3, <2>5, TaskStep
    <2>7. Unheard => Unheard'
      BY <1>1, <1>2, <2>3, <2>5, UnheardStep
    <2>8. QED
      BY <2>6, <2>7
  <1>3. CASE Raised(Watch)
    <2>1. /\ report' \in [Tasks -> Report]
          /\ \/ report'[Watch].at = "idle"
             \/ report'[Watch].at = "note" /\ report'[Watch].alert = report[Watch].alert
          /\ \A o \in Tasks \ {Watch} : report'[o] = report[o]
      BY <1>1, <1>3, Resting
    <2>2. QED
      BY <1>1, <2>1, TaskStep, UnheardStep
  <1>4. CASE Go(Watch, "note")
    <2>1. /\ report' \in [Tasks -> Report]
          /\ report'[Watch].at = "note" /\ report'[Watch].alert = report[Watch].alert
          /\ \A o \in Tasks \ {Watch} : report'[o] = report[o]
      BY <1>1, <1>4, Gone DEF Places
    <2>2. QED
      BY <1>1, <2>1, TaskStep, UnheardStep
  <1>5. QED
    BY <1>2, <1>3, <1>4 DEF ReadLast

\* What the loop notes, what is forgotten and what happens to the services and the load.
LEMMA WorldStep ==
    ASSUME AlertsInv,
           \/ Note \/ Forget \/ LoadChanges \/ UNCHANGED avars
           \/ \E k \in cool : Expire(k)
           \/ \E s \in Services : ServiceChanges(s)
    PROVE  AlertsInv' /\ (Unheard => Unheard')
  <1>1. CASE Note
    <2>1. /\ AlertsTypeOK /\ Raised(Watch) /\ Watch \in Tasks /\ UNCHANGED <<services, load, cool>>
      BY <1>1 DEF AlertsInv, Note, Tasks
    <2>2. last' \in Statuses
      BY <1>1, <2>1, ReportFields DEF Note, AlertsTypeOK, Statuses
    <2>3. /\ report' \in [Tasks -> Report] /\ report'[Watch].at = "idle"
          /\ \A o \in Tasks \ {Watch} : report'[o] = report[o]
      BY <2>1, SilentType, Put DEF Raised
    <2>4. QED
      BY <2>1, <2>2, <2>3, TaskStep, UnheardStep
  <1>2. CASE ~Note
    <2>1. UNCHANGED report /\ cool' \subseteq cool /\ last' \in Statuses
      BY <1>2 DEF AlertsInv, AlertsTypeOK, Statuses, Forget, LoadChanges, Expire, ServiceChanges, avars
    <2>2. services' \subseteq Services /\ load' \in Loads
      BY <1>2 DEF AlertsInv, AlertsTypeOK, Forget, LoadChanges, Expire, ServiceChanges, avars
    <2>3. AlertsInv'
      BY <2>1, <2>2 DEF AlertsInv, AlertsTypeOK, Keyed, Divided, Statuses
    <2>4. Unheard => Unheard'
      BY <2>1 DEF Unheard
    <2>5. QED
      BY <2>3, <2>4
  <1>3. QED
    BY <1>1, <1>2

LEMMA AlertsInit == AInit => AlertsInv /\ Unheard
  <1>1. \A w \in Tasks : AInit => report[w] = Silent
    BY DEF AInit, Tasks
  <1>2. AInit => AlertsTypeOK
    BY SilentType DEF AInit, AlertsTypeOK, Loads
  <1>3. AInit => Keyed /\ Divided /\ Unheard
    BY <1>1, SilentType DEF AInit, Keyed, Divided, Unheard
  <1>4. QED
    BY <1>2, <1>3 DEF AlertsInv

\* Every action keeps the invariants.
LEMMA AlertsStep ==
    ASSUME AlertsInv, [ANext]_avars
    PROVE  AlertsInv' /\ (Unheard /\ OneReporter => Unheard')
  <1>1. Watch \in Tasks /\ Losses \subseteq Tasks
    BY DEF Tasks
  <1>2. CASE Probe \/ Measure \/ \E w \in Losses : Lose(w)
    BY <1>2, StartStep
  <1>3. CASE ReadLast
    BY <1>3, ReadStep
  <1>4. CASE \E w \in Tasks : AskCooldown(w) \/ CommitAlert(w) \/ SetCooldown(w) \/ Tell(w)
    BY <1>4, SendStep
  <1>5. CASE \/ Note \/ Forget \/ LoadChanges \/ UNCHANGED avars
             \/ \E k \in cool : Expire(k)
             \/ \E s \in Services : ServiceChanges(s)
    BY <1>5, WorldStep
  <1>6. QED
    BY <1>1, <1>2, <1>3, <1>4, <1>5 DEF ANext, WatchStep

\* However many tasks report at once, every variable of the alerts keeps its type, and a
\* recovery never gets a cooldown.
THEOREM AlertsTyped == ASpec => []AlertsTypeOK
  <1>1. AInit => AlertsInv
    BY AlertsInit
  <1>2. AlertsInv /\ [ANext]_avars => AlertsInv'
    BY AlertsStep
  <1>3. AlertsInv => AlertsTypeOK
    BY DEF AlertsInv
  <1>4. QED
    BY <1>1, <1>2, <1>3, PTL DEF ASpec

\* When one task reports the account, no condition is reported again while its cooldown runs:
\* between the look at the cooldown and the commit of the alert, no other task can have set it.
THEOREM QuietHourSafe == OneReporter => (ASpec => QuietHour)
  <1> SUFFICES ASSUME OneReporter
               PROVE  ASpec => QuietHour
    OBVIOUS
  <1>1. AInit => AlertsInv /\ Unheard
    BY AlertsInit
  <1>2. AlertsInv /\ Unheard /\ [ANext]_avars => (AlertsInv /\ Unheard)'
    BY AlertsStep
  <1>3. ASSUME AlertsInv, Unheard, [ANext]_avars
        PROVE  \A w \in Losses \cup {Watch} :
                   (report[w].at = "store" /\ report'[w].at = "mark") =>
                       \A k \in cool : Condition(k) # Condition(report[w].alert)
    <2> SUFFICES ASSUME NEW w \in Tasks, report[w].at = "store", report'[w].at = "mark", NEW k \in cool
                 PROVE  Condition(k) # Condition(report[w].alert)
      BY DEF Tasks
    <2>1. Condition(k) = k
      <3>1. k \in Alert /\ k.grade = "fine"
        BY <1>3 DEF AlertsInv, AlertsTypeOK, Keyed
      <3>2. QED
        BY <3>1, ConditionType
    <2>2. report[w].alert.kind # "restored"
      <3>1. /\ AlertsTypeOK /\ AlertsTypeOK'
        BY <1>3, AlertsStep DEF AlertsInv
      <3>2. ASSUME NEW v \in Tasks, CommitAlert(v)
            PROVE  report[w].alert.kind # "restored"
        <4>1. v = w
          <5>1. v # w => report'[w] = report[w]
            BY <1>3, <3>1, <3>2 DEF CommitAlert, Raised, Go, AlertsTypeOK, Tasks
          <5>2. QED
            BY <5>1
        <4>2. CASE Raised(v)
          BY <3>1, <4>1, <4>2, SilentType, Put DEF Raised
        <4>3. CASE Go(v, AfterCommit(report[v].alert.kind))
          <5>1. AfterCommit(report[v].alert.kind) \in Places
            BY DEF AfterCommit, Places
          <5>2. report'[v].at = AfterCommit(report[v].alert.kind)
            BY <3>1, <4>3, <5>1, Gone
          <5>3. QED
            BY <4>1, <5>2 DEF AfterCommit
        <4>4. QED
          BY <3>2, <4>2, <4>3 DEF CommitAlert
      <3>3. ASSUME ~\E v \in Tasks : CommitAlert(v)
            PROVE  FALSE
        <4>1. CASE \E v \in Tasks : AskCooldown(v) \/ SetCooldown(v) \/ Tell(v)
          <5>1. PICK v \in Tasks : AskCooldown(v) \/ SetCooldown(v) \/ Tell(v)
            BY <4>1
          <5>2. v # w
            BY <5>1 DEF AskCooldown, SetCooldown, Tell
          <5>3. Raised(v) \/ Resumed(v) \/ Go(v, "store") \/ Go(v, "tell")
            BY <5>1 DEF AskCooldown, SetCooldown, Tell
          <5>4. report'[w] = report[w]
            BY <3>1, <5>2, <5>3, Resting, Gone DEF Places
          <5>5. QED
            BY <5>4
        <4>2. CASE Probe \/ ReadLast \/ Measure \/ Note \/ \E v \in Losses : Lose(v)
          <5>1. \E v \in Tasks : /\ v # w /\ \E new : report' = [report EXCEPT ![v] = new]
            BY <4>2 DEF Probe, ReadLast, Measure, Note, Lose, Raised, Go, Tasks
          <5>2. QED
            BY <3>1, <5>1 DEF AlertsTypeOK, Tasks
        <4>3. CASE UNCHANGED report
          BY <4>3
        <4>4. QED
          BY <1>3, <3>3, <4>1, <4>2, <4>3
             DEF ANext, WatchStep, Forget, LoadChanges, Expire, ServiceChanges, avars, Tasks
      <3>4. QED
        BY <3>2, <3>3
    <2>3. Condition(report[w].alert) \notin cool
      BY <1>3, <2>2 DEF Unheard
    <2>4. QED
      BY <2>1, <2>3
  <1>4. QED
    BY <1>1, <1>2, <1>3, PTL DEF ASpec, QuietHour
================================================================================
