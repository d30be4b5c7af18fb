----------------------------- MODULE MaintenanceMC -----------------------------
(***************************************************************************)
(* The two duties of the maintenance loop, which share no state: the sweep *)
(* over due posts and the rounds that raise alerts.  Every behaviour is    *)
(* one of one of them; the other stays as it starts.                       *)
(***************************************************************************)
EXTENDS PostPipelineMC, HealthAlerts

VARIABLE part

duties == <<part, vars, avars>>

DutiesInit ==
    /\ part \in {"posts", "alerts"}
    /\ Init /\ AInit

DutiesNext ==
    /\ UNCHANGED part
    /\ \/ part = "posts"  /\ Next /\ UNCHANGED avars
       \/ part = "alerts" /\ ANext /\ UNCHANGED vars

\* The fairness of FairSpec, except for the start of the process, which is no business of
\* the alerts, and of AFairSpec.
DutiesSpec ==
    /\ DutiesInit /\ [][DutiesNext]_duties
    /\ WF_vars(StartSweep) /\ WF_vars(PublishStep(Sweeper)) /\ WF_vars(ResumePosting)
    /\ WF_duties(part = "posts" /\ SetPublisherManager /\ UNCHANGED <<part, avars>>)
    /\ AFairness
================================================================================
