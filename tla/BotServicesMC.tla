----------------------------- MODULE BotServicesMC -----------------------------
(***************************************************************************)
(* Two services the sales bot rests on and that share no state: the        *)
(* userbot manager and the AI engine.  Every behaviour is one of one of    *)
(* them; the other stays as it starts.                                     *)
(***************************************************************************)
EXTENDS UserbotManagerMC, AiEngineMC

VARIABLE part

bvars == <<part, mvars, evars>>

BotInit ==
    /\ part \in {"manager", "engine"}
    /\ MInit /\ EInit
    /\ part = "manager" \/ known = {}

BotNext ==
    /\ UNCHANGED part
    /\ \/ part = "manager" /\ MNext /\ UNCHANGED evars
       \/ part = "engine"  /\ ENext /\ UNCHANGED mvars

\* The fairness of MFairSpec and EFairSpec.
BotSpec ==
    /\ BotInit /\ [][BotNext]_bvars
    /\ \A l \in Loops : WF_mvars(HealthStep(l)) /\ SF_mvars(Settled(l))
    /\ \A c \in Asks : WF_evars(Proceed(c))

\* Every variable of the two parts keeps its type.
BotTypeOK == ManagerTypeOK /\ EngineTypeOK
=============================================================================
