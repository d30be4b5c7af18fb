------------------------------ MODULE AdminPanelMC ------------------------------
(***************************************************************************)
(* Three parts the admin bot works on and that share no state: the proxies *)
(* of the channels, the post wizard of a chat and the channels found in    *)
(* the dialogs.  Every behaviour is one of one of them; the others stay as *)
(* they start.                                                             *)
(***************************************************************************)
EXTENDS ProxyPool, PostWizard, ChannelRegistry, TLC

\* The small sets of the three parts are the same, so that one symmetry serves them all.
CONSTANTS a1, a2, b1, b2, c1, c2, c3

Actors == {a1, a2}          \* presses, tasks and scans
Pairs == {b1, b2}           \* proxies, texts and Telegram channels
Triples == {c1, c2, c3}     \* channels with a proxy, and rows

PanelSymmetry == Permutations(Actors) \cup Permutations(Pairs) \cup Permutations(Triples)

VARIABLE part

panel == <<part, pvars, wvars, rvars>>

PanelInit ==
    /\ part \in {"proxies", "wizard", "channels"}
    /\ PInit /\ WInit /\ RInit
    /\ part = "proxies" \/ (up = {} /\ live = {})
    /\ part = "channels" \/ posting = {}

PanelNext ==
    /\ UNCHANGED part
    /\ \/ part = "proxies"  /\ PNext /\ UNCHANGED <<wvars, rvars>>
       \/ part = "wizard"   /\ WNext /\ UNCHANGED <<pvars, rvars>>
       \/ part = "channels" /\ RNext /\ UNCHANGED <<pvars, wvars>>

PanelSpec == PanelInit /\ [][PanelNext]_panel

\* Every variable of the three parts keeps its type.
PanelTypeOK == PoolTypeOK /\ WizardTypeOK /\ RegistryTypeOK
================================================================================
