---------------------------- MODULE GatesAndRoundsMC ----------------------------
(***************************************************************************)
(* The two gates in front of the bots and the schedule of the challenges,  *)
(* which share no state: the membership gate, the anti-spam gate with the  *)
(* cache under it, and the challenge rounds.  Every behaviour is one of    *)
(* one of them; the others stay as they start.                             *)
(***************************************************************************)
EXTENDS MembershipGate, SpamGate, ChallengeRounds, TLC

\* What goes on at the same time is the same set for all three, so that one symmetry serves.
CONSTANTS k1, k2, w1, w2, i1, i2, i3

GateChannels == {k1, k2}
Actors == {w1, w2}          \* checks, messages and creations
ThreeIds == {i1, i2, i3}

GatesSymmetry == Permutations(Actors) \cup Permutations(Ids)

VARIABLE part

gates == <<part, gvars, svars, cvars>>

GatesInit ==
    /\ part \in {"membership", "spam", "rounds"}
    /\ GInit /\ SInit /\ CInit
    /\ part = "membership" \/ member = {}
    /\ part = "spam" \/ up

GatesNext ==
    /\ UNCHANGED part
    /\ \/ part = "membership" /\ GNext /\ UNCHANGED <<svars, cvars>>
       \/ part = "spam"       /\ SNext /\ UNCHANGED <<gvars, cvars>>
       \/ part = "rounds"     /\ CNext /\ UNCHANGED <<gvars, svars>>

GatesSpec == GatesInit /\ [][GatesNext]_gates

\* Every variable of the three parts keeps its type.
GatesTypeOK == GateTypeOK /\ SpamTypeOK /\ RoundsTypeOK
================================================================================
