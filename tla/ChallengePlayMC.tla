--------------------------- MODULE ChallengePlayMC ---------------------------
(* Values for checking ChallengePlay with TLC. *)
EXTENDS ChallengePlay, TLC

CONSTANTS u1, u2, h1, h2

TwoUsers == {u1, u2}
TwoHandlers == {h1, h2}

Symmetry == Permutations(Users) \cup Permutations(Handlers)

\* Two shapes of a run that together are small enough: any number of users with no legacy
\* rows and one challenge, or one user with any challenges and legacy rows.
OneChallenge ==
    /\ \A c \in Challenges \ {1} :
           status[c] = "unborn" /\ \A h \in Handlers : task[h].chal # c
    /\ joined = linked

OneUser ==
    Cardinality({u \in Users : \/ u \in members
                               \/ \E h \in Handlers : u \in {task[h].user, task[h].code}
                               \/ \E c \in Challenges : <<u, c>> \in joined}) <= 1

Small == OneChallenge \/ OneUser
=============================================================================
