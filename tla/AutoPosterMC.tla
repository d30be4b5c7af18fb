----------------------------- MODULE AutoPosterMC -----------------------------
(* Small instances of AutoPoster. *)
EXTENDS AutoPoster, TLC

CONSTANTS c1, c2, m1, m2

TwoChannels == {c1, c2}
TwoJobs == {m1, m2}

\* Channels are interchangeable, and so are manual jobs.
Symmetry == Permutations(Channels) \cup Permutations(Manual)

\* Two shapes of a run that together are small enough: all that happens concerns one
\* channel, or no manual job is under way and none was before.
Touched ==
    locked \cup cooled \cup leftover \cup {p[1] : p \in served}
    \cup UNION {poster[p].queue \cup poster[p].chan : p \in Posters}

OneChannel == \A c, d \in Touched : c = d

NoManual == \A j \in Manual : poster[j].at = "idle"

Small == OneChannel \/ NoManual

=============================================================================
