---------------------------- MODULE PostPipelineMC ----------------------------
(* Small instances of PostPipeline. *)
EXTENDS PostPipeline, TLC

CONSTANTS p1, p2, c1, c2, r1

TwoPosts == {p1, p2}
TwoChannels == {c1, c2}

\* Posts, channels and requests are interchangeable.
Symmetry == Permutations(Posts) \cup Permutations(Channels) \cup Permutations(Requests)

\* Two shapes of a run that together are small enough: nothing fails, or nobody pauses.
Small == pauses = 0 \/ faults = 0

=============================================================================
