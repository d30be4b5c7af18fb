--------------------------- MODULE UserbotManagerMC ---------------------------
(* Small instances of UserbotManager. *)
EXTENDS UserbotManager

CONSTANTS a1, o1, o2, j1, j2, l1

OneAccount == {a1}
TwoObjects == {o1, o2}
OneCall == {j1}
TwoCalls == {j1, j2}
OneLoop == {l1}

=============================================================================
