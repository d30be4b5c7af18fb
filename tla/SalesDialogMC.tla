----------------------------- MODULE SalesDialogMC -----------------------------
(* Small instances of SalesDialog. *)
EXTENDS SalesDialog, TLC

CONSTANTS x1, x2, t1, t2, d1, d2, f1

TwoHandlersD == {x1, x2}
TwoTalks == {t1, t2}
TwoLeads == {d1, d2}
DSymmetry == Permutations(Handlers) \cup Permutations(Talks) \cup Permutations(Leads)
             \cup Permutations(Facts)
================================================================================
