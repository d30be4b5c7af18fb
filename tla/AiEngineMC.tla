------------------------------- MODULE AiEngineMC -------------------------------
(* Small instances of AiEngine. *)
EXTENDS AiEngine, TLC

CONSTANTS g1, g2

TwoAsks == {g1, g2}
================================================================================
