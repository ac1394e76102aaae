--------------------------- MODULE MCIntentSystem ---------------------------
(* Instances of IntentSystem for TLC. *)
EXTENDS IntentSystem, TLC

Body(mode, g, verdict) == [mode |-> mode, gas |-> g, verdict |-> verdict]

\* One program that passes and one that ALIGN blocks.
SysPayloads == {Body("hlf", 1, "ok"), Body("hlf", 1, "blocked")}

SysSymmetry == Permutations(Requests) \cup Permutations(Ids)

=============================================================================
