---------------------------- MODULE MCGatewayBus ----------------------------
(* Instances of GatewayBus for TLC. *)
EXTENDS GatewayBus, TLC

Body(mode, g, verdict) == [mode |-> mode, gas |-> g, verdict |-> verdict]

\* One payload for every way through the synchronous checks.
AllPayloads ==
    {Body("empty", 0, "ok"), Body("probe", 0, "ok"), Body("text", 1, "ok"),
     Body("bytecode", 2, "ok"), Body("bytecode", 0, "invalid"),
     Body("hlf", 0, "ok"), Body("hlf", 2, "ok"), Body("hlf", 3, "ok"),
     Body("hlf", 1, "invalid"), Body("hlf", 1, "blocked"), Body("hlf", 1, "overscope")}

OnePayload == {Body("text", 1, "ok")}

Symmetry == Permutations(Requests) \cup Permutations(Ids)

=============================================================================
