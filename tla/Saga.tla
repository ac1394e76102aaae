-------------------------------- MODULE Saga --------------------------------
(***************************************************************************)
(* What a saga over a graph of tasks promises about the effects of its     *)
(* tasks: they are applied after those they depend on; once it turns back  *)
(* every applied effect is visited, dependents first, and undone or given  *)
(* up (no undo, or the undo failed); and it ends with all visited or none. *)
(***************************************************************************)
CONSTANTS Nodes

VARIABLES
    deps,      \* what each node depends on
    effect,    \* "none", "applied", "undone" or "kept"
    course     \* "idle", "forward", "backward" or "ended"

vars == <<deps, effect, course>>

Init ==
    /\ deps \in [Nodes -> SUBSET Nodes]
    /\ effect = [n \in Nodes |-> "none"]
    /\ course = "idle"

Begin ==
    /\ course \in {"idle", "ended"}
    /\ course' = "forward"
    /\ effect' = [n \in Nodes |-> "none"]
    /\ UNCHANGED deps

Apply(n) ==
    /\ course = "forward" /\ effect[n] = "none"
    /\ \A d \in deps[n] : effect[d] = "applied"
    /\ effect' = [effect EXCEPT ![n] = "applied"]
    /\ UNCHANGED <<deps, course>>

TurnBack == course = "forward" /\ course' = "backward" /\ UNCHANGED <<deps, effect>>

Visit(n) ==
    /\ course = "backward" /\ effect[n] = "applied"
    /\ \A m \in Nodes : n \in deps[m] => effect[m] # "applied"
    /\ \E e \in {"undone", "kept"} : effect' = [effect EXCEPT ![n] = e]
    /\ UNCHANGED <<deps, course>>

End ==
    /\ \/ course = "forward"
       \/ course = "backward" /\ \A n \in Nodes : effect[n] # "applied"
    /\ course' = "ended"
    /\ UNCHANGED <<deps, effect>>

Next == Begin \/ TurnBack \/ End \/ \E n \in Nodes : Apply(n) \/ Visit(n)

Spec == Init /\ [][Next]_vars

=============================================================================
