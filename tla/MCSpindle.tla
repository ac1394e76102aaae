----------------------------- MODULE MCSpindle ------------------------------
(* Instances of Spindle for TLC. *)
EXTENDS Spindle

CONSTANTS n1, n2, n3

\* Every acyclic graph on three nodes inserted in one order; n2 may lack an undo.
Lists == {<<>>} \cup {<<n>> : n \in {n1, n2, n3}}
             \cup {<<n1, n2>>, <<n1, n3>>, <<n2, n3>>}
SmallGraphs ==
    {g \in [ids: {<<n1, n2, n3>>}, dependsOn: [{n1, n2, n3} -> Lists],
            undoable: {{n1, n2, n3}, {n1, n3}}] :
        ~HasCycle(g.ids, g.dependsOn)}

=============================================================================
