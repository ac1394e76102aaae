------------------------------ MODULE MCRouting ------------------------------
(* Registries for Routing: none, one that ranks a local model above a cloud one and
   has a model for coding, and one with a model of OpenRouter's behind a local one. *)
EXTENDS Routing

Catalog(s, d, local, router) ==
  [present |-> TRUE, tiers |-> [S |-> s, D |-> d], local |-> local, router |-> router]
RouteCatalogs ==
  {[Catalog(<<>>, <<>>, <<>>, <<>>) EXCEPT !.present = FALSE],
   Catalog(<<"l1", "k1:cloud">>, <<"l2">>, <<"l2", "devstral">>, <<>>),
   Catalog(<<>>, <<"l2">>, <<>>, <<"o1">>)}
RtTiers == <<"S", "D">>
RtHosts == <<"h1", "h2">>
=============================================================================
