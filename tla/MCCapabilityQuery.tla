------------------------- MODULE MCCapabilityQuery -------------------------
(* A small instance of CapabilityQuery: two callers, two scopes, two dates; *)
(* the sources have every row but the second date of one scope.             *)
EXTENDS CapabilityQuery, TLC

CONSTANTS s1, s2

MCScopes    == {s1, s2}
MCPublished == (MCScopes \X (1..LastDate)) \ {<<s2, LastDate>>}
MCRequests  ==
  {<<{s1}, <<1, 1>>>>, <<{s1}, <<1, 2>>>>, <<MCScopes, <<1, 2>>>>}
MCSymmetry  == Permutations(Callers)
============================================================================
