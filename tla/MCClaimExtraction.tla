-------------------------- MODULE MCClaimExtraction --------------------------
(* Three passages, two to a request, which a change of the metric registry  *)
(* can hand to the regular expressions, in part or altogether.             *)
EXTENDS ClaimExtraction

MCItems  == {"p", "q", "r"}
MCTokens == [item \in MCItems |-> 1]
MCMaterials ==
  {[model |-> <<"p", "q", "r">>, deterministic |-> {}],
   [model |-> <<"q", "r">>,      deterministic |-> {"p"}],
   [model |-> <<>>,              deterministic |-> {"p", "q", "r"}]}

=============================================================================
