------------------------------ MODULE BatchPlan ------------------------------
(***************************************************************************)
(* How a batched stage packs its items, in order, into provider requests   *)
(* bounded by a number of items and by a budget of input tokens            *)
(* (app/ai/batching.py).                                                   *)
(***************************************************************************)
EXTENDS Naturals, Sequences, SequencesExt, FiniteSets

CONSTANTS
  Items,             \* what a stage sends to the model, by identity
  Tokens,            \* an item's estimated tokens
  MaxItems,          \* ai_batch_max_items
  InputTokenBudget,  \* ai_batch_input_token_budget
  SafetyMargin,      \* ai_batch_token_safety_margin, in percent
  FixedOverhead,     \* tokens of a request without its items
  PerItemOverhead    \* PER_ITEM_OVERHEAD_TOKENS

ASSUME BatchingAssumption ==
  /\ Tokens \in [Items -> Nat]
  /\ MaxItems \in Nat \ {0}
  /\ InputTokenBudget \in Nat /\ SafetyMargin \in 0..100
  /\ FixedOverhead \in Nat /\ PerItemOverhead \in Nat

EffectiveTokenBudget ==
  LET reduced == (InputTokenBudget * (100 - SafetyMargin)) \div 100
  IN  IF reduced < 1 THEN 1 ELSE reduced

Cost(item) == Tokens[item] + PerItemOverhead

(* The loop's variables: the closed batches, the open one, and its tokens. *)
NewPacking == [groups |-> <<>>, current |-> <<>>, tokens |-> FixedOverhead]

Full(p, item) ==
  /\ p.current # <<>>
  /\ \/ Len(p.current) >= MaxItems
     \/ p.tokens + Cost(item) > EffectiveTokenBudget

PlaceKeepingTokens(p, item) ==   \* mutant: the token count not reset
  IF Full(p, item)
  THEN [groups |-> Append(p.groups, p.current), current |-> <<item>>,
        tokens |-> p.tokens + Cost(item)]
  ELSE [p EXCEPT !.current = Append(@, item), !.tokens = @ + Cost(item)]

Place(p, item) ==
  IF Full(p, item)
  THEN [groups |-> Append(p.groups, p.current), current |-> <<item>>,
        tokens |-> FixedOverhead + Cost(item)]
  ELSE [p EXCEPT !.current = Append(@, item), !.tokens = @ + Cost(item)]

Closed(p) == IF p.current = <<>> THEN p.groups ELSE Append(p.groups, p.current)

PlanBatches(items) ==
  LET packed[i \in 0..Len(items)] ==
        IF i = 0 THEN NewPacking ELSE Place(packed[i - 1], items[i])
  IN  Closed(packed[Len(items)])

-----------------------------------------------------------------------------
(* What the provider allows: a request within its limits, or one with a    *)
(* single item too large for any.                                          *)
RequestTokens(batch) ==
  LET total[i \in 0..Len(batch)] ==
        IF i = 0 THEN FixedOverhead ELSE total[i - 1] + Cost(batch[i])
  IN  total[Len(batch)]

Allowed(batch) ==
  /\ batch # <<>>
  /\ Len(batch) <= MaxItems
  /\ RequestTokens(batch) <= EffectiveTokenBudget \/ Len(batch) = 1

(* The plan holds every item once and in order, in allowed requests.       *)
HoldsInOrder(plan, items) ==
  /\ FlattenSeq(plan) = items
  /\ \A batch \in ToSet(plan) : Allowed(batch)

(* A way to cut n items into consecutive requests is where each of them    *)
(* ends; no way whose requests are all allowed has fewer than the plan.    *)
Cuts(n) == {ends \in SUBSET (1..n) : n \in ends}
AllAllowed(ends, items) ==
  \A first \in {0} \cup ends, last \in ends :
    first < last /\ ends \cap (first + 1..last - 1) = {}
      => Allowed(SubSeq(items, first + 1, last))
FewestBatches(plan, items) ==
  \A ends \in Cuts(Len(items)) : AllAllowed(ends, items) => Len(plan) <= Cardinality(ends)

(* Each batch but the last stays at its index when an item is added.       *)
KeepsBatches(plan, longer) ==
  \A b \in 1..Len(plan) - 1 : longer[b] = plan[b]

=============================================================================
