----------------------------- MODULE MCBlindView -----------------------------
\* Worlds that differ in one point each, results from two places, and two calls
\* of a planner that has two operators it may ask for.
EXTENDS BlindView

MCTasks ==
  {[objective |-> "o", artifacts |-> {"a"}, contract |-> "choice", choices |-> {"A", "B"}],
   [objective |-> "o", artifacts |-> {}, contract |-> "short_text", choices |-> {}]}

World(source_ref, evaluator_id, label) ==
  [source_ref |-> source_ref, evaluator_id |-> evaluator_id, gold |-> label]
MCWorlds ==
  {World("h1", "e1", "A"), World("h2", "e1", "A"), World("h1", "e2", "A"), World("h1", "e1", "B")}
=============================================================================
