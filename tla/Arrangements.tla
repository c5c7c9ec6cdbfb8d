------------------------------ MODULE Arrangements ------------------------------
(***************************************************************************)
(* Elements in order: what Python's sorted and a filtering comprehension do  *)
(* for the adapters (BenchmarkAdapters) and the operators (RecordOperators). *)
(***************************************************************************)
EXTENDS Integers, Sequences, FiniteSets, SequencesExt

\* The elements of a set of numbers, ascending, and what a sequence has at them.
Listed(indices) ==
  [r \in 1..Cardinality(indices) |->
     CHOOSE i \in indices : Cardinality({j \in indices : j < i}) = r - 1]

Kept(list, indices) == [r \in 1..Cardinality(indices) |-> list[Listed(indices)[r]]]

\* Elements in an order: `ahead` has for each of them what comes before it.
InOrder(ahead) ==
  CHOOSE order \in [1..Cardinality(DOMAIN ahead) -> DOMAIN ahead] :
    \A r \in DOMAIN order : \A q \in 1..(r - 1) : order[q] \in ahead[order[r]]
=================================================================================
