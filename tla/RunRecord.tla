------------------------------ MODULE RunRecord ------------------------------
(***************************************************************************)
(* What a run directory promises to an auditor who reads trace.jsonl and   *)
(* result.json (src/infra_joint/evaluation/trace.py,                       *)
(* src/infra_joint/experiments/runner.py): the trace only grows, is one     *)
(* linear parent chain numbered from 0, grows by nothing once run.failed is *)
(* in it; the result is written once, when the trace is closed, and agrees  *)
(* with its last event.                                                    *)
(***************************************************************************)
EXTENDS Integers, Sequences, SequencesExt

CONSTANTS NoParent, NoResult

VARIABLES
  trace,   \* the events of trace.jsonl
  result   \* result.json: a record with a field completed, or NoResult

Id(event) == <<event.index, event.type>>

Chained(events) ==
  \A i \in 1..Len(events) :
    /\ events[i].index = i - 1
    /\ events[i].parent = IF i = 1 THEN NoParent ELSE Id(events[i - 1])

EndsIn(events, type) == events # <<>> /\ events[Len(events)].type = type

Init == trace = <<>> /\ result = NoResult

\* run.end may still be followed by run.failed, when leaving the run fails.
Log ==
  /\ result = NoResult
  /\ ~EndsIn(trace, "run.failed")
  /\ IsStrictPrefix(trace, trace')
  /\ Chained(trace')
  /\ EndsIn(trace, "run.end") => EndsIn(trace', "run.failed")
  /\ UNCHANGED result

Publish ==
  /\ result = NoResult
  /\ result' # NoResult
  /\ EndsIn(trace, IF result'.completed THEN "run.end" ELSE "run.failed")
  /\ UNCHANGED trace

Next == Log \/ Publish

Spec == Init /\ [][Next]_<<trace, result>>
=============================================================================
