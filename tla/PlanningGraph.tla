---------------------------- MODULE PlanningGraph ----------------------------
(***************************************************************************)
(* One benchmark run on the controller: BenchmarkRunner.run                *)
(* (src/infra_joint/experiments/runner.py) and the planning graph it        *)
(* drives (src/infra_joint/planning/graph.py), with the trace they write.   *)
(*                                                                         *)
(* A node of the graph is two steps: Begin writes the node's start event    *)
(* and reaches the node's await; the End action is everything after the     *)
(* await returned.  An exception can be raised anywhere; the process can    *)
(* die, or an exception leave run() itself, anywhere.                       *)
(***************************************************************************)
EXTENDS Integers, Sequences, FiniteSets, SequencesExt

CONSTANTS
  MaxPlanningSteps,  \* configured budget of planner calls
  RecursionLimit,    \* supersteps the graph engine grants one run
  Placements,        \* initial placements of task artifacts on workers
  MaxTransfers,      \* bound: transfers one execution may report
  Actions,           \* the joint actions the planner may propose
  Finish,            \* the FinishDecision
  NoParent, NoResult

Decisions == Actions \cup {Finish}

ASSUME BudgetAssumption == MaxPlanningSteps \in Nat \ {0}
ASSUME LimitAssumption == RecursionLimit \in Nat
ASSUME TransferAssumption == Placements \in Nat /\ MaxTransfers \in Nat
ASSUME FinishIsNoAction == Finish \notin Actions

VARIABLES
  directory,     \* the run directory exists
  trace,         \* the events in its trace.jsonl
  result,        \* its result.json, or NoResult
  phase,         \* where the run is: a node of the graph, or a part of run()
  awaiting,      \* the node is at its await
  cursor,        \* the graph state's event_index and parent_event_id
  local,         \* the running node's trace_state
  steps,         \* supersteps the engine has started
  remaining,     \* the graph state's remaining_steps
  decisions,     \* the graph state's decisions
  observations,  \* the graph state's observations
  snapshot,      \* executions the state's infrastructure reflects, -1 if none
  placed,        \* initial transfers made so far
  outcome        \* the PersistedRunResult in memory

graphState == <<cursor, remaining, decisions, observations, snapshot>>
files == <<directory, trace, result>>
vars == <<files, phase, awaiting, local, steps, placed, outcome, graphState>>

\* What an auditor of the run directory relies on.
Record == INSTANCE RunRecord

Nodes == {"observe", "plan", "execute", "finalize", "evaluate"}

-----------------------------------------------------------------------------
\* The events that emitting these types one after the other appends, and the
\* trace state it returns.
NewEvents(from, types) ==
  [k \in 1..Len(types) |->
     [index |-> from.index + k - 1,
      type |-> types[k],
      parent |-> IF k = 1 THEN from.parent ELSE <<from.index + k - 2, types[k - 1]>>]]

Advance(from, types) ==
  IF types = <<>> THEN from
  ELSE [index |-> from.index + Len(types),
        parent |-> <<from.index + Len(types) - 1, types[Len(types)]>>]

\* The trace state after the last event of a file.
EndOf(events) ==
  [index |-> Len(events),
   parent |-> IF events = <<>> THEN NoParent ELSE Record!Id(Last(events))]

Emit(from, types) ==
  /\ trace' = trace \o NewEvents(from, types)
  /\ UNCHANGED <<directory, result>>

Repeat(type, n) == [k \in 1..n |-> type]

-----------------------------------------------------------------------------
Init ==
  /\ directory = FALSE
  /\ trace = <<>>
  /\ result = NoResult
  /\ phase = "idle"
  /\ awaiting = FALSE
  /\ cursor = [index |-> 0, parent |-> NoParent]
  /\ local = cursor
  /\ steps = 0
  /\ remaining = MaxPlanningSteps
  /\ decisions = <<>>
  /\ observations = <<>>
  /\ snapshot = -1
  /\ placed = 0
  /\ outcome = NoResult

\* A run under this run ID; the controller may be asked for one again after an
\* earlier one ended or died, and creating the directory then raises.
Start ==
  /\ phase \in {"idle", "done", "aborted"}
  /\ ~directory
  /\ directory' = TRUE
  /\ phase' = "validate"
  /\ awaiting' = FALSE
  /\ cursor' = [index |-> 0, parent |-> NoParent]
  /\ local' = cursor'
  /\ steps' = 0
  /\ remaining' = MaxPlanningSteps
  /\ decisions' = <<>>
  /\ observations' = <<>>
  /\ snapshot' = -1
  /\ placed' = 0
  /\ outcome' = NoResult
  /\ UNCHANGED <<trace, result>>

ValidateSurfaces ==
  /\ phase = "validate"
  /\ phase' = "materialize"
  /\ UNCHANGED <<files, awaiting, local, steps, placed, outcome, graphState>>

PutPlacement ==
  /\ phase = "materialize"
  /\ placed < Placements
  /\ placed' = placed + 1
  /\ UNCHANGED <<files, phase, awaiting, local, steps, outcome, graphState>>

OpeningEvents == <<"task.start">> \o Repeat("artifact.materialize.end", Placements)

\* PlanningGraph.run up to ainvoke.
StartGraph ==
  /\ phase = "materialize"
  /\ placed = Placements
  /\ phase' = "observe"
  /\ Emit(cursor, OpeningEvents)
  /\ cursor' = Advance(cursor, OpeningEvents)
  /\ UNCHANGED <<awaiting, local, steps, placed, outcome,
                 remaining, decisions, observations, snapshot>>

-----------------------------------------------------------------------------
\* The events a node writes before its await.
StartEvents ==
  [observe |-> <<>>, plan |-> <<"planner.start">>, execute |-> <<"operator.start">>,
   finalize |-> <<"finalize.start">>, evaluate |-> <<>>]

Begin(node) ==
  /\ phase = node /\ ~awaiting
  /\ steps < RecursionLimit
  /\ steps' = steps + 1
  /\ awaiting' = TRUE
  /\ Emit(cursor, StartEvents[node])
  /\ local' = Advance(cursor, StartEvents[node])
  /\ UNCHANGED <<phase, placed, outcome, graphState>>

\* The node returns: its events are written and its update becomes the state.
End(node, types) ==
  /\ phase = node /\ awaiting
  /\ awaiting' = FALSE
  /\ Emit(local, types)
  /\ cursor' = Advance(local, types)
  /\ UNCHANGED <<local, steps, placed, outcome>>

\* Mutant: one planner call too many.
RouteAfterObserveOffByOne(left) == IF left >= 0 THEN "plan" ELSE "finalize"

RouteAfterObserve(left) == IF left > 0 THEN "plan" ELSE "finalize"

EndObserve ==
  /\ End("observe", <<"infra.snapshot">>)
  /\ snapshot' = Len(observations)
  /\ phase' = RouteAfterObserve(remaining)
  /\ UNCHANGED <<remaining, decisions, observations>>

PlanEvents(decision) ==
  <<"planner.end", IF decision = Finish THEN "finish.proposed" ELSE "joint_action.proposed">>

\* Mutant: the graph plans on after a FinishDecision.
RouteAfterPlanGoesOn(decision) == IF decision = Finish THEN "observe" ELSE "execute"

RouteAfterPlan(decision) == IF decision = Finish THEN "finalize" ELSE "execute"

\* Mutant: a FinishDecision is not charged to the budget.
EndPlanFreeFinish(decision) ==
  /\ End("plan", PlanEvents(decision))
  /\ decisions' = Append(decisions, decision)
  /\ remaining' = IF decision = Finish THEN remaining ELSE remaining - 1
  /\ phase' = RouteAfterPlan(decision)
  /\ UNCHANGED <<observations, snapshot>>

EndPlan(decision) ==
  /\ End("plan", PlanEvents(decision))
  /\ decisions' = Append(decisions, decision)
  /\ remaining' = remaining - 1
  /\ phase' = RouteAfterPlan(decision)
  /\ UNCHANGED <<observations, snapshot>>

ExecuteEvents(transfers) == Repeat("artifact.transfer.end", transfers) \o <<"operator.end">>

\* Mutant: the next plan follows an execution without a new snapshot.
EndExecuteUnobserved(transfers) ==
  /\ End("execute", ExecuteEvents(transfers))
  /\ observations' =
       Append(observations, [action |-> Last(decisions), transfers |-> transfers])
  /\ phase' = RouteAfterObserve(remaining)
  /\ UNCHANGED <<remaining, decisions, snapshot>>

\* The pending decision is the last one; the observation names its action.
EndExecute(transfers) ==
  /\ End("execute", ExecuteEvents(transfers))
  /\ observations' =
       Append(observations, [action |-> Last(decisions), transfers |-> transfers])
  /\ phase' = "observe"
  /\ UNCHANGED <<remaining, decisions, snapshot>>

EndFinalize ==
  /\ End("finalize", <<"finalize.end">>)
  /\ phase' = "evaluate"
  /\ UNCHANGED <<remaining, decisions, observations, snapshot>>

EndEvaluate ==
  /\ End("evaluate", <<"evaluation.result">>)
  /\ phase' = "end"
  /\ UNCHANGED <<remaining, decisions, observations, snapshot>>

-----------------------------------------------------------------------------
\* The transfers of all observations.
Pulls == UNION {{k} \X (1..observations[k].transfers) : k \in 1..Len(observations)}

\* Mutant: the total leaves the initial transfers out.
TotalTransfersOfPulls == Cardinality(Pulls)

TotalTransfers == placed + Cardinality(Pulls)

\* ainvoke returned: telemetry, run.end and the RunResult.
EndGraph ==
  /\ phase = "end"
  /\ Emit(cursor, <<"run.end">>)
  /\ outcome' = [completed |-> TRUE, transfers |-> TotalTransfers, decisions |-> Len(decisions)]
  /\ phase' = "exit"
  /\ UNCHANGED <<awaiting, local, steps, placed, graphState>>

\* The worker clients are closed.
ExitStack ==
  /\ phase = "exit"
  /\ phase' = "close"
  /\ UNCHANGED <<files, awaiting, local, steps, placed, outcome, graphState>>

Failed ==
  /\ phase' = "failed"
  /\ outcome' = NoResult
  /\ UNCHANGED <<directory, result, awaiting, local, steps, placed, graphState>>

\* The events a node, or a part of run(), may write after its await.
ClosingEvents ==
  CASE phase = "observe"  -> {<<"infra.snapshot">>}
    [] phase = "plan"     -> {PlanEvents(decision) : decision \in Decisions}
    [] phase = "execute"  -> {ExecuteEvents(transfers) : transfers \in 0..MaxTransfers}
    [] phase = "finalize" -> {<<"finalize.end">>}
    [] phase = "evaluate" -> {<<"evaluation.result">>}
    [] OTHER              -> {}

\* The traces a stop in this phase leaves: any number of the events that are due
\* have been appended.
PartlyWritten(from, types) ==
  {trace \o NewEvents(from, SubSeq(types, 1, k)) : k \in 0..Len(types)}

StoppedTraces ==
  {trace} \cup UNION
    (IF awaiting THEN {PartlyWritten(local, types) : types \in ClosingEvents}
     ELSE IF phase = "materialize" /\ placed = Placements THEN {PartlyWritten(cursor, OpeningEvents)}
     ELSE IF phase \in Nodes THEN {PartlyWritten(cursor, StartEvents[phase])}
     ELSE IF phase = "end" THEN {PartlyWritten(cursor, <<"run.end">>)}
     ELSE {})

\* An exception in any part of the try block.
Raise ==
  /\ phase \in Nodes \cup {"validate", "materialize", "end", "exit"}
  /\ trace' \in StoppedTraces
  /\ Failed

\* The engine raises GraphRecursionError instead of starting a superstep; it
\* may check its limit before it sees that no node is left.
EngineStops ==
  /\ phase \in Nodes \cup {"end"} /\ ~awaiting
  /\ steps = RecursionLimit
  /\ UNCHANGED trace
  /\ Failed

\* except Exception: run.failed is chained to the last event in the file, since
\* the graph state may not know of the events its last node wrote.
FailureCursor == EndOf(trace)

\* Mutants: the handler leaves the trace open; the handler tries the run again.
HandleFailureSilently ==
  /\ phase = "failed"
  /\ outcome' = [completed |-> FALSE, transfers |-> 0, decisions |-> 0]
  /\ phase' = "close"
  /\ UNCHANGED <<files, awaiting, local, steps, placed, graphState>>
HandleFailureByRetry ==
  /\ phase = "failed"
  /\ phase' = "validate"
  /\ placed' = 0
  /\ UNCHANGED <<files, awaiting, local, steps, outcome, graphState>>

HandleFailure ==
  /\ phase = "failed"
  /\ Emit(FailureCursor, <<"run.failed">>)
  /\ outcome' = [completed |-> FALSE, transfers |-> 0, decisions |-> 0]
  /\ phase' = "close"
  /\ UNCHANGED <<awaiting, local, steps, placed, graphState>>

\* finally: the planner client is closed.
ClosePlanner ==
  /\ phase = "close"
  /\ phase' = "write"
  /\ UNCHANGED <<files, awaiting, local, steps, placed, outcome, graphState>>

WriteTemporary ==
  /\ phase = "write"
  /\ phase' = "replace"
  /\ UNCHANGED <<files, awaiting, local, steps, placed, outcome, graphState>>

ReplaceResult ==
  /\ phase = "replace"
  /\ phase' = "done"
  /\ result' = outcome
  /\ UNCHANGED <<directory, trace, awaiting, local, steps, placed, outcome, graphState>>

\* The process dies, the task is cancelled, or an exception leaves run() because
\* the failure handler, the close or the write raised.
Abort ==
  /\ phase \notin {"idle", "done", "aborted"}
  /\ trace' \in StoppedTraces
  /\ phase' = "aborted"
  /\ UNCHANGED <<directory, result, awaiting, local, steps, placed, outcome, graphState>>

-----------------------------------------------------------------------------
Progress ==
  \/ ValidateSurfaces \/ PutPlacement \/ StartGraph
  \/ \E node \in Nodes : Begin(node)
  \/ EndObserve
  \/ \E decision \in Decisions : EndPlan(decision)
  \/ \E transfers \in 0..MaxTransfers : EndExecute(transfers)
  \/ EndFinalize \/ EndEvaluate
  \/ EndGraph \/ ExitStack
  \/ EngineStops \/ HandleFailure
  \/ ClosePlanner \/ WriteTemporary \/ ReplaceResult

Next == Start \/ Progress \/ Raise \/ Abort

Spec == Init /\ [][Next]_vars

\* Every await of a run is an HTTP call with a timeout or a local computation, so
\* it returns or raises: the run does not stay in a phase forever.
FairSpec == Spec /\ WF_vars(Progress \/ Raise)

-----------------------------------------------------------------------------
EventTypes ==
  {"task.start", "artifact.materialize.end", "infra.snapshot", "planner.start",
   "planner.end", "joint_action.proposed", "finish.proposed", "operator.start",
   "artifact.transfer.end", "operator.end", "finalize.start", "finalize.end",
   "evaluation.result", "run.end", "run.failed"}
Parent == {NoParent} \cup (Nat \X EventTypes)
Event == [index : Nat, type : EventTypes, parent : Parent]
Cursor == [index : Nat, parent : Parent]
Result == [completed : BOOLEAN, transfers : Nat, decisions : Nat]
Phases == Nodes \cup {"idle", "validate", "materialize", "end", "exit", "failed", "close",
                      "write", "replace", "done", "aborted"}

ASSUME NoResultIsNoRecord == NoResult \notin Result

\* Types and ranges of the run's state (graph.py:51-64, runner.py:44-58).
TypeOK ==
  /\ directory \in BOOLEAN
  /\ trace \in Seq(Event)
  /\ result \in Result \cup {NoResult}
  /\ phase \in Phases
  /\ awaiting \in BOOLEAN
  /\ cursor \in Cursor
  /\ local \in Cursor
  /\ steps \in 0..RecursionLimit
  /\ remaining \in 0..MaxPlanningSteps
  /\ decisions \in Seq(Decisions)
  /\ observations \in Seq([action : Actions, transfers : 0..MaxTransfers])
  /\ snapshot \in Int
  /\ placed \in 0..Placements
  /\ outcome \in Result \cup {NoResult}

\* The file is one linear parent chain numbered from 0, also after a node that
\* had written events failed (the handler numbers from the file and not from the
\* graph state, runner.py:242-247), after a crash and after a second run of the
\* same run ID was refused (runner.py:81, graph.py:385-405).
TraceIsChained == Record!Chained(trace)

\* The k-th execution is of the k-th decision, nothing is executed or planned
\* after a FinishDecision, and once the run finalizes every proposed action has
\* its observation (graph.py:187-222): the finalizer and the result never pair an
\* observation with another action's decision.
ObservationsMatchDecisions ==
  /\ Len(observations) <= Len(decisions)
  /\ \A k \in 1..Len(observations) : observations[k].action = decisions[k]
  /\ \A k \in 1..Len(decisions) - 1 : decisions[k] # Finish
  /\ phase \in {"finalize", "evaluate", "end", "exit"} =>
       \/ Len(observations) = Len(decisions)
       \/ Last(decisions) = Finish /\ Len(observations) = Len(decisions) - 1

\* The run finalizes when the planner finished or the budget is used up, and for
\* no other reason; the planner is never called beyond the budget
\* (graph.py:130-132, 179).
BudgetIsExact ==
  /\ Len(decisions) + remaining = MaxPlanningSteps
  /\ phase = "plan" => remaining > 0
  /\ phase = "finalize" =>
       remaining = 0 \/ (decisions # <<>> /\ Last(decisions) = Finish)

\* An action is executed against a snapshot that reflects every earlier execution
\* (graph.py:105-116): the resolver never sees locations from before one.
SnapshotIsFresh == phase = "execute" => snapshot = Len(observations)

\* The engine's superstep limit never cuts a run off before it is finalized and
\* evaluated (graph.py:314 passes none): planning and finalization budgets are
\* separate concerns (README.md:78), so a planner that uses its whole budget must
\* not cost the run its answer.
EngineLimitIsHarmless == phase \in Nodes \cup {"end"} /\ ~awaiting => steps < RecursionLimit

Count(types) == Cardinality({i \in 1..Len(trace) : trace[i].type \in types})

\* The totals a completed result reports are those of its trace: each transfer
\* and each planner call was logged exactly once (graph.py:322-351, 135-148).
ResultMatchesTrace ==
  result # NoResult /\ result.completed =>
    /\ result.transfers = Count({"artifact.materialize.end", "artifact.transfer.end"})
    /\ result.decisions = Count({"planner.end"})
    /\ Count({"planner.start"}) = Count({"planner.end"})
    /\ Count({"operator.start"}) = Count({"operator.end"})

\* The files of a run implement RunRecord, whatever fails: the trace is append
\* only and closed by the event the result agrees with, and the result is
\* written once (runner.py:149-167, 235-269).
ImplementsRunRecord == Record!Spec

\* A started run ends with its result, completed or failed, unless the process
\* died or an exception left run() (runner.py:149 "failures are persisted for
\* audit").
RunEnds == directory ~> phase \in {"done", "aborted"}
=============================================================================
