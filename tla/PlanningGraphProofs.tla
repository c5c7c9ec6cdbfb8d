-------------------------- MODULE PlanningGraphProofs --------------------------
(***************************************************************************)
(* A run, for every budget, engine limit, set of actions and number of      *)
(* placements. Its control: the budget is exact, observations belong to     *)
(* their decisions, snapshots are fresh, and a limit above 3 * budget + 3   *)
(* supersteps is never reached. Its files: the trace is one chain, trace and *)
(* result keep the promise RunRecord makes to an auditor, and the result's   *)
(* totals are those of the trace, whatever fails and whenever.               *)
(***************************************************************************)
EXTENDS PlanningGraph, SequenceTheorems, FiniteSetTheorems, TLAPS

Observation == [action : Actions, transfers : 0..MaxTransfers]

ControlTypes ==
  /\ phase \in Phases
  /\ awaiting \in BOOLEAN
  /\ steps \in 0..RecursionLimit
  /\ remaining \in 0..MaxPlanningSteps
  /\ decisions \in Seq(Decisions)
  /\ observations \in Seq(Observation)
  /\ snapshot \in Int
  /\ placed \in 0..Placements

EndsWithFinish == decisions # <<>> /\ decisions[Len(decisions)] = Finish

Aligned ==
  /\ Len(observations) <= Len(decisions)
  /\ \A k \in 1..Len(observations) : observations[k].action = decisions[k]
  /\ \A k \in 1..Len(decisions) - 1 : decisions[k] # Finish
  /\ Len(decisions) + remaining = MaxPlanningSteps

Preparing == phase \in {"idle", "validate", "materialize"}

\* What the lists hold in each phase.
Position ==
  /\ Preparing => decisions = <<>> /\ observations = <<>> /\ ~awaiting /\ steps = 0
  /\ phase \in {"observe", "plan"} =>
       /\ Len(observations) = Len(decisions)
       /\ \A k \in 1..Len(decisions) : decisions[k] # Finish
  /\ phase = "plan" => remaining > 0
  /\ phase \in {"plan", "execute"} => snapshot = Len(observations)
  /\ phase = "execute" =>
       /\ Len(decisions) = Len(observations) + 1
       /\ decisions[Len(decisions)] # Finish
  /\ phase = "finalize" => remaining = 0 \/ EndsWithFinish
  /\ phase \in {"finalize", "evaluate", "end", "exit"} =>
       \/ Len(observations) = Len(decisions)
       \/ EndsWithFinish /\ Len(observations) = Len(decisions) - 1

\* How many supersteps were started: a round of the loop takes three, and the
\* one that is awaiting counts as well.
Pace ==
  LET done == IF awaiting THEN steps - 1 ELSE steps IN
  /\ phase = "observe" => done = 3 * Len(decisions)
  /\ phase = "plan" => done = 3 * Len(decisions) + 1
  /\ phase = "execute" => done = 3 * Len(decisions) - 1
  /\ phase = "finalize" => done <= 3 * Len(decisions) + 1
  /\ phase = "evaluate" => done <= 3 * Len(decisions) + 2
  /\ phase = "end" => done <= 3 * Len(decisions) + 3 /\ ~awaiting

Control == ControlTypes /\ Aligned /\ Position /\ Pace

-----------------------------------------------------------------------------
\* A run starts with its whole budget and empty lists.
LEMMA InitControl == Init => Control
<1> SUFFICES ASSUME Init PROVE Control
  OBVIOUS
<1> USE BudgetAssumption, LimitAssumption, TransferAssumption
<1>1. /\ phase = "idle" /\ ~awaiting /\ awaiting \in BOOLEAN
      /\ steps = 0 /\ remaining = MaxPlanningSteps /\ snapshot = -1 /\ placed = 0
      /\ decisions = <<>> /\ observations = <<>>
  BY DEF Init
<1>2. decisions \in Seq(Decisions) /\ observations \in Seq(Observation)
      /\ Len(decisions) = 0 /\ Len(observations) = 0
  BY <1>1
<1>3. ControlTypes
  BY <1>1, <1>2 DEF ControlTypes, Phases
<1>4. Aligned
  BY <1>1, <1>2 DEF Aligned
<1>5. Position
  BY <1>1 DEF Position, Preparing
<1>6. Pace
  BY <1>1 DEF Pace
<1> QED BY <1>3, <1>4, <1>5, <1>6 DEF Control

\* Appending a decision or an observation.
LEMMA AppendFacts ==
  ASSUME NEW S, NEW s \in Seq(S), NEW e \in S
  PROVE  /\ Append(s, e) \in Seq(S)
         /\ Append(s, e) # <<>>
         /\ Len(Append(s, e)) = Len(s) + 1
         /\ \A k \in 1..Len(s) : Append(s, e)[k] = s[k]
         /\ Append(s, e)[Len(s) + 1] = e
OBVIOUS

\* Every action of the run keeps the control invariant.
LEMMA StepControl == Control /\ [Next]_vars => Control'
<1> SUFFICES ASSUME Control, [Next]_vars PROVE Control'
  OBVIOUS
<1> USE BudgetAssumption, LimitAssumption, TransferAssumption
<1>0. /\ ControlTypes /\ Aligned /\ Position /\ Pace
      /\ Len(decisions) \in Nat /\ Len(observations) \in Nat
  BY DEF Control, ControlTypes
<1>1. CASE Start
  <2>1. /\ phase' = "validate" /\ ~awaiting' /\ awaiting' \in BOOLEAN
        /\ steps' = 0 /\ remaining' = MaxPlanningSteps /\ snapshot' = -1 /\ placed' = 0
        /\ decisions' = <<>> /\ observations' = <<>>
    BY <1>1 DEF Start
  <2>2. /\ decisions' \in Seq(Decisions) /\ observations' \in Seq(Observation)
        /\ Len(decisions') = 0 /\ Len(observations') = 0
    BY <2>1
  <2>3. ControlTypes'
    BY <2>1, <2>2 DEF ControlTypes, Phases
  <2>4. Aligned'
    BY <2>1, <2>2 DEF Aligned
  <2>5. Position' /\ Pace'
    BY <2>1 DEF Position, Pace, Preparing
  <2> QED BY <2>3, <2>4, <2>5 DEF Control
<1>2. CASE ValidateSurfaces \/ PutPlacement \/ StartGraph
  <2>1. /\ Preparing /\ phase' \in {"validate", "materialize", "observe"}
        /\ UNCHANGED <<awaiting, steps, remaining, decisions, observations, snapshot>>
        /\ placed' \in 0..Placements
    BY <1>0, <1>2 DEF ValidateSurfaces, PutPlacement, StartGraph, graphState, ControlTypes, Preparing
  <2>2. /\ decisions = <<>> /\ observations = <<>> /\ ~awaiting /\ steps = 0
        /\ Len(decisions) = 0 /\ Len(observations) = 0
    BY <1>0, <2>1 DEF Position
  <2>3. ControlTypes'
    BY <1>0, <2>1 DEF ControlTypes, Phases, Nodes
  <2>4. Aligned'
    BY <1>0, <2>1 DEF Aligned
  <2>5. Position'
    BY <2>1, <2>2 DEF Position, Preparing
  <2>6. Pace'
    BY <2>1, <2>2 DEF Pace
  <2> QED BY <2>3, <2>4, <2>5, <2>6 DEF Control
<1>3. ASSUME NEW node \in Nodes, Begin(node) PROVE Control'
  <2>1. /\ phase = node /\ ~awaiting /\ steps < RecursionLimit /\ steps' = steps + 1
        /\ awaiting' = TRUE
        /\ UNCHANGED <<phase, placed, remaining, decisions, observations, snapshot>>
    BY <1>3 DEF Begin, graphState
  <2>2. phase \notin {"idle", "validate", "materialize", "end"}
    BY <2>1 DEF Nodes
  <2>3. ControlTypes'
    BY <1>0, <2>1 DEF ControlTypes
  <2>4. Aligned'
    BY <1>0, <2>1 DEF Aligned
  <2>5. Position'
    BY <1>0, <2>1, <2>2 DEF Position, Preparing, EndsWithFinish
  <2>6. Pace'
    BY <1>0, <2>1, <2>2 DEF Pace, ControlTypes
  <2> QED BY <2>3, <2>4, <2>5, <2>6 DEF Control
<1>4. CASE EndObserve
  <2>1. /\ phase = "observe" /\ awaiting /\ awaiting' = FALSE
        /\ snapshot' = Len(observations)
        /\ phase' = IF remaining > 0 THEN "plan" ELSE "finalize"
        /\ UNCHANGED <<steps, placed, remaining, decisions, observations>>
    BY <1>4 DEF EndObserve, End, RouteAfterObserve
  <2>2. remaining \in Nat /\ steps \in Nat
    BY <1>0 DEF ControlTypes
  <2>3. ControlTypes'
    <3>1. phase' \in Phases /\ awaiting' \in BOOLEAN
      BY <2>1 DEF Phases, Nodes
    <3>2. snapshot' \in Int
      BY <1>0, <2>1
    <3>3. UNCHANGED <<steps, placed, remaining, decisions, observations>>
      BY <2>1
    <3> QED BY <1>0, <3>1, <3>2, <3>3 DEF ControlTypes
  <2>4. Aligned'
    BY <1>0, <2>1 DEF Aligned
  <2>5. Position'
    BY <1>0, <2>1, <2>2 DEF Position, Preparing
  <2>6. Pace'
    BY <1>0, <2>1, <2>2 DEF Pace
  <2> QED BY <2>3, <2>4, <2>5, <2>6 DEF Control
<1>5. ASSUME NEW decision \in Decisions, EndPlan(decision) PROVE Control'
  <2>1. /\ phase = "plan" /\ awaiting /\ awaiting' = FALSE /\ steps' = steps
        /\ remaining' = remaining - 1
        /\ phase' = IF decision = Finish THEN "finalize" ELSE "execute"
        /\ UNCHANGED <<observations, snapshot, placed>>
    BY <1>5 DEF EndPlan, End, RouteAfterPlan
  <2>2. /\ decisions' \in Seq(Decisions)
        /\ decisions' # <<>>
        /\ Len(decisions') = Len(decisions) + 1
        /\ \A k \in 1..Len(decisions) : decisions'[k] = decisions[k]
        /\ decisions'[Len(decisions) + 1] = decision
    BY <1>0, <1>5, AppendFacts DEF EndPlan, ControlTypes
  <2>3. /\ Len(observations) = Len(decisions) /\ snapshot = Len(observations)
        /\ \A k \in 1..Len(decisions) : decisions[k] # Finish
        /\ remaining > 0 /\ remaining \in 0..MaxPlanningSteps /\ steps \in Nat
    BY <1>0, <2>1 DEF Position, ControlTypes
  <2>4. ControlTypes'
    <3>1. phase' \in Phases /\ remaining' \in 0..MaxPlanningSteps
      BY <2>1, <2>3 DEF Phases, Nodes
    <3>2. awaiting' \in BOOLEAN /\ UNCHANGED <<steps, placed, snapshot, observations>>
      BY <2>1
    <3>3. decisions' \in Seq(Decisions)
      BY <2>2
    <3>4. /\ steps' \in 0..RecursionLimit /\ observations' \in Seq(Observation)
          /\ snapshot' \in Int /\ placed' \in 0..Placements
      BY <1>0, <3>2 DEF ControlTypes
    <3> QED BY <3>1, <3>2, <3>3, <3>4 DEF ControlTypes
  <2>5. Aligned'
    <3>1. Len(decisions') + remaining' = MaxPlanningSteps
      <4>1. Len(decisions) + remaining = MaxPlanningSteps
        BY <1>0 DEF Aligned
      <4>2. Len(decisions') = Len(decisions) + 1 /\ remaining' = remaining - 1
        BY <2>1, <2>2
      <4>3. remaining \in Int /\ Len(decisions) \in Int
        BY <1>0, <2>3
      <4> QED BY <4>1, <4>2, <4>3
    <3>2. \A k \in 1..Len(observations') : observations'[k].action = decisions'[k]
      BY <1>0, <2>1, <2>2, <2>3 DEF Aligned
    <3>3. \A k \in 1..Len(decisions') - 1 : decisions'[k] # Finish
      BY <1>0, <2>2, <2>3
    <3> QED BY <1>0, <2>1, <2>2, <2>3, <3>1, <3>2, <3>3 DEF Aligned
  <2>6. Position'
    BY <1>0, <2>1, <2>2, <2>3 DEF Position, Preparing, EndsWithFinish
  <2>7. Pace'
    BY <1>0, <2>1, <2>2, <2>3 DEF Pace
  <2> QED BY <2>4, <2>5, <2>6, <2>7 DEF Control
<1>6. ASSUME NEW transfers \in 0..MaxTransfers, EndExecute(transfers) PROVE Control'
  <2> DEFINE observation == [action |-> Last(decisions), transfers |-> transfers]
  <2>1. /\ phase = "execute" /\ awaiting /\ awaiting' = FALSE /\ steps' = steps
        /\ observations' = Append(observations, observation)
        /\ phase' = "observe"
        /\ UNCHANGED <<remaining, decisions, snapshot, placed>>
    BY <1>6 DEF EndExecute, End
  <2>2. /\ Len(decisions) = Len(observations) + 1
        /\ decisions[Len(decisions)] # Finish
        /\ steps \in Nat
    BY <1>0, <2>1 DEF Position, ControlTypes
  <2>3. decisions[Len(decisions)] \in Actions
    BY <1>0, <2>2 DEF ControlTypes, Decisions
  <2>4. observation.action = decisions[Len(decisions)] /\ observation \in Observation
    BY <2>3 DEF Last, Observation
  <2> HIDE DEF observation
  <2>5. /\ observations' \in Seq(Observation)
        /\ Len(observations') = Len(observations) + 1
        /\ \A k \in 1..Len(observations) : observations'[k] = observations[k]
        /\ observations'[Len(observations) + 1] = observation
    BY <1>0, <2>1, <2>4, AppendFacts DEF ControlTypes
  <2>6. ControlTypes'
    BY <1>0, <2>1, <2>5 DEF ControlTypes, Phases, Nodes
  <2>7. Aligned'
    BY <1>0, <2>1, <2>2, <2>4, <2>5 DEF Aligned
  <2>8. \A k \in 1..Len(decisions) : decisions[k] # Finish
    BY <1>0, <2>2 DEF Aligned
  <2>9. Position'
    BY <1>0, <2>1, <2>2, <2>5, <2>8 DEF Position, Preparing
  <2>10. Pace'
    BY <1>0, <2>1, <2>2 DEF Pace
  <2> QED BY <2>6, <2>7, <2>9, <2>10 DEF Control
<1>7. CASE EndFinalize \/ EndEvaluate \/ EndGraph \/ ExitStack
  <2>1. /\ \/ phase = "finalize" /\ phase' = "evaluate" /\ awaiting /\ awaiting' = FALSE
           \/ phase = "evaluate" /\ phase' = "end" /\ awaiting /\ awaiting' = FALSE
           \/ phase = "end" /\ phase' = "exit" /\ awaiting' = awaiting
           \/ phase = "exit" /\ phase' = "close" /\ awaiting' = awaiting
        /\ UNCHANGED <<steps, placed, remaining, decisions, observations, snapshot>>
    BY <1>7 DEF EndFinalize, EndEvaluate, EndGraph, ExitStack, End, graphState
  <2>2. steps \in Nat
    BY <1>0 DEF ControlTypes
  <2>3. ControlTypes'
    BY <1>0, <2>1 DEF ControlTypes, Phases, Nodes
  <2>4. Aligned'
    BY <1>0, <2>1 DEF Aligned
  <2>5. Position'
    BY <1>0, <2>1 DEF Position, Preparing, EndsWithFinish
  <2>6. Pace'
    BY <1>0, <2>1, <2>2 DEF Pace
  <2> QED BY <2>3, <2>4, <2>5, <2>6 DEF Control
<1>8. CASE Raise \/ EngineStops \/ Abort \/ HandleFailure \/ ClosePlanner \/ WriteTemporary
           \/ ReplaceResult
  <2>1. /\ phase' \in {"failed", "aborted", "close", "write", "replace", "done"}
        /\ UNCHANGED <<awaiting, steps, placed, remaining, decisions, observations, snapshot>>
    BY <1>8 DEF Raise, EngineStops, Abort, HandleFailure, ClosePlanner, WriteTemporary,
                ReplaceResult, Failed, graphState
  <2>2. ControlTypes'
    BY <1>0, <2>1 DEF ControlTypes, Phases
  <2>3. Aligned'
    BY <1>0, <2>1 DEF Aligned
  <2>4. Position' /\ Pace'
    BY <2>1 DEF Position, Pace, Preparing
  <2> QED BY <2>2, <2>3, <2>4 DEF Control
<1>9. CASE UNCHANGED vars
  <2>1. UNCHANGED <<phase, awaiting, steps, placed, remaining, decisions, observations, snapshot>>
    BY <1>9 DEF vars, graphState
  <2>2. ControlTypes' /\ Aligned'
    BY <1>0, <2>1 DEF ControlTypes, Aligned
  <2>3. Position' /\ Pace'
    BY <1>0, <2>1 DEF Position, Preparing, EndsWithFinish, Pace
  <2> QED BY <2>2, <2>3 DEF Control
<1> QED BY <1>1, <1>2, <1>3, <1>4, <1>5, <1>6, <1>7, <1>8, <1>9 DEF Next, Progress

\* The inductive invariant behind the theorems below.
THEOREM ControlInvariance == Spec => []Control
BY InitControl, StepControl, PTL DEF Spec

-----------------------------------------------------------------------------
\* Every proposed action is executed, observed under its own decision, and
\* nothing follows a FinishDecision (graph.py:187-222).
THEOREM ObservationsMatch == Spec => []ObservationsMatchDecisions
<1>1. Control => ObservationsMatchDecisions
  <2> SUFFICES ASSUME Control PROVE ObservationsMatchDecisions
    OBVIOUS
  <2> QED BY DEF Control, Aligned, Position, ObservationsMatchDecisions, EndsWithFinish, Last
<1> QED BY <1>1, ControlInvariance, PTL

\* The planner is called within its budget, and the run finalizes exactly when
\* it finished or used the budget up (graph.py:130-132, 179).
THEOREM BudgetExact == Spec => []BudgetIsExact
<1>1. Control => BudgetIsExact
  BY DEF Control, Aligned, Position, BudgetIsExact, EndsWithFinish, Last
<1> QED BY <1>1, ControlInvariance, PTL

\* Every execution uses a snapshot taken after the execution before it
\* (graph.py:105-116).
THEOREM SnapshotFresh == Spec => []SnapshotIsFresh
<1>1. Control => SnapshotIsFresh
  BY DEF Control, Position, SnapshotIsFresh
<1> QED BY <1>1, ControlInvariance, PTL

\* A run takes at most 3 * budget + 3 supersteps, so a larger engine limit never
\* cuts it off before finalization (graph.py:98-119, 314).
THEOREM EngineHarmless ==
  ASSUME RecursionLimit > 3 * MaxPlanningSteps + 3
  PROVE  Spec => []EngineLimitIsHarmless
<1>1. Control => EngineLimitIsHarmless
  BY BudgetAssumption, LimitAssumption
     DEF Control, ControlTypes, Aligned, Position, Pace, EngineLimitIsHarmless, Nodes
<1> QED BY <1>1, ControlInvariance, PTL

-----------------------------------------------------------------------------
\* The events a list of types makes.
LEMMA NewEventsProperties ==
  ASSUME NEW c \in Cursor, NEW types \in Seq(EventTypes)
  PROVE  /\ NewEvents(c, types) \in Seq(Event)
         /\ Len(NewEvents(c, types)) = Len(types)
<1>1. \A k \in 1..Len(types) : NewEvents(c, types)[k] \in Event
  BY DEF NewEvents, Event, Cursor, Parent
<1> QED BY <1>1 DEF NewEvents

\* The trace state a file ends in.
LEMMA EndOfType ==
  ASSUME NEW t \in Seq(Event)
  PROVE  EndOf(t) \in Cursor
<1>1. CASE t = <<>>
  BY <1>1 DEF EndOf, Cursor, Parent
<1>2. CASE t # <<>>
  <2>1. Last(t) \in Event
    BY <1>2 DEF Last
  <2> QED BY <1>2, <2>1 DEF EndOf, Cursor, Parent, Event, Record!Id
<1> QED BY <1>1, <1>2

\* The chain, condition by condition.
LEMMA ChainedLinks ==
  ASSUME NEW t
  PROVE  Record!Chained(t) <=>
           \A i \in 1..Len(t) :
             /\ t[i].index = i - 1
             /\ i = 1 => t[i].parent = NoParent
             /\ i # 1 => t[i].parent = Record!Id(t[i - 1])
BY DEF Record!Chained

\* The trace state a file ends in, field by field.
LEMMA EndOfFields ==
  ASSUME NEW t \in Seq(Event)
  PROVE  /\ EndOf(t).index = Len(t)
         /\ t = <<>> => EndOf(t).parent = NoParent
         /\ t # <<>> => EndOf(t).parent = Record!Id(t[Len(t)])
BY DEF EndOf, Last

\* The type of the last event of a file.
LastType(events) == events[Len(events)].type

\* Appending no events changes nothing.
LEMMA EmitNothing ==
  ASSUME NEW t \in Seq(Event), NEW c \in Cursor
  PROVE  t \o NewEvents(c, <<>>) = t /\ Advance(c, <<>>) = c
<1>1. NewEvents(c, <<>>) = <<>>
  BY DEF NewEvents
<1> QED BY <1>1 DEF Advance

\* Events numbered from the end of a chained file extend the chain.
LEMMA EmitExtends ==
  ASSUME NEW t \in Seq(Event), Record!Chained(t), NEW types \in Seq(EventTypes), Len(types) > 0,
         NEW u, u = t \o NewEvents(EndOf(t), types)
  PROVE  /\ IsStrictPrefix(t, u)
         /\ u \in Seq(Event)
         /\ Record!Chained(u)
         /\ EndOf(u) = Advance(EndOf(t), types)
         /\ u # <<>>
         /\ LastType(u) = Last(types)
<1> DEFINE new == NewEvents(EndOf(t), types)
<1>1. new \in Seq(Event) /\ Len(new) = Len(types) /\ EndOf(t) \in Cursor
  BY NewEventsProperties, EndOfType
<1>0. u = t \o new
  OBVIOUS
<1> HIDE DEF new
<1>2. /\ Len(t) \in Nat
      /\ u \in Seq(Event)
      /\ Len(u) = Len(t) + Len(types)
      /\ \A i \in 1..Len(t) : u[i] = t[i]
      /\ \A k \in 1..Len(types) : u[Len(t) + k] = new[k]
  <2>1. /\ u \in Seq(Event)
        /\ Len(u) = Len(t) + Len(types)
        /\ \A i \in 1..(Len(t) + Len(types)) :
             u[i] = IF i <= Len(t) THEN t[i] ELSE new[i - Len(t)]
    <3>1. new \in Seq(Event) /\ Len(new) = Len(types)
      BY <1>1
    <3>2. /\ t \o new \in Seq(Event)
          /\ Len(t \o new) = Len(t) + Len(new)
          /\ \A i \in 1..(Len(t) + Len(new)) :
               (t \o new)[i] = IF i <= Len(t) THEN t[i] ELSE new[i - Len(t)]
      BY <3>1, ConcatProperties
    <3> QED BY <1>0, <3>1, <3>2
  <2>2. Len(t) \in Nat /\ Len(types) \in Nat
    BY LenProperties
  <2> QED BY <2>1, <2>2
<1>3. /\ \A k \in 1..Len(types) : new[k].index = Len(t) + k - 1 /\ new[k].type = types[k]
      /\ new[1].parent = EndOf(t).parent
      /\ \A k \in 1..Len(types) : k # 1 => new[k].parent = <<Len(t) + k - 2, types[k - 1]>>
  <2>1. EndOf(t).index = Len(t)
    BY EndOfFields
  <2>2. 1 \in 1..Len(types)
    OBVIOUS
  <2> QED BY <2>1, <2>2 DEF NewEvents, new
<1>4. Record!Chained(u)
  <2> SUFFICES ASSUME NEW i \in 1..Len(u)
               PROVE  /\ u[i].index = i - 1
                      /\ i = 1 => u[i].parent = NoParent
                      /\ i # 1 => u[i].parent = Record!Id(u[i - 1])
    BY ChainedLinks
  <2>1. CASE i <= Len(t)
    BY <1>2, <2>1, ChainedLinks
  <2>2. CASE i = Len(t) + 1
    <3>1. 1 \in 1..Len(types) /\ u[i] = new[1]
      BY <1>2, <2>2
    <3>2. new[1].index = Len(t) /\ new[1].parent = EndOf(t).parent
      BY <1>2, <1>3, <3>1
    <3>3. CASE t = <<>>
      <4>1. Len(t) = 0
        BY <3>3
      <4>2. EndOf(t).parent = NoParent
        BY <3>3, EndOfFields
      <4> QED BY <2>2, <3>1, <3>2, <4>1, <4>2
    <3>4. CASE t # <<>>
      <4>1. Len(t) \in 1..Len(t) /\ u[i - 1] = t[Len(t)] /\ i # 1
        BY <1>2, <2>2, <3>4
      <4> QED BY <1>2, <2>2, <3>1, <3>2, <3>4, <4>1, EndOfFields
    <3> QED BY <3>3, <3>4
  <2>3. CASE i > Len(t) + 1
    <3>0. i \in Int /\ Len(t) \in Nat /\ Len(types) \in Nat /\ i <= Len(t) + Len(types)
      BY <1>2
    <3>1. PICK k \in 1..Len(types) : i = Len(t) + k /\ k # 1
      BY <2>3, <3>0
    <3>2. /\ k - 1 \in 1..Len(types) /\ i - 1 = Len(t) + (k - 1)
          /\ u[i] = new[k] /\ u[i - 1] = new[k - 1]
      <4>1. k - 1 \in 1..Len(types) /\ i - 1 = Len(t) + (k - 1)
        BY <3>0, <3>1
      <4>2. \A j \in 1..Len(types) : u[Len(t) + j] = new[j]
        BY <1>2
      <4> QED BY <3>1, <4>1, <4>2
    <3>3. /\ new[k].index = i - 1
          /\ new[k].parent = <<i - 2, types[k - 1]>>
      BY <1>2, <1>3, <3>1
    <3>4. /\ new[k - 1].index = i - 2
          /\ new[k - 1].type = types[k - 1]
      <4>1. new[k - 1].index = Len(t) + (k - 1) - 1 /\ new[k - 1].type = types[k - 1]
        BY <1>3, <3>2
      <4> QED BY <3>0, <3>1, <4>1
    <3>5. Record!Id(u[i - 1]) = <<i - 2, types[k - 1]>>
      BY <3>2, <3>4 DEF Record!Id
    <3> QED BY <1>2, <2>3, <3>2, <3>3, <3>5
  <2>4. i \in Nat /\ Len(t) \in Nat
    BY <1>2
  <2> QED BY <2>1, <2>2, <2>3, <2>4
<1>5. EndOf(u) = Advance(EndOf(t), types) /\ LastType(u) = Last(types)
  <2>1. Len(types) \in 1..Len(types) /\ u # <<>> /\ u[Len(u)] = new[Len(types)]
    BY <1>2
  <2>2. /\ u[Len(u)].type = types[Len(types)]
        /\ u[Len(u)].index = Len(t) + Len(types) - 1
    BY <1>3, <2>1
  <2>3. EndOf(u) = [index |-> Len(t) + Len(types),
                    parent |-> <<Len(t) + Len(types) - 1, types[Len(types)]>>]
    BY <1>2, <2>1, <2>2 DEF EndOf, Last, Record!Id
  <2>4. EndOf(t).index = Len(t)
    BY DEF EndOf
  <2>5. LastType(u) = Last(types)
    BY <2>2 DEF LastType, Last
  <2> QED BY <1>2, <2>3, <2>4, <2>5 DEF Advance
<1>6. u # <<>> /\ t # u /\ Len(t) <= Len(u) /\ Len(t) \in Nat
  <2>1. Len(types) \in Nat /\ Len(types) > 0
    OBVIOUS
  <2> QED BY <1>2, <2>1
<1>7. SubSeq(t, 1, Len(t)) = SubSeq(u, 1, Len(t))
  <2>1. SubSeq(t, 1, Len(t)) = t
    BY SubSeqFull
  <2>2. \A i \in 1..Len(t) : u[i] \in Event
    BY <1>2, <1>6
  <2>3. /\ SubSeq(u, 1, Len(t)) \in Seq(Event)
        /\ Len(SubSeq(u, 1, Len(t))) = Len(t)
        /\ \A i \in 1..Len(t) : SubSeq(u, 1, Len(t))[i] = u[i]
    BY <1>6, <2>2, SubSeqProperties
  <2>4. \A i \in 1..Len(t) : SubSeq(u, 1, Len(t))[i] = t[i]
    BY <1>2, <2>3
  <2>5. SubSeq(u, 1, Len(t)) = t
    BY <2>3, <2>4, SeqEqual
  <2> QED BY <2>1, <2>5
<1>8. IsStrictPrefix(t, u)
  BY <1>6, <1>7 DEF IsStrictPrefix, IsPrefix
<1> QED BY <1>2, <1>4, <1>5, <1>6, <1>8

-----------------------------------------------------------------------------
TraceTypes ==
  /\ directory \in BOOLEAN
  /\ trace \in Seq(Event)
  /\ result \in Result \cup {NoResult}
  /\ cursor \in Cursor
  /\ local \in Cursor
  /\ outcome \in Result \cup {NoResult}

Ends(type) == Record!EndsIn(trace, type)

\* Where the next event is numbered from.
Cursors ==
  /\ Preparing \/ phase \in Nodes \cup {"end"} => (~awaiting => cursor = EndOf(trace))
  /\ phase \in Nodes => (awaiting => local = EndOf(trace))

\* How the trace ends in each phase.
Openness ==
  /\ Preparing => trace = <<>>
  /\ phase \in Nodes \cup {"end"} => ~Ends("run.end") /\ ~Ends("run.failed")
  /\ phase = "failed" => ~Ends("run.failed")
  /\ phase = "exit" => Ends("run.end") /\ outcome \in Result /\ outcome.completed = TRUE
  /\ phase \in {"close", "write", "replace"} =>
       /\ outcome \in Result
       /\ Ends(IF outcome.completed THEN "run.end" ELSE "run.failed")
  /\ phase \notin {"done", "aborted"} => result = NoResult
  /\ ~directory => phase = "idle"

TraceInv == TraceTypes /\ Record!Chained(trace) /\ Cursors /\ Openness

-----------------------------------------------------------------------------
\* The events of the nodes, and of ainvoke's caller.
NodeTypes == EventTypes \ {"run.end", "run.failed"}

\* The same event type, n times.
LEMMA RepeatProperties ==
  ASSUME NEW S, NEW type \in S, NEW n \in Nat
  PROVE  Repeat(type, n) \in Seq(S) /\ Len(Repeat(type, n)) = n
BY DEF Repeat

\* What PlanningGraph.run writes before ainvoke (graph.py:277-298) closes nothing.
LEMMA OpeningProperties == OpeningEvents \in Seq(NodeTypes) /\ OpeningEvents # <<>>
<1> DEFINE rest == Repeat("artifact.materialize.end", Placements)
<1>1. rest \in Seq(NodeTypes)
  BY RepeatProperties, TransferAssumption DEF NodeTypes, EventTypes
<1>2. <<"task.start">> \in Seq(NodeTypes)
  BY DEF NodeTypes, EventTypes
<1> HIDE DEF rest
<1>3. <<"task.start">> \o rest \in Seq(NodeTypes) /\ Len(<<"task.start">> \o rest) = 1 + Len(rest)
  BY <1>1, <1>2, ConcatProperties
<1>4. Len(rest) \in Nat
  BY <1>1
<1>5. OpeningEvents = <<"task.start">> \o rest
  BY DEF OpeningEvents, rest
<1> QED BY <1>3, <1>4, <1>5

\* One event of a node.
LEMMA SingleEvents ==
  \A type \in NodeTypes : <<type>> \in Seq(NodeTypes) /\ <<type>> # <<>>
OBVIOUS

\* What a node writes before its await closes nothing.
LEMMA StartEventsProperties ==
  ASSUME NEW node \in Nodes
  PROVE  StartEvents[node] \in Seq(NodeTypes)
<1>1. /\ StartEvents["observe"] = <<>> /\ StartEvents["evaluate"] = <<>>
      /\ StartEvents["plan"] = <<"planner.start">>
      /\ StartEvents["execute"] = <<"operator.start">>
      /\ StartEvents["finalize"] = <<"finalize.start">>
  BY DEF StartEvents
<1>2. /\ "planner.start" \in NodeTypes /\ "operator.start" \in NodeTypes
      /\ "finalize.start" \in NodeTypes
  BY DEF NodeTypes, EventTypes
<1>3. <<>> \in Seq(NodeTypes)
  OBVIOUS
<1>4. /\ <<"planner.start">> \in Seq(NodeTypes) /\ <<"operator.start">> \in Seq(NodeTypes)
      /\ <<"finalize.start">> \in Seq(NodeTypes)
  BY <1>2, SingleEvents
<1> QED BY <1>1, <1>3, <1>4 DEF Nodes

\* What the plan node writes after its await closes nothing.
LEMMA PlanEventsProperties ==
  ASSUME NEW decision
  PROVE  PlanEvents(decision) \in Seq(NodeTypes) /\ PlanEvents(decision) # <<>>
<1>1. \A a, b \in NodeTypes : <<a, b>> \in Seq(NodeTypes) /\ <<a, b>> # <<>>
  OBVIOUS
<1>2. CASE decision = Finish
  BY <1>1, <1>2 DEF PlanEvents, NodeTypes, EventTypes
<1>3. CASE decision # Finish
  BY <1>1, <1>3 DEF PlanEvents, NodeTypes, EventTypes
<1> QED BY <1>2, <1>3

\* What the execute node writes after its await closes nothing.
LEMMA ExecuteEventsProperties ==
  ASSUME NEW transfers \in Nat
  PROVE  ExecuteEvents(transfers) \in Seq(NodeTypes) /\ ExecuteEvents(transfers) # <<>>
<1> DEFINE rest == Repeat("artifact.transfer.end", transfers)
<1>1. rest \in Seq(NodeTypes)
  BY RepeatProperties DEF NodeTypes, EventTypes
<1>2. <<"operator.end">> \in Seq(NodeTypes)
  BY DEF NodeTypes, EventTypes
<1> HIDE DEF rest
<1>3. rest \o <<"operator.end">> \in Seq(NodeTypes)
      /\ Len(rest \o <<"operator.end">>) = Len(rest) + 1
  BY <1>1, <1>2, ConcatProperties
<1>4. Len(rest) \in Nat
  BY <1>1
<1>5. ExecuteEvents(transfers) = rest \o <<"operator.end">>
  BY DEF ExecuteEvents, rest
<1> QED BY <1>3, <1>4, <1>5

\* Whatever a node may write after its await closes nothing.
LEMMA ClosingEventsProperties ==
  ASSUME NEW types \in ClosingEvents
  PROVE  types \in Seq(NodeTypes) /\ phase \in Nodes
<1>1. CASE phase = "observe"
  BY <1>1, SingleEvents DEF ClosingEvents, Nodes, NodeTypes, EventTypes
<1>2. CASE phase = "plan"
  BY <1>2, PlanEventsProperties DEF ClosingEvents, Nodes
<1>3. CASE phase = "execute"
  BY <1>3, ExecuteEventsProperties, TransferAssumption DEF ClosingEvents, Nodes
<1>4. CASE phase = "finalize"
  BY <1>4, SingleEvents DEF ClosingEvents, Nodes, NodeTypes, EventTypes
<1>5. CASE phase = "evaluate"
  BY <1>5, SingleEvents DEF ClosingEvents, Nodes, NodeTypes, EventTypes
<1>6. CASE phase \notin Nodes
  BY <1>6 DEF ClosingEvents, Nodes
<1> QED BY <1>1, <1>2, <1>3, <1>4, <1>5, <1>6 DEF Nodes

\* A part of the events that are due.
LEMMA PartProperties ==
  ASSUME NEW S, NEW types \in Seq(S), NEW k \in 0..Len(types)
  PROVE  SubSeq(types, 1, k) \in Seq(S)
BY SubSeqProperties

-----------------------------------------------------------------------------
\* Appending events at the end of a chained, open trace is a Log step.
LEMMA EmitLogs ==
  ASSUME TraceTypes, Record!Chained(trace), result = NoResult, result' = result,
         NEW types \in Seq(EventTypes), Len(types) > 0,
         trace' = trace \o NewEvents(EndOf(trace), types),
         ~Ends("run.failed"), Ends("run.end") => Last(types) = "run.failed"
  PROVE  /\ Record!Log
         /\ trace' \in Seq(Event)
         /\ Record!Chained(trace')
         /\ EndOf(trace') = Advance(EndOf(trace), types)
         /\ trace' # <<>>
         /\ LastType(trace') = Last(types)
<1>1. trace \in Seq(Event)
  BY DEF TraceTypes
<1>2. /\ IsStrictPrefix(trace, trace')
      /\ trace' \in Seq(Event)
      /\ Record!Chained(trace')
      /\ EndOf(trace') = Advance(EndOf(trace), types)
      /\ trace' # <<>>
      /\ LastType(trace') = Last(types)
  BY <1>1, EmitExtends
<1>3. Record!Log
  <2>1. ~Record!EndsIn(trace, "run.failed")
    BY DEF Ends
  <2>2. Record!EndsIn(trace, "run.end") => Record!EndsIn(trace', "run.failed")
    BY <1>2 DEF Record!EndsIn, Ends, LastType
  <2> QED BY <1>2, <2>1, <2>2
       DEF Record!Log, Record!IsStrictPrefix, Record!IsPrefix, IsStrictPrefix, IsPrefix
<1> QED BY <1>2, <1>3

\* A file that is not empty ends in the type of its last event.
LEMMA EndsInLast ==
  ASSUME NEW t, t # <<>>, NEW type
  PROVE  Record!EndsIn(t, type) <=> LastType(t) = type
BY DEF Record!EndsIn, LastType

\* The last of some types is one of them.
LEMMA LastProperties ==
  ASSUME NEW S, NEW types \in Seq(S), Len(types) > 0
  PROVE  Last(types) \in S
BY DEF Last

\* The trace state after some events is a trace state.
LEMMA AdvanceType ==
  ASSUME NEW from \in Cursor, NEW types \in Seq(EventTypes)
  PROVE  Advance(from, types) \in Cursor
<1>1. CASE types = <<>>
  BY <1>1 DEF Advance
<1>2. CASE types # <<>>
  <2>1. /\ Len(types) \in Nat /\ Len(types) > 0 /\ types[Len(types)] \in EventTypes
        /\ from.index \in Nat
    BY <1>2 DEF Cursor
  <2>2. from.index + Len(types) \in Nat /\ from.index + Len(types) - 1 \in Nat
    BY <2>1
  <2> QED BY <1>2, <2>1, <2>2 DEF Advance, Cursor, Parent
<1> QED BY <1>1, <1>2

\* Events that do not close the trace.
OpenTypes == EventTypes \ {"run.failed"}

\* Appending any number of events that do not close the trace is allowed.
LEMMA OpenEmit ==
  ASSUME TraceTypes, Record!Chained(trace), result = NoResult, result' = result,
         ~Ends("run.end"), ~Ends("run.failed"),
         NEW types \in Seq(OpenTypes),
         trace' = trace \o NewEvents(EndOf(trace), types)
  PROVE  /\ [Record!Next]_<<trace, result>>
         /\ trace' \in Seq(Event)
         /\ Record!Chained(trace')
         /\ EndOf(trace') = Advance(EndOf(trace), types)
         /\ Advance(EndOf(trace), types) \in Cursor
         /\ ~Record!EndsIn(trace', "run.failed")
         /\ types \in Seq(NodeTypes) => ~Record!EndsIn(trace', "run.end")
<1>1. types \in Seq(EventTypes) /\ trace \in Seq(Event)
  BY DEF OpenTypes, TraceTypes
<1>2. Advance(EndOf(trace), types) \in Cursor
  BY <1>1, AdvanceType, EndOfType
<1>3. CASE types = <<>>
  <2>1. trace' = trace /\ Advance(EndOf(trace), types) = EndOf(trace)
    BY <1>1, <1>3, EmitNothing, EndOfType
  <2> QED BY <1>1, <1>2, <2>1 DEF Ends
<1>4. CASE Len(types) > 0
  <2>1. /\ Record!Log
        /\ trace' \in Seq(Event)
        /\ Record!Chained(trace')
        /\ EndOf(trace') = Advance(EndOf(trace), types)
        /\ trace' # <<>>
        /\ LastType(trace') = Last(types)
    BY <1>1, <1>4, EmitLogs
  <2>2. Last(types) \in OpenTypes /\ (types \in Seq(NodeTypes) => Last(types) \in NodeTypes)
    BY <1>4, LastProperties
  <2>3. Last(types) # "run.failed" /\ (types \in Seq(NodeTypes) => Last(types) # "run.end")
    BY <2>2 DEF OpenTypes, NodeTypes
  <2> QED BY <1>2, <2>1, <2>3, EndsInLast DEF Record!Next
<1>5. types = <<>> \/ Len(types) > 0
  OBVIOUS
<1> QED BY <1>3, <1>4, <1>5

\* The events of the nodes do not close the trace.
LEMMA NodeTypesAreOpen == ASSUME NEW types \in Seq(NodeTypes) PROVE types \in Seq(OpenTypes)
BY DEF NodeTypes, OpenTypes

-----------------------------------------------------------------------------
\* The traces a stop leaves.
LEMMA StoppedIsEmitted ==
  ASSUME Control, TraceInv, NEW u \in StoppedTraces
  PROVE  \/ u = trace
         \/ /\ phase \in Nodes \cup {"materialize", "end"}
            /\ \E types \in Seq(OpenTypes) : u = trace \o NewEvents(EndOf(trace), types)
<1> SUFFICES ASSUME u # trace
             PROVE  /\ phase \in Nodes \cup {"materialize", "end"}
                    /\ \E types \in Seq(OpenTypes) : u = trace \o NewEvents(EndOf(trace), types)
  OBVIOUS
<1>0. awaiting \in BOOLEAN /\ (phase \in {"materialize", "end"} => ~awaiting)
  BY DEF Control, ControlTypes, Position, Pace, Preparing
<1>1. CASE awaiting
  <2>1. PICK types \in ClosingEvents : u \in PartlyWritten(local, types)
    BY <1>1 DEF StoppedTraces
  <2>2. phase \in Nodes /\ types \in Seq(OpenTypes)
    BY ClosingEventsProperties, NodeTypesAreOpen
  <2>3. local = EndOf(trace)
    BY <1>1, <2>2 DEF TraceInv, Cursors
  <2> QED BY <2>1, <2>2, <2>3, PartProperties DEF PartlyWritten
<1>2. CASE ~awaiting /\ phase = "materialize" /\ placed = Placements
  <2>1. u \in PartlyWritten(cursor, OpeningEvents)
    BY <1>2 DEF StoppedTraces
  <2>2. OpeningEvents \in Seq(OpenTypes)
    BY OpeningProperties, NodeTypesAreOpen
  <2>3. cursor = EndOf(trace)
    BY <1>2 DEF TraceInv, Cursors, Preparing
  <2> QED BY <1>2, <2>1, <2>2, <2>3, PartProperties DEF PartlyWritten
<1>3. CASE ~awaiting /\ phase \in Nodes
  <2>1. u \in PartlyWritten(cursor, StartEvents[phase])
    BY <1>3 DEF StoppedTraces, Nodes
  <2>2. StartEvents[phase] \in Seq(OpenTypes)
    BY <1>3, StartEventsProperties, NodeTypesAreOpen
  <2>3. cursor = EndOf(trace)
    BY <1>3 DEF TraceInv, Cursors
  <2> QED BY <1>3, <2>1, <2>2, <2>3, PartProperties DEF PartlyWritten
<1>4. CASE ~awaiting /\ phase = "end"
  <2>1. u \in PartlyWritten(cursor, <<"run.end">>)
    BY <1>4 DEF StoppedTraces, Nodes
  <2>2. <<"run.end">> \in Seq(OpenTypes)
    BY DEF OpenTypes, EventTypes
  <2>3. cursor = EndOf(trace)
    BY <1>4 DEF TraceInv, Cursors
  <2> QED BY <1>4, <2>1, <2>2, <2>3, PartProperties DEF PartlyWritten
<1>5. CASE /\ ~awaiting /\ phase \notin Nodes \cup {"end"}
           /\ ~(phase = "materialize" /\ placed = Placements)
  BY <1>5 DEF StoppedTraces
<1> QED BY <1>0, <1>1, <1>2, <1>3, <1>4, <1>5

\* The total of a run's transfers is a number.
LEMMA TotalIsNatural ==
  ASSUME ControlTypes
  PROVE  TotalTransfers \in Nat
<1>1. Len(observations) \in Nat /\ MaxTransfers \in Nat /\ placed \in Nat
  <2>1. observations \in Seq(Observation) /\ placed \in 0..Placements
    BY DEF ControlTypes
  <2>2. Len(observations) \in Nat
    BY <2>1
  <2> QED BY <2>1, <2>2, TransferAssumption
<1>2. \A k \in 1..Len(observations) : observations[k].transfers \in 0..MaxTransfers
  <2>1. observations \in Seq(Observation)
    BY DEF ControlTypes
  <2>2. \A k \in 1..Len(observations) : observations[k] \in Observation
    BY <2>1
  <2> QED BY <2>2 DEF Observation
<1>3. Pulls \in SUBSET ((1..Len(observations)) \X (1..MaxTransfers))
  <2>1. ASSUME NEW p \in Pulls
        PROVE  p \in (1..Len(observations)) \X (1..MaxTransfers)
    <3>1. PICK k \in 1..Len(observations) : p \in {k} \X (1..observations[k].transfers)
      BY DEF Pulls
    <3>2. observations[k].transfers \in 0..MaxTransfers
      BY <1>2
    <3> QED BY <1>1, <3>1, <3>2
  <2> QED BY <2>1
<1>4. IsFiniteSet((1..Len(observations)) \X (1..MaxTransfers))
  <2>1. IsFiniteSet(1..Len(observations)) /\ IsFiniteSet(1..MaxTransfers)
    BY <1>1, FS_Interval
  <2> QED BY <2>1, FS_Product
<1>5. Cardinality(Pulls) \in Nat
  BY <1>3, <1>4, FS_Subset, FS_CardinalityType
<1> QED BY <1>1, <1>5 DEF TotalTransfers

-----------------------------------------------------------------------------
\* The invariant and the promise hold in an empty run directory.
LEMMA InitTrace == Init => TraceInv /\ Record!Init
<1> SUFFICES ASSUME Init PROVE TraceInv /\ Record!Init
  OBVIOUS
<1>1. /\ directory = FALSE /\ trace = <<>> /\ result = NoResult /\ phase = "idle" /\ ~awaiting
      /\ cursor = [index |-> 0, parent |-> NoParent] /\ local = cursor /\ outcome = NoResult
  BY DEF Init
<1>2. trace \in Seq(Event) /\ Len(trace) = 0
  BY <1>1
<1>3. cursor \in Cursor /\ cursor = EndOf(trace)
  BY <1>1, <1>2 DEF Cursor, Parent, EndOf
<1>4. TraceTypes
  BY <1>1, <1>2, <1>3 DEF TraceTypes
<1>5. Record!Chained(trace)
  BY <1>2 DEF Record!Chained
<1>6. Cursors
  BY <1>1, <1>3 DEF Cursors, Nodes
<1>7. Openness
  BY <1>1 DEF Openness, Nodes, Preparing
<1> QED BY <1>1, <1>4, <1>5, <1>6, <1>7 DEF TraceInv, Record!Init

\* A node, or the start of the graph, writes its events.
LEMMA NodeStep ==
  ASSUME Control, TraceInv, phase \in Nodes \cup {"materialize"},
         NEW from, from = EndOf(trace), NEW types \in Seq(NodeTypes), Emit(from, types)
  PROVE  /\ [Record!Next]_<<trace, result>>
         /\ trace' \in Seq(Event) /\ Record!Chained(trace')
         /\ EndOf(trace') = Advance(from, types) /\ Advance(from, types) \in Cursor
         /\ ~Record!EndsIn(trace', "run.failed") /\ ~Record!EndsIn(trace', "run.end")
         /\ directory' = TRUE /\ result' = result /\ result = NoResult
         /\ directory \in BOOLEAN
<1>1. TraceTypes /\ Record!Chained(trace)
  BY DEF TraceInv
<1>2. result = NoResult /\ directory = TRUE
  BY <1>1 DEF TraceInv, Openness, TraceTypes, Nodes
<1>3. ~Ends("run.end") /\ ~Ends("run.failed")
  BY DEF TraceInv, Openness, Preparing, Ends, Record!EndsIn
<1>4. /\ trace' = trace \o NewEvents(EndOf(trace), types)
      /\ directory' = directory /\ result' = result
  BY DEF Emit
<1>5. types \in Seq(OpenTypes)
  BY NodeTypesAreOpen
<1>6. /\ [Record!Next]_<<trace, result>>
      /\ trace' \in Seq(Event) /\ Record!Chained(trace')
      /\ EndOf(trace') = Advance(EndOf(trace), types) /\ Advance(EndOf(trace), types) \in Cursor
      /\ ~Record!EndsIn(trace', "run.failed")
      /\ types \in Seq(NodeTypes) => ~Record!EndsIn(trace', "run.end")
  BY <1>1, <1>2, <1>3, <1>4, <1>5, OpenEmit
<1> QED BY <1>2, <1>4, <1>6, <1>1 DEF TraceTypes

\* What follows from a node's end.
LEMMA NodeEnd ==
  ASSUME Control, TraceInv, NEW node \in Nodes, NEW types \in Seq(NodeTypes), End(node, types),
         phase' \in Nodes \cup {"end"}
  PROVE  TraceInv' /\ [Record!Next]_<<trace, result>>
<1>1. /\ phase = node /\ awaiting /\ awaiting' = FALSE /\ Emit(local, types)
      /\ cursor' = Advance(local, types) /\ UNCHANGED <<local, outcome>>
  BY DEF End
<1>2. local = EndOf(trace)
  BY <1>1 DEF TraceInv, Cursors
<1>3. /\ [Record!Next]_<<trace, result>>
      /\ trace' \in Seq(Event) /\ Record!Chained(trace')
      /\ EndOf(trace') = Advance(local, types) /\ Advance(local, types) \in Cursor
      /\ ~Record!EndsIn(trace', "run.failed") /\ ~Record!EndsIn(trace', "run.end")
      /\ directory' = TRUE /\ result' = result /\ result = NoResult
  BY <1>1, <1>2, NodeStep
<1>4. TraceTypes'
  BY <1>1, <1>3 DEF TraceInv, TraceTypes
<1>5. Cursors'
  BY <1>1, <1>3 DEF Cursors
<1>6. Openness'
  BY <1>1, <1>3 DEF Openness, Preparing, Nodes, Ends
<1> QED BY <1>3, <1>4, <1>5, <1>6 DEF TraceInv

\* Every action of the run keeps the invariant and is allowed by RunRecord.
LEMMA StepTrace ==
  Control /\ TraceInv /\ [Next]_vars => TraceInv' /\ [Record!Next]_<<trace, result>>
<1> SUFFICES ASSUME Control, TraceInv, [Next]_vars
             PROVE  TraceInv' /\ [Record!Next]_<<trace, result>>
  OBVIOUS
<1>0. TraceTypes /\ Record!Chained(trace) /\ Cursors /\ Openness
  BY DEF TraceInv
<1>1. CASE Start
  <2>1. /\ phase' = "validate" /\ directory' = TRUE /\ awaiting' = FALSE
        /\ UNCHANGED <<trace, result>> /\ outcome' = NoResult
        /\ cursor' = [index |-> 0, parent |-> NoParent] /\ local' = cursor'
    BY <1>1 DEF Start
  <2>2. trace = <<>> /\ result = NoResult
    BY <1>0, <1>1 DEF Start, Openness, Preparing
  <2>3. cursor' \in Cursor /\ cursor' = EndOf(trace')
    BY <2>1, <2>2 DEF Cursor, Parent, EndOf
  <2>4. TraceTypes'
    BY <1>0, <2>1, <2>3 DEF TraceTypes
  <2>5. Cursors'
    BY <2>1, <2>3 DEF Cursors, Nodes
  <2>6. Openness'
    BY <2>1, <2>2 DEF Openness, Preparing, Nodes
  <2> QED BY <1>0, <2>1, <2>4, <2>5, <2>6 DEF TraceInv
<1>2. CASE \/ ValidateSurfaces \/ PutPlacement \/ ExitStack \/ ClosePlanner \/ WriteTemporary
           \/ UNCHANGED vars
  <2>1. /\ \/ phase = "validate" /\ phase' = "materialize"
           \/ phase = "exit" /\ phase' = "close"
           \/ phase = "close" /\ phase' = "write"
           \/ phase = "write" /\ phase' = "replace"
           \/ phase' = phase
        /\ UNCHANGED <<directory, trace, result, awaiting, cursor, local, outcome>>
    BY <1>2 DEF ValidateSurfaces, PutPlacement, ExitStack, ClosePlanner, WriteTemporary, vars,
                files, graphState
  <2>2. TraceTypes' /\ Record!Chained(trace')
    BY <1>0, <2>1 DEF TraceTypes
  <2>3. Cursors'
    BY <1>0, <2>1 DEF Cursors, Preparing, Nodes
  <2>4. Openness'
    BY <1>0, <2>1 DEF Openness, Preparing, Nodes, Ends
  <2> QED BY <2>1, <2>2, <2>3, <2>4 DEF TraceInv
<1>3. CASE StartGraph
  <2>1. /\ phase = "materialize" /\ phase' = "observe" /\ Emit(cursor, OpeningEvents)
        /\ cursor' = Advance(cursor, OpeningEvents)
        /\ UNCHANGED <<awaiting, local, outcome>>
    BY <1>3 DEF StartGraph
  <2>2. ~awaiting /\ cursor = EndOf(trace)
    BY <1>0, <2>1 DEF Control, Position, Cursors, Preparing
  <2>3. /\ [Record!Next]_<<trace, result>>
        /\ trace' \in Seq(Event) /\ Record!Chained(trace')
        /\ EndOf(trace') = Advance(cursor, OpeningEvents)
        /\ Advance(cursor, OpeningEvents) \in Cursor
        /\ ~Record!EndsIn(trace', "run.failed") /\ ~Record!EndsIn(trace', "run.end")
        /\ directory' = TRUE /\ result' = result /\ result = NoResult
    BY <2>1, <2>2, NodeStep, OpeningProperties
  <2>4. TraceTypes'
    BY <1>0, <2>1, <2>3 DEF TraceTypes
  <2>5. Cursors'
    BY <2>1, <2>2, <2>3 DEF Cursors
  <2>6. Openness'
    BY <2>1, <2>3 DEF Openness, Preparing, Nodes, Ends
  <2> QED BY <2>3, <2>4, <2>5, <2>6 DEF TraceInv
<1>4. ASSUME NEW node \in Nodes, Begin(node)
      PROVE  TraceInv' /\ [Record!Next]_<<trace, result>>
  <2>1. /\ phase = node /\ ~awaiting /\ awaiting' = TRUE /\ Emit(cursor, StartEvents[node])
        /\ local' = Advance(cursor, StartEvents[node])
        /\ UNCHANGED <<phase, outcome, cursor>>
    BY <1>4 DEF Begin, graphState
  <2>2. cursor = EndOf(trace)
    BY <1>0, <2>1 DEF Cursors
  <2>3. /\ [Record!Next]_<<trace, result>>
        /\ trace' \in Seq(Event) /\ Record!Chained(trace')
        /\ EndOf(trace') = Advance(cursor, StartEvents[node])
        /\ Advance(cursor, StartEvents[node]) \in Cursor
        /\ ~Record!EndsIn(trace', "run.failed") /\ ~Record!EndsIn(trace', "run.end")
        /\ directory' = TRUE /\ result' = result /\ result = NoResult
    BY <2>1, <2>2, NodeStep, StartEventsProperties
  <2>4. TraceTypes'
    BY <1>0, <2>1, <2>3 DEF TraceTypes
  <2>5. Cursors'
    BY <2>1, <2>3 DEF Cursors
  <2>6. Openness'
    BY <2>1, <2>3 DEF Openness, Preparing, Nodes, Ends
  <2> QED BY <2>3, <2>4, <2>5, <2>6 DEF TraceInv
<1>5. CASE EndObserve
  BY <1>5, NodeEnd, SingleEvents
     DEF EndObserve, RouteAfterObserve, Nodes, NodeTypes, EventTypes
<1>6. ASSUME NEW decision \in Decisions, EndPlan(decision)
      PROVE  TraceInv' /\ [Record!Next]_<<trace, result>>
  BY <1>6, NodeEnd, PlanEventsProperties DEF EndPlan, RouteAfterPlan, Nodes
<1>7. ASSUME NEW transfers \in 0..MaxTransfers, EndExecute(transfers)
      PROVE  TraceInv' /\ [Record!Next]_<<trace, result>>
  BY <1>7, NodeEnd, ExecuteEventsProperties, TransferAssumption DEF EndExecute, Nodes
<1>8. CASE EndFinalize
  BY <1>8, NodeEnd, SingleEvents DEF EndFinalize, Nodes, NodeTypes, EventTypes
<1>9. CASE EndEvaluate
  BY <1>9, NodeEnd, SingleEvents DEF EndEvaluate, Nodes, NodeTypes, EventTypes
<1>10. CASE EndGraph
  <2> DEFINE record ==
        [completed |-> TRUE, transfers |-> TotalTransfers, decisions |-> Len(decisions)]
  <2>1. /\ phase = "end" /\ phase' = "exit" /\ Emit(cursor, <<"run.end">>)
        /\ outcome' = record /\ UNCHANGED <<awaiting, local, cursor>>
    BY <1>10 DEF EndGraph, graphState
  <2>2. record \in Result /\ record.completed = TRUE
    BY TotalIsNatural DEF Control, ControlTypes, Result
  <2> HIDE DEF record
  <2>3. ~awaiting /\ cursor = EndOf(trace)
    BY <1>0, <2>1 DEF Control, Pace, Cursors
  <2>4. /\ trace' = trace \o NewEvents(EndOf(trace), <<"run.end">>)
        /\ directory' = directory /\ result' = result
    BY <2>1, <2>3 DEF Emit
  <2>5. directory = TRUE /\ result = NoResult /\ ~Ends("run.end") /\ ~Ends("run.failed")
    BY <1>0, <2>1 DEF Openness, TraceTypes, Nodes
  <2>6. <<"run.end">> \in Seq(EventTypes) /\ Len(<<"run.end">>) > 0 /\ Last(<<"run.end">>) = "run.end"
    BY DEF EventTypes, Last
  <2>7. /\ Record!Log /\ trace' \in Seq(Event) /\ Record!Chained(trace')
        /\ trace' # <<>> /\ LastType(trace') = "run.end"
    BY <1>0, <2>4, <2>5, <2>6, EmitLogs
  <2>8. Record!EndsIn(trace', "run.end")
    BY <2>7, EndsInLast
  <2>9. TraceTypes'
    BY <1>0, <2>1, <2>2, <2>4, <2>7 DEF TraceTypes
  <2>10. Cursors'
    BY <2>1 DEF Cursors, Preparing, Nodes
  <2>11. Openness'
    BY <2>1, <2>2, <2>4, <2>5, <2>8 DEF Openness, Preparing, Nodes, Ends
  <2> QED BY <2>7, <2>9, <2>10, <2>11 DEF TraceInv, Record!Next
<1>11. CASE Raise \/ EngineStops
  <2>1. /\ phase \in Nodes \cup {"validate", "materialize", "end", "exit"}
        /\ phase' = "failed" /\ outcome' = NoResult
        /\ UNCHANGED <<directory, result, awaiting, cursor, local>>
        /\ trace' \in StoppedTraces
    BY <1>11 DEF Raise, EngineStops, Failed, graphState, StoppedTraces
  <2>2. directory = TRUE /\ result = NoResult
    BY <1>0, <2>1 DEF Openness, TraceTypes, Nodes
  <2>3. ~Ends("run.failed")
    <3>1. CASE phase \in Nodes \cup {"end"}
      BY <1>0, <3>1 DEF Openness
    <3>2. CASE phase \in {"validate", "materialize"}
      BY <1>0, <3>2 DEF Openness, Preparing, Ends, Record!EndsIn
    <3>3. CASE phase = "exit"
      BY <1>0, <3>3 DEF Openness, Ends, Record!EndsIn
    <3> QED BY <2>1, <3>1, <3>2, <3>3
  <2>4. /\ [Record!Next]_<<trace, result>>
        /\ trace' \in Seq(Event) /\ Record!Chained(trace')
        /\ ~Record!EndsIn(trace', "run.failed")
    <3>1. CASE trace' = trace
      BY <1>0, <2>1, <2>3, <3>1 DEF TraceTypes, Ends
    <3>2. CASE trace' # trace
      <4>1. PICK types \in Seq(OpenTypes) :
              /\ trace' = trace \o NewEvents(EndOf(trace), types)
              /\ phase \in Nodes \cup {"materialize", "end"}
        BY <2>1, <3>2, StoppedIsEmitted
      <4>2. ~Ends("run.end")
        BY <1>0, <4>1 DEF Openness, Preparing, Ends, Record!EndsIn
      <4> QED BY <1>0, <2>1, <2>2, <2>3, <4>1, <4>2, OpenEmit
    <3> QED BY <3>1, <3>2
  <2>5. TraceTypes'
    BY <1>0, <2>1, <2>4 DEF TraceTypes
  <2>6. Cursors'
    BY <2>1 DEF Cursors, Preparing, Nodes
  <2>7. Openness'
    BY <2>1, <2>2, <2>4 DEF Openness, Preparing, Nodes, Ends
  <2> QED BY <2>4, <2>5, <2>6, <2>7 DEF TraceInv
<1>12. CASE HandleFailure
  <2> DEFINE record == [completed |-> FALSE, transfers |-> 0, decisions |-> 0]
  <2>1. /\ phase = "failed" /\ phase' = "close"
        /\ trace' = trace \o NewEvents(EndOf(trace), <<"run.failed">>)
        /\ outcome' = record /\ UNCHANGED <<directory, result, awaiting, local, cursor>>
    BY <1>12 DEF HandleFailure, Emit, FailureCursor, graphState
  <2>2. record \in Result /\ record.completed = FALSE
    BY DEF Result
  <2> HIDE DEF record
  <2>3. directory = TRUE /\ result = NoResult /\ ~Ends("run.failed")
    BY <1>0, <2>1 DEF Openness, TraceTypes, Nodes
  <2>4. /\ <<"run.failed">> \in Seq(EventTypes) /\ Len(<<"run.failed">>) > 0
        /\ Last(<<"run.failed">>) = "run.failed"
    BY DEF EventTypes, Last
  <2>5. /\ Record!Log /\ trace' \in Seq(Event) /\ Record!Chained(trace')
        /\ trace' # <<>> /\ LastType(trace') = "run.failed"
    BY <1>0, <2>1, <2>3, <2>4, EmitLogs
  <2>6. Record!EndsIn(trace', "run.failed")
    BY <2>5, EndsInLast
  <2>7. TraceTypes'
    BY <1>0, <2>1, <2>2, <2>5 DEF TraceTypes
  <2>8. Cursors'
    BY <2>1 DEF Cursors, Preparing, Nodes
  <2>9. Openness'
    BY <2>1, <2>2, <2>3, <2>6 DEF Openness, Preparing, Nodes, Ends
  <2> QED BY <2>5, <2>7, <2>8, <2>9 DEF TraceInv, Record!Next
<1>13. CASE ReplaceResult
  <2>1. /\ phase = "replace" /\ phase' = "done" /\ result' = outcome
        /\ UNCHANGED <<directory, trace, awaiting, local, outcome, cursor>>
    BY <1>13 DEF ReplaceResult, graphState
  <2>2. /\ directory = TRUE /\ result = NoResult /\ outcome \in Result
        /\ Ends(IF outcome.completed THEN "run.end" ELSE "run.failed")
    BY <1>0, <2>1 DEF Openness, TraceTypes, Nodes
  <2>3. Record!Publish
    BY <2>1, <2>2, NoResultIsNoRecord DEF Record!Publish, Ends
  <2>4. TraceTypes' /\ Record!Chained(trace')
    BY <1>0, <2>1, <2>2 DEF TraceTypes
  <2>5. Cursors'
    BY <2>1 DEF Cursors, Preparing, Nodes
  <2>6. Openness'
    BY <2>1, <2>2 DEF Openness, Preparing, Nodes
  <2> QED BY <2>3, <2>4, <2>5, <2>6 DEF TraceInv, Record!Next
<1>14. CASE Abort
  <2>1. /\ phase \notin {"idle", "done", "aborted"} /\ phase' = "aborted"
        /\ UNCHANGED <<directory, result, awaiting, local, outcome, cursor>>
        /\ trace' \in StoppedTraces
    BY <1>14 DEF Abort, graphState
  <2>2. directory = TRUE /\ result = NoResult
    BY <1>0, <2>1 DEF Openness, TraceTypes
  <2>3. /\ [Record!Next]_<<trace, result>>
        /\ trace' \in Seq(Event) /\ Record!Chained(trace')
    <3>1. CASE trace' = trace
      BY <1>0, <2>1, <3>1 DEF TraceTypes
    <3>2. CASE trace' # trace
      <4>1. PICK types \in Seq(OpenTypes) :
              /\ trace' = trace \o NewEvents(EndOf(trace), types)
              /\ phase \in Nodes \cup {"materialize", "end"}
        BY <2>1, <3>2, StoppedIsEmitted
      <4>2. ~Ends("run.end") /\ ~Ends("run.failed")
        BY <1>0, <4>1 DEF Openness, Preparing, Ends, Record!EndsIn
      <4> QED BY <1>0, <2>1, <2>2, <4>1, <4>2, OpenEmit
    <3> QED BY <3>1, <3>2
  <2>4. TraceTypes'
    BY <1>0, <2>1, <2>3 DEF TraceTypes
  <2>5. Cursors'
    BY <2>1 DEF Cursors, Preparing, Nodes
  <2>6. Openness'
    BY <2>1, <2>2 DEF Openness, Preparing, Nodes
  <2> QED BY <2>3, <2>4, <2>5, <2>6 DEF TraceInv
<1> QED BY <1>1, <1>2, <1>3, <1>4, <1>5, <1>6, <1>7, <1>8, <1>9, <1>10, <1>11, <1>12, <1>13, <1>14
        DEF Next, Progress

\* The inductive invariant of a run: its control and its files.
THEOREM TraceInvariance == Spec => [](Control /\ TraceInv)
<1>1. Init => Control /\ TraceInv
  BY InitControl, InitTrace
<1>2. Control /\ TraceInv /\ [Next]_vars => (Control /\ TraceInv)'
  BY StepControl, StepTrace
<1> QED BY <1>1, <1>2, PTL DEF Spec

-----------------------------------------------------------------------------
\* Types and ranges of the run's state (graph.py:51-64, runner.py:44-58).
THEOREM TypeCorrect == Spec => []TypeOK
<1>1. Control /\ TraceInv => TypeOK
  BY DEF Control, ControlTypes, TraceInv, TraceTypes, TypeOK, Observation
<1> QED BY <1>1, TraceInvariance, PTL

\* The trace file is one parent chain numbered from 0, whatever failed and
\* whenever (graph.py:385-405, runner.py:242-247).
THEOREM TraceChained == Spec => []TraceIsChained
<1>1. Control /\ TraceInv => TraceIsChained
  BY DEF TraceInv, TraceIsChained
<1> QED BY <1>1, TraceInvariance, PTL

\* Trace and result of a run keep the promise of RunRecord (runner.py:149-167,
\* 235-269).
THEOREM Implements == Spec => ImplementsRunRecord
<1>1. Init => Record!Init
  BY InitTrace
<1>2. Control /\ TraceInv /\ [Next]_vars => [Record!Next]_<<trace, result>>
  BY StepTrace
<1> QED BY <1>1, <1>2, TraceInvariance, PTL DEF Spec, ImplementsRunRecord, Record!Spec

-----------------------------------------------------------------------------
\* The positions of the events of some types in a file, and of some types in a
\* list of types.
EventsOf(t, S) == {i \in 1..Len(t) : t[i].type \in S}
Positions(types, S) == {k \in 1..Len(types) : types[k] \in S}

\* How many the first n positions are.
LEMMA CountTo ==
  ASSUME NEW n \in Nat
  PROVE  IsFiniteSet(1..n) /\ Cardinality(1..n) = n
<1>1. IsFiniteSet(1..n) /\ Cardinality(1..n) = IF 1 > n THEN 0 ELSE n - 1 + 1
  BY FS_Interval
<1> QED BY <1>1

\* C is A, of the first m positions, and B, of n positions, put behind them.
Joined(C, A, m, B, n) ==
  /\ m \in Nat /\ n \in Nat
  /\ A \subseteq 1..m /\ B \subseteq 1..n
  /\ \A i : i \in C <=> i \in A \/ \E k \in B : i = m + k

LEMMA JoinedCounts ==
  ASSUME NEW m, NEW n, NEW A, NEW B, NEW C, Joined(C, A, m, B, n)
  PROVE  /\ IsFiniteSet(A) /\ IsFiniteSet(B) /\ IsFiniteSet(C)
         /\ Cardinality(A) \in Nat /\ Cardinality(B) \in Nat
         /\ Cardinality(C) = Cardinality(A) + Cardinality(B)
<1> DEFINE D == {m + k : k \in B}
           f == [k \in B |-> m + k]
<1>0. /\ m \in Nat /\ n \in Nat /\ A \subseteq 1..m /\ B \subseteq 1..n
      /\ \A i : i \in C <=> i \in A \/ \E k \in B : i = m + k
  BY DEF Joined
<1>1. IsFiniteSet(A) /\ IsFiniteSet(B)
  <2>1. IsFiniteSet(1..m) /\ IsFiniteSet(1..n)
    BY <1>0, FS_Interval
  <2> QED BY <1>0, <2>1, FS_Subset
<1>2. IsFiniteSet(D) /\ Cardinality(D) = Cardinality(B)
  <2>1. f \in Bijection(B, D)
    <3>1. f \in [B -> D]
      OBVIOUS
    <3>2. \A j, k \in B : f[j] = f[k] => j = k
      BY <1>0
    <3>3. \A d \in D : \E k \in B : f[k] = d
      OBVIOUS
    <3> QED BY <3>1, <3>2, <3>3, Zenon DEF Bijection, Injection, Surjection, IsInjective
  <2>2. ExistsBijection(B, D)
    BY <2>1, Zenon DEF ExistsBijection
  <2> QED BY <1>1, <2>2, FS_Bijection
<1>3. A \cap D = {}
  BY <1>0
<1> HIDE DEF D
<1>4. Cardinality(A \cup D) = Cardinality(A) + Cardinality(D) /\ IsFiniteSet(A \cup D)
  <2>1. Cardinality(A \cap D) = 0
    BY <1>3, FS_EmptySet
  <2>2. Cardinality(A) \in Nat /\ Cardinality(D) \in Nat
    BY <1>1, <1>2, FS_CardinalityType
  <2>3. /\ IsFiniteSet(A \cup D)
        /\ Cardinality(A \cup D) = Cardinality(A) + Cardinality(D) - Cardinality(A \cap D)
    BY <1>1, <1>2, FS_Union, Zenon
  <2> QED BY <2>1, <2>2, <2>3
<1>5. C = A \cup D
  BY <1>0 DEF D
<1> QED BY <1>1, <1>2, <1>4, <1>5, FS_CardinalityType

\* What appending events adds to a count.
LEMMA EmitCounts ==
  ASSUME NEW t \in Seq(Event), NEW c \in Cursor, NEW types \in Seq(EventTypes), NEW S,
         NEW u, u = t \o NewEvents(c, types)
  PROVE  /\ Cardinality(EventsOf(t, S)) \in Nat
         /\ Cardinality(Positions(types, S)) \in Nat
         /\ Cardinality(EventsOf(u, S)) = Cardinality(EventsOf(t, S)) + Cardinality(Positions(types, S))
<1> DEFINE new == NewEvents(c, types)
<1>1. new \in Seq(Event) /\ Len(new) = Len(types)
  BY NewEventsProperties
<1>2. \A k \in 1..Len(types) : new[k].type = types[k]
  BY DEF NewEvents
<1>3. u = t \o new
  OBVIOUS
<1> HIDE DEF new
<1>4. /\ Len(u) = Len(t) + Len(types)
      /\ \A i \in 1..(Len(t) + Len(types)) : u[i] = IF i <= Len(t) THEN t[i] ELSE new[i - Len(t)]
  <2>1. /\ Len(t \o new) = Len(t) + Len(new)
        /\ \A i \in 1..(Len(t) + Len(new)) :
             (t \o new)[i] = IF i <= Len(t) THEN t[i] ELSE new[i - Len(t)]
    BY <1>1, ConcatProperties
  <2> QED BY <1>1, <1>3, <2>1
<1>5. Len(t) \in Nat /\ Len(types) \in Nat
  BY LenProperties
<1>6. \A i : i \in EventsOf(u, S) <=>
              i \in EventsOf(t, S) \/ \E k \in Positions(types, S) : i = Len(t) + k
  <2>1. ASSUME NEW i \in EventsOf(u, S), i > Len(t)
        PROVE  \E k \in Positions(types, S) : i = Len(t) + k
    <3>1. i \in 1..(Len(t) + Len(types)) /\ u[i].type \in S
      BY <1>4 DEF EventsOf
    <3>2. i - Len(t) \in 1..Len(types) /\ u[i] = new[i - Len(t)] /\ Len(t) + (i - Len(t)) = i
      BY <1>4, <1>5, <2>1, <3>1
    <3>3. i - Len(t) \in Positions(types, S)
      BY <1>2, <3>1, <3>2 DEF Positions
    <3> QED BY <3>2, <3>3
  <2>2. ASSUME NEW i \in EventsOf(u, S), i <= Len(t)
        PROVE  i \in EventsOf(t, S)
    <3>1. i \in 1..(Len(t) + Len(types)) /\ u[i].type \in S
      BY <1>4 DEF EventsOf
    <3>2. i \in 1..Len(t) /\ u[i] = t[i]
      BY <1>4, <1>5, <2>2, <3>1
    <3> QED BY <3>1, <3>2 DEF EventsOf
  <2>3. ASSUME NEW i \in EventsOf(t, S)
        PROVE  i \in EventsOf(u, S)
    BY <1>4, <1>5 DEF EventsOf
  <2>4. ASSUME NEW k \in Positions(types, S)
        PROVE  Len(t) + k \in EventsOf(u, S)
    <3>1. k \in 1..Len(types) /\ types[k] \in S
      BY DEF Positions
    <3>2. /\ Len(t) + k \in 1..(Len(t) + Len(types)) /\ ~(Len(t) + k <= Len(t))
          /\ (Len(t) + k) - Len(t) = k
      BY <1>5, <3>1
    <3>3. u[Len(t) + k] = new[k]
      BY <1>4, <3>2
    <3> QED BY <1>2, <1>4, <3>1, <3>2, <3>3 DEF EventsOf
  <2>5. \A i \in EventsOf(u, S) : i > Len(t) \/ i <= Len(t)
    BY <1>4, <1>5 DEF EventsOf
  <2> QED BY <2>1, <2>2, <2>3, <2>4, <2>5
<1>7. EventsOf(t, S) \in SUBSET (1..Len(t)) /\ Positions(types, S) \in SUBSET (1..Len(types))
  BY DEF EventsOf, Positions
<1>8. Joined(EventsOf(u, S), EventsOf(t, S), Len(t), Positions(types, S), Len(types))
  BY <1>5, <1>6, <1>7 DEF Joined
<1> QED BY <1>8, JoinedCounts

\* What putting two lists of types together adds to a count.
LEMMA ConcatCounts ==
  ASSUME NEW a \in Seq(EventTypes), NEW b \in Seq(EventTypes), NEW S
  PROVE  Cardinality(Positions(a \o b, S)) = Cardinality(Positions(a, S)) + Cardinality(Positions(b, S))
<1>1. Len(a) \in Nat /\ Len(b) \in Nat
  BY LenProperties
<1>2. /\ Len(a \o b) = Len(a) + Len(b)
      /\ \A i \in 1..(Len(a) + Len(b)) : (a \o b)[i] = IF i <= Len(a) THEN a[i] ELSE b[i - Len(a)]
  BY ConcatProperties
<1>3. \A i : i \in Positions(a \o b, S) <=>
              i \in Positions(a, S) \/ \E k \in Positions(b, S) : i = Len(a) + k
  <2>1. ASSUME NEW i \in Positions(a \o b, S), i > Len(a)
        PROVE  \E k \in Positions(b, S) : i = Len(a) + k
    <3>1. i \in 1..(Len(a) + Len(b)) /\ (a \o b)[i] \in S
      BY <1>2 DEF Positions
    <3>2. i - Len(a) \in 1..Len(b) /\ (a \o b)[i] = b[i - Len(a)] /\ Len(a) + (i - Len(a)) = i
      BY <1>1, <1>2, <2>1, <3>1
    <3> QED BY <3>1, <3>2 DEF Positions
  <2>2. ASSUME NEW i \in Positions(a \o b, S), i <= Len(a)
        PROVE  i \in Positions(a, S)
    BY <1>1, <1>2, <2>2 DEF Positions
  <2>3. ASSUME NEW i \in Positions(a, S)
        PROVE  i \in Positions(a \o b, S)
    BY <1>1, <1>2 DEF Positions
  <2>4. ASSUME NEW k \in Positions(b, S)
        PROVE  Len(a) + k \in Positions(a \o b, S)
    <3>1. k \in 1..Len(b) /\ b[k] \in S
      BY DEF Positions
    <3>2. /\ Len(a) + k \in 1..(Len(a) + Len(b)) /\ ~(Len(a) + k <= Len(a))
          /\ (Len(a) + k) - Len(a) = k
      BY <1>1, <3>1
    <3> QED BY <1>2, <3>1, <3>2 DEF Positions
  <2>5. \A i \in Positions(a \o b, S) : i > Len(a) \/ i <= Len(a)
    BY <1>1, <1>2 DEF Positions
  <2> QED BY <2>1, <2>2, <2>3, <2>4, <2>5
<1>4. Positions(a, S) \in SUBSET (1..Len(a)) /\ Positions(b, S) \in SUBSET (1..Len(b))
  BY DEF Positions
<1>8. Joined(Positions(a \o b, S), Positions(a, S), Len(a), Positions(b, S), Len(b))
  BY <1>1, <1>3, <1>4 DEF Joined
<1> QED BY <1>8, JoinedCounts

\* One event type, and one type several times.
LEMMA RepeatCounts ==
  ASSUME NEW type, NEW n \in Nat, NEW S
  PROVE  Cardinality(Positions(Repeat(type, n), S)) = IF type \in S THEN n ELSE 0
<1>1. CASE type \in S
  <2>1. Positions(Repeat(type, n), S) = 1..n
    BY <1>1 DEF Positions, Repeat
  <2> QED BY <1>1, <2>1, FS_Interval
<1>2. CASE type \notin S
  <2>1. Positions(Repeat(type, n), S) = {}
    BY <1>2 DEF Positions, Repeat
  <2> QED BY <1>2, <2>1, FS_EmptySet
<1> QED BY <1>1, <1>2

LEMMA SingleCounts ==
  ASSUME NEW type, NEW S
  PROVE  Cardinality(Positions(<<type>>, S)) = IF type \in S THEN 1 ELSE 0
<1>1. CASE type \in S
  <2>1. Positions(<<type>>, S) = {1}
    BY <1>1 DEF Positions
  <2> QED BY <1>1, <2>1, FS_Singleton
<1>2. CASE type \notin S
  <2>1. Positions(<<type>>, S) = {}
    BY <1>2 DEF Positions
  <2> QED BY <1>2, <2>1, FS_EmptySet
<1> QED BY <1>1, <1>2

-----------------------------------------------------------------------------
Moved == {"artifact.materialize.end", "artifact.transfer.end"}

\* What the trace counts so far: a plan, or an execution, that was started counts
\* for one more start than end.
Tallies ==
  /\ Count(Moved) = placed + Cardinality(Pulls)
  /\ Count({"planner.end"}) = Len(decisions)
  /\ Count({"planner.start"}) = Len(decisions) + (IF phase = "plan" /\ awaiting THEN 1 ELSE 0)
  /\ Count({"operator.end"}) = Len(observations)
  /\ Count({"operator.start"}) = Len(observations) + (IF phase = "execute" /\ awaiting THEN 1 ELSE 0)

\* What a completed result tells of the trace.
Tells(record) ==
  /\ record.transfers = Count(Moved)
  /\ record.decisions = Count({"planner.end"})
  /\ Count({"planner.start"}) = Count({"planner.end"})
  /\ Count({"operator.start"}) = Count({"operator.end"})

\* An exception after the graph returned drops the outcome, and the trace is not
\* written after the result.
CountInv ==
  /\ phase \in Nodes \cup {"end"} => Tallies
  /\ phase \in {"exit", "close", "write", "replace"} => (outcome.completed => Tells(outcome))
  /\ result # NoResult => (result.completed => Tells(result))

-----------------------------------------------------------------------------
PullsOf(list) == UNION {{k} \X (1..list[k].transfers) : k \in 1..Len(list)}

\* An execution adds its transfers to those of the executions before it.
LEMMA PullsGrow ==
  ASSUME NEW list \in Seq(Observation), NEW o \in Observation
  PROVE  /\ Cardinality(PullsOf(list)) \in Nat
         /\ Cardinality(PullsOf(Append(list, o))) = Cardinality(PullsOf(list)) + o.transfers
<1> USE TransferAssumption
<1> DEFINE n == Len(list)
           new == {n + 1} \X (1..o.transfers)
<1>1. n \in Nat /\ o.transfers \in Nat /\ o.transfers \in 0..MaxTransfers
  BY DEF Observation
<1>2. \A k \in 1..n : list[k].transfers \in 0..MaxTransfers
  <2>1. \A k \in 1..n : list[k] \in Observation
    OBVIOUS
  <2> QED BY <2>1 DEF Observation
<1>3. /\ Len(Append(list, o)) = n + 1
      /\ \A k \in 1..n : Append(list, o)[k] = list[k]
      /\ Append(list, o)[n + 1] = o
  BY AppendFacts
<1> HIDE DEF n
<1>4. \A p : p \in PullsOf(list) <=> \E k \in 1..n : p \in {k} \X (1..list[k].transfers)
  BY DEF PullsOf, n
<1>5. \A p : p \in PullsOf(Append(list, o)) <=>
              \E k \in 1..(n + 1) : p \in {k} \X (1..Append(list, o)[k].transfers)
  BY <1>3 DEF PullsOf
<1>6. PullsOf(Append(list, o)) = PullsOf(list) \cup new
  <2>1. ASSUME NEW p \in PullsOf(Append(list, o))
        PROVE  p \in PullsOf(list) \cup new
    <3>1. PICK k \in 1..(n + 1) : p \in {k} \X (1..Append(list, o)[k].transfers)
      BY <1>5
    <3>2. CASE k = n + 1
      BY <1>3, <3>1, <3>2
    <3>3. CASE k # n + 1
      <4>1. k \in 1..n
        BY <1>1, <3>3
      <4> QED BY <1>3, <1>4, <3>1, <4>1
    <3> QED BY <3>2, <3>3
  <2>2. ASSUME NEW p \in PullsOf(list)
        PROVE  p \in PullsOf(Append(list, o))
    <3>1. PICK k \in 1..n : p \in {k} \X (1..list[k].transfers)
      BY <1>4
    <3>2. k \in 1..(n + 1)
      BY <1>1
    <3> QED BY <1>3, <1>5, <3>1, <3>2
  <2>3. ASSUME NEW p \in new
        PROVE  p \in PullsOf(Append(list, o))
    <3>1. n + 1 \in 1..(n + 1) /\ p \in {n + 1} \X (1..Append(list, o)[n + 1].transfers)
      BY <1>1, <1>3, <2>3
    <3> QED BY <1>5, <3>1
  <2> QED BY <2>1, <2>2, <2>3
<1>7. PullsOf(list) \in SUBSET ((1..n) \X (1..MaxTransfers))
  <2> SUFFICES ASSUME NEW p \in PullsOf(list)
               PROVE  p \in (1..n) \X (1..MaxTransfers)
    OBVIOUS
  <2>1. PICK k \in 1..n : p \in {k} \X (1..list[k].transfers)
    BY <1>4
  <2>2. list[k].transfers \in 0..MaxTransfers
    BY <1>2
  <2> QED BY <1>1, <2>1, <2>2
<1>8. IsFiniteSet(PullsOf(list)) /\ Cardinality(PullsOf(list)) \in Nat
  <2>1. IsFiniteSet(1..n) /\ IsFiniteSet(1..MaxTransfers)
    BY <1>1, FS_Interval
  <2>2. IsFiniteSet((1..n) \X (1..MaxTransfers))
    BY <2>1, FS_Product
  <2> QED BY <1>7, <2>2, FS_Subset, FS_CardinalityType
<1>9. IsFiniteSet(new) /\ Cardinality(new) = o.transfers
  <2>1. /\ IsFiniteSet({n + 1}) /\ Cardinality({n + 1}) = 1
        /\ IsFiniteSet(1..o.transfers) /\ Cardinality(1..o.transfers) = o.transfers
    BY <1>1, CountTo, FS_Singleton
  <2>2. /\ IsFiniteSet(new)
        /\ Cardinality(new) = Cardinality({n + 1}) * Cardinality(1..o.transfers)
    BY <2>1, FS_Product, Zenon
  <2> QED BY <1>1, <2>1, <2>2
<1>10. PullsOf(list) \cap new = {}
  <2> SUFFICES ASSUME NEW p \in PullsOf(list), p \in new PROVE FALSE
    OBVIOUS
  <2>1. p[1] \in 1..n /\ p[1] = n + 1
    BY <1>7
  <2> QED BY <1>1, <2>1
<1> HIDE DEF new
<1>11. /\ Cardinality(PullsOf(list) \cup new)
             = Cardinality(PullsOf(list)) + Cardinality(new) - Cardinality(PullsOf(list) \cap new)
       /\ Cardinality(PullsOf(list) \cap new) = 0
  BY <1>8, <1>9, <1>10, FS_Union, FS_EmptySet, Zenon
<1> QED BY <1>1, <1>6, <1>8, <1>9, <1>11

-----------------------------------------------------------------------------
\* The kinds of events a result or an audit counts.
Kinds == {Moved, {"planner.end"}, {"planner.start"}, {"operator.end"}, {"operator.start"}}

\* What an append at the end of the trace, or no append, does to the counts.
LEMMA CountSteps ==
  ASSUME trace \in Seq(Event), NEW from \in Cursor, NEW types \in Seq(EventTypes),
         trace' = trace \o NewEvents(from, types)
  PROVE  \A S \in Kinds : /\ Count(S) \in Nat
                          /\ Count(S)' = Count(S) + Cardinality(Positions(types, S))
<1> SUFFICES ASSUME NEW S \in Kinds
             PROVE  /\ Count(S) \in Nat
                    /\ Count(S)' = Count(S) + Cardinality(Positions(types, S))
  OBVIOUS
<1>1. Count(S) = Cardinality(EventsOf(trace, S))
  BY DEF Count, EventsOf
<1>2. Count(S)' = Cardinality(EventsOf(trace', S))
  BY DEF Count, EventsOf
<1>3. /\ Cardinality(EventsOf(trace, S)) \in Nat
      /\ Cardinality(EventsOf(trace', S))
           = Cardinality(EventsOf(trace, S)) + Cardinality(Positions(types, S))
  BY EmitCounts, Zenon
<1> QED BY <1>1, <1>2, <1>3

\* What the events of each node count for.
LEMMA OpeningCounts ==
  /\ Cardinality(Positions(OpeningEvents, Moved)) = Placements
  /\ \A S \in Kinds \ {Moved} : Cardinality(Positions(OpeningEvents, S)) = 0
<1> DEFINE first == <<"task.start">>
           rest == Repeat("artifact.materialize.end", Placements)
<1>1. first \in Seq(EventTypes) /\ rest \in Seq(EventTypes)
  <2>1. "task.start" \in EventTypes /\ "artifact.materialize.end" \in EventTypes
    BY DEF EventTypes
  <2> QED BY <2>1, RepeatProperties, TransferAssumption
<1>2. \A S : Cardinality(Positions(OpeningEvents, S)) =
             (IF "task.start" \in S THEN 1 ELSE 0)
               + (IF "artifact.materialize.end" \in S THEN Placements ELSE 0)
  <2>1. \A S : Cardinality(Positions(first, S)) = IF "task.start" \in S THEN 1 ELSE 0
    BY SingleCounts
  <2>2. \A S : Cardinality(Positions(rest, S)) =
                 IF "artifact.materialize.end" \in S THEN Placements ELSE 0
    BY RepeatCounts, TransferAssumption
  <2>3. OpeningEvents = first \o rest
    BY DEF OpeningEvents
  <2> HIDE DEF first, rest
  <2> QED BY <1>1, <2>1, <2>2, <2>3, ConcatCounts
<1> QED BY <1>2, TransferAssumption DEF Kinds, Moved

LEMMA PlanCounts ==
  ASSUME NEW decision
  PROVE  /\ Cardinality(Positions(PlanEvents(decision), {"planner.end"})) = 1
         /\ \A S \in Kinds \ {{"planner.end"}} : Cardinality(Positions(PlanEvents(decision), S)) = 0
<1> DEFINE proposed == IF decision = Finish THEN "finish.proposed" ELSE "joint_action.proposed"
<1>1. proposed \in {"finish.proposed", "joint_action.proposed"}
  OBVIOUS
<1>2. PlanEvents(decision) = <<"planner.end", proposed>>
  BY DEF PlanEvents
<1> HIDE DEF proposed
<1>3. Positions(PlanEvents(decision), {"planner.end"}) = {1}
  BY <1>1, <1>2 DEF Positions
<1>4. \A S \in Kinds \ {{"planner.end"}} : Positions(PlanEvents(decision), S) = {}
  BY <1>1, <1>2 DEF Positions, Kinds, Moved
<1> QED BY <1>3, <1>4, FS_Singleton, FS_EmptySet

LEMMA ExecuteCounts ==
  ASSUME NEW transfers \in Nat
  PROVE  /\ Cardinality(Positions(ExecuteEvents(transfers), Moved)) = transfers
         /\ Cardinality(Positions(ExecuteEvents(transfers), {"operator.end"})) = 1
         /\ \A S \in Kinds \ {Moved, {"operator.end"}} :
              Cardinality(Positions(ExecuteEvents(transfers), S)) = 0
<1> DEFINE first == Repeat("artifact.transfer.end", transfers)
           rest == <<"operator.end">>
<1>1. first \in Seq(EventTypes) /\ rest \in Seq(EventTypes)
  <2>1. "operator.end" \in EventTypes /\ "artifact.transfer.end" \in EventTypes
    BY DEF EventTypes
  <2> QED BY <2>1, RepeatProperties
<1>2. \A S : Cardinality(Positions(ExecuteEvents(transfers), S)) =
             (IF "artifact.transfer.end" \in S THEN transfers ELSE 0)
               + (IF "operator.end" \in S THEN 1 ELSE 0)
  <2>1. \A S : Cardinality(Positions(first, S)) =
                 IF "artifact.transfer.end" \in S THEN transfers ELSE 0
    BY RepeatCounts
  <2>2. \A S : Cardinality(Positions(rest, S)) = IF "operator.end" \in S THEN 1 ELSE 0
    BY SingleCounts
  <2>3. ExecuteEvents(transfers) = first \o rest
    BY DEF ExecuteEvents
  <2> HIDE DEF first, rest
  <2> QED BY <1>1, <2>1, <2>2, <2>3, ConcatCounts
<1> QED BY <1>2 DEF Kinds, Moved

LEMMA StartCounts ==
  ASSUME NEW node \in Nodes
  PROVE  /\ Cardinality(Positions(StartEvents[node], {"planner.start"})) = IF node = "plan" THEN 1 ELSE 0
         /\ Cardinality(Positions(StartEvents[node], {"operator.start"})) =
              IF node = "execute" THEN 1 ELSE 0
         /\ \A S \in Kinds \ {{"planner.start"}, {"operator.start"}} :
              Cardinality(Positions(StartEvents[node], S)) = 0
<1>1. /\ StartEvents["observe"] = <<>> /\ StartEvents["evaluate"] = <<>>
      /\ StartEvents["plan"] = <<"planner.start">>
      /\ StartEvents["execute"] = <<"operator.start">>
      /\ StartEvents["finalize"] = <<"finalize.start">>
  BY DEF StartEvents
<1>2. \A S : Cardinality(Positions(<<>>, S)) = 0
  <2>1. \A S : Positions(<<>>, S) = {}
    BY DEF Positions
  <2> QED BY <2>1, FS_EmptySet
<1>3. \A S \in Kinds : Cardinality(Positions(StartEvents[node], S)) =
        CASE node = "plan" -> (IF "planner.start" \in S THEN 1 ELSE 0)
          [] node = "execute" -> (IF "operator.start" \in S THEN 1 ELSE 0)
          [] OTHER -> 0
  <2>1. \A S \in Kinds : "finalize.start" \notin S
    BY DEF Kinds, Moved
  <2>2. \A S : /\ Cardinality(Positions(<<"planner.start">>, S)) = IF "planner.start" \in S THEN 1 ELSE 0
               /\ Cardinality(Positions(<<"operator.start">>, S)) = IF "operator.start" \in S THEN 1 ELSE 0
               /\ Cardinality(Positions(<<"finalize.start">>, S)) = IF "finalize.start" \in S THEN 1 ELSE 0
    BY SingleCounts
  <2>3. CASE node \in {"observe", "evaluate"}
    BY <1>1, <1>2, <2>3
  <2>4. CASE node = "plan"
    BY <1>1, <2>2, <2>4
  <2>5. CASE node = "execute"
    BY <1>1, <2>2, <2>5
  <2>6. CASE node = "finalize"
    BY <1>1, <2>1, <2>2, <2>6
  <2> QED BY <2>3, <2>4, <2>5, <2>6 DEF Nodes
<1>4. /\ \A S \in Kinds : "planner.start" \in S <=> S = {"planner.start"}
      /\ \A S \in Kinds : "operator.start" \in S <=> S = {"operator.start"}
      /\ {"planner.start"} \in Kinds /\ {"operator.start"} \in Kinds
      /\ {"planner.start"} # {"operator.start"}
  BY DEF Kinds, Moved
<1> QED BY <1>3, <1>4

\* The events that close a node, or the run, and count for nothing.
LEMMA OtherCounts ==
  \A type \in {"infra.snapshot", "finalize.end", "evaluation.result", "run.end"}, S \in Kinds :
    Cardinality(Positions(<<type>>, S)) = 0
<1>1. \A type \in {"infra.snapshot", "finalize.end", "evaluation.result", "run.end"}, S \in Kinds :
        type \notin S
  BY DEF Kinds, Moved
<1> QED BY <1>1, SingleCounts

\* Values that the counts depend on, when they do not change.
LEMMA CountsUnchanged ==
  ASSUME UNCHANGED <<trace, observations>>
  PROVE  /\ \A S \in Kinds : Count(S)' = Count(S)
         /\ Cardinality(Pulls)' = Cardinality(Pulls)
BY DEF Count, Pulls

\* An empty run directory tells nothing.
LEMMA InitCounts == Init => CountInv
BY DEF Init, CountInv, Nodes

\* Every action keeps the tallies: an event is written exactly when what it
\* stands for enters the graph's state.
LEMMA StepCounts == Control /\ TraceInv /\ CountInv /\ [Next]_vars => CountInv'
<1> SUFFICES ASSUME Control, TraceInv, CountInv, [Next]_vars PROVE CountInv'
  OBVIOUS
<1>0. /\ TraceTypes /\ Cursors /\ Openness /\ ControlTypes /\ Position
      /\ trace \in Seq(Event) /\ cursor \in Cursor /\ local \in Cursor
      /\ Len(decisions) \in Nat /\ Len(observations) \in Nat /\ placed \in Nat
  BY TransferAssumption DEF TraceInv, TraceTypes, Control, ControlTypes
<1>1. /\ Moved \in Kinds /\ {"planner.end"} \in Kinds /\ {"planner.start"} \in Kinds
      /\ {"operator.end"} \in Kinds /\ {"operator.start"} \in Kinds
  BY DEF Kinds
<1>2. /\ Moved # {"planner.end"} /\ Moved # {"planner.start"} /\ Moved # {"operator.end"}
      /\ Moved # {"operator.start"} /\ {"planner.end"} # {"planner.start"}
      /\ {"planner.end"} # {"operator.end"} /\ {"planner.end"} # {"operator.start"}
      /\ {"planner.start"} # {"operator.end"} /\ {"planner.start"} # {"operator.start"}
      /\ {"operator.end"} # {"operator.start"}
  BY DEF Moved
<1>3. Cardinality(Pulls) \in Nat
  <2>1. TotalTransfers \in Nat /\ TotalTransfers = placed + Cardinality(Pulls)
    BY <1>0, TotalIsNatural DEF TotalTransfers
  <2>2. Cardinality(PullsOf(observations)) \in Nat /\ Pulls = PullsOf(observations)
    <3>1. Observation # {} => Cardinality(PullsOf(observations)) \in Nat
      BY <1>0, PullsGrow DEF ControlTypes
    <3>2. Observation = {} => Cardinality(PullsOf(observations)) \in Nat
      <4>1. Observation = {} => PullsOf(observations) = {}
        BY <1>0 DEF ControlTypes, PullsOf
      <4> QED BY <4>1, FS_EmptySet
    <3> QED BY <3>1, <3>2 DEF Pulls, PullsOf
  <2> QED BY <2>2
<1> DEFINE Emitted(from, types) == trace' = trace \o NewEvents(from, types)
<1>4. CASE Start
  <2>1. phase' = "validate" /\ UNCHANGED <<trace, result>> /\ result = NoResult
    BY <1>0, <1>4 DEF Start, Openness
  <2> QED BY <2>1 DEF CountInv, Nodes
<1>5. CASE ValidateSurfaces \/ PutPlacement
  <2>1. phase' = "materialize" /\ UNCHANGED <<trace, result>> /\ result = NoResult
    BY <1>0, <1>5 DEF ValidateSurfaces, PutPlacement, files, Openness
  <2> QED BY <2>1 DEF CountInv, Nodes
<1>6. CASE StartGraph
  <2>1. /\ phase' = "observe" /\ Emitted(cursor, OpeningEvents)
        /\ UNCHANGED <<result, placed, decisions, observations>>
        /\ placed = Placements /\ result = NoResult /\ trace = <<>>
        /\ decisions = <<>> /\ observations = <<>>
    BY <1>0, <1>6 DEF StartGraph, Emit, Openness, Position, Preparing
  <2>2. \A S : Count(S) = 0
    <3>1. \A S : {i \in 1..Len(trace) : trace[i].type \in S} = {}
      BY <2>1
    <3> QED BY <3>1, FS_EmptySet DEF Count
  <2>3. Cardinality(Pulls') = 0
    <3>1. Pulls' = {}
      BY <2>1 DEF Pulls
    <3> QED BY <3>1, FS_EmptySet
  <2>4. OpeningEvents \in Seq(EventTypes)
    BY OpeningProperties DEF NodeTypes
  <2>5. \A S \in Kinds : Count(S)' = Cardinality(Positions(OpeningEvents, S))
    <3>1. \A S \in Kinds : /\ Count(S) \in Nat
                           /\ Count(S)' = Count(S) + Cardinality(Positions(OpeningEvents, S))
      BY <1>0, <2>1, <2>4, CountSteps
    <3>2. Cardinality(Positions(OpeningEvents, Moved)) \in Nat
      BY OpeningCounts, TransferAssumption
    <3>3. \A S \in Kinds : Cardinality(Positions(OpeningEvents, S)) \in Nat
      BY <3>2, OpeningCounts
    <3> QED BY <2>2, <3>1, <3>3
  <2>6. /\ Count(Moved)' = Placements /\ Count({"planner.end"})' = 0
        /\ Count({"planner.start"})' = 0 /\ Count({"operator.end"})' = 0
        /\ Count({"operator.start"})' = 0
    BY <1>1, <1>2, <2>5, OpeningCounts
  <2>7. Tallies'
    BY <2>1, <2>3, <2>6, TransferAssumption DEF Tallies
  <2> QED BY <2>1, <2>7 DEF CountInv
<1>7. ASSUME NEW node \in Nodes, Begin(node) PROVE CountInv'
  <2>1. /\ phase = node /\ phase' = node /\ ~awaiting /\ awaiting' = TRUE
        /\ Emitted(cursor, StartEvents[node])
        /\ UNCHANGED <<result, placed, decisions, observations>> /\ result = NoResult
    BY <1>0, <1>7 DEF Begin, Emit, graphState, Openness, Nodes
  <2>2. StartEvents[node] \in Seq(EventTypes)
    BY StartEventsProperties DEF NodeTypes
  <2>3. \A S \in Kinds : /\ Count(S) \in Nat
                         /\ Count(S)' = Count(S) + Cardinality(Positions(StartEvents[node], S))
    BY <1>0, <2>1, <2>2, CountSteps
  <2>4. /\ Count(Moved)' = Count(Moved) /\ Count({"planner.end"})' = Count({"planner.end"})
        /\ Count({"operator.end"})' = Count({"operator.end"})
        /\ Count({"planner.start"})' = Count({"planner.start"}) + (IF node = "plan" THEN 1 ELSE 0)
        /\ Count({"operator.start"})' = Count({"operator.start"}) + (IF node = "execute" THEN 1 ELSE 0)
    BY <1>1, <1>2, <2>3, StartCounts
  <2>5. Cardinality(Pulls)' = Cardinality(Pulls)
    BY <2>1 DEF Pulls
  <2>6. Tallies
    BY <2>1 DEF CountInv
  <2>7. Tallies'
    BY <1>0, <2>1, <2>4, <2>5, <2>6 DEF Tallies
  <2> QED BY <2>1, <2>7 DEF CountInv, Nodes
<1>8. CASE EndObserve \/ EndFinalize \/ EndEvaluate
  <2>1. PICK type \in {"infra.snapshot", "finalize.end", "evaluation.result"} :
          /\ phase \in {"observe", "finalize", "evaluate"}
          /\ phase' \in {"plan", "finalize", "evaluate", "end"} /\ awaiting' = FALSE
          /\ Emitted(local, <<type>>)
          /\ UNCHANGED <<result, placed, decisions, observations>> /\ result = NoResult
    BY <1>0, <1>8 DEF EndObserve, EndFinalize, EndEvaluate, End, Emit, RouteAfterObserve, Openness
  <2>2. <<type>> \in Seq(EventTypes)
    BY DEF EventTypes
  <2>3. \A S \in Kinds : Count(S)' = Count(S)
    <3>1. \A S \in Kinds : /\ Count(S) \in Nat
                           /\ Count(S)' = Count(S) + Cardinality(Positions(<<type>>, S))
      BY <1>0, <2>1, <2>2, CountSteps
    <3> QED BY <3>1, OtherCounts
  <2>4. Cardinality(Pulls)' = Cardinality(Pulls)
    BY <2>1 DEF Pulls
  <2>5. Tallies
    BY <2>1 DEF CountInv, Nodes
  <2>6. Tallies'
    BY <1>0, <1>1, <2>1, <2>3, <2>4, <2>5 DEF Tallies
  <2> QED BY <2>1, <2>6 DEF CountInv, Nodes
<1>9. ASSUME NEW decision \in Decisions, EndPlan(decision) PROVE CountInv'
  <2>1. /\ phase = "plan" /\ awaiting /\ phase' \in {"finalize", "execute"} /\ awaiting' = FALSE
        /\ Emitted(local, PlanEvents(decision))
        /\ decisions' = Append(decisions, decision)
        /\ UNCHANGED <<result, placed, observations>> /\ result = NoResult
    BY <1>0, <1>9 DEF EndPlan, End, Emit, RouteAfterPlan, Openness
  <2>2. PlanEvents(decision) \in Seq(EventTypes)
    BY PlanEventsProperties DEF NodeTypes
  <2>3. \A S \in Kinds : /\ Count(S) \in Nat
                         /\ Count(S)' = Count(S) + Cardinality(Positions(PlanEvents(decision), S))
    BY <1>0, <2>1, <2>2, CountSteps
  <2>4. /\ Count(Moved)' = Count(Moved)
        /\ Count({"planner.end"})' = Count({"planner.end"}) + 1
        /\ Count({"planner.start"})' = Count({"planner.start"})
        /\ Count({"operator.end"})' = Count({"operator.end"})
        /\ Count({"operator.start"})' = Count({"operator.start"})
    BY <1>1, <1>2, <2>3, PlanCounts
  <2>5. Cardinality(Pulls)' = Cardinality(Pulls)
    BY <2>1 DEF Pulls
  <2>6. Len(decisions') = Len(decisions) + 1
    BY <1>0, <2>1, AppendFacts DEF ControlTypes
  <2>7. Tallies
    BY <2>1 DEF CountInv, Nodes
  <2>8. Tallies'
    <3>1. /\ Count(Moved) = placed + Cardinality(Pulls)
          /\ Count({"planner.end"}) = Len(decisions)
          /\ Count({"planner.start"}) = Len(decisions) + 1
          /\ Count({"operator.end"}) = Len(observations)
          /\ Count({"operator.start"}) = Len(observations)
      BY <1>0, <2>1, <2>7 DEF Tallies
    <3>2. placed' = placed /\ Len(observations') = Len(observations) /\ awaiting' = FALSE
      BY <2>1
    <3>3. /\ Count(Moved)' = placed' + Cardinality(Pulls)'
          /\ Count({"planner.end"})' = Len(decisions')
          /\ Count({"planner.start"})' = Len(decisions')
          /\ Count({"operator.end"})' = Len(observations')
          /\ Count({"operator.start"})' = Len(observations')
      BY <2>4, <2>5, <2>6, <3>1, <3>2
    <3> QED BY <1>0, <2>6, <3>2, <3>3 DEF Tallies
  <2> QED BY <2>1, <2>8 DEF CountInv, Nodes
<1>10. ASSUME NEW transfers \in 0..MaxTransfers, EndExecute(transfers) PROVE CountInv'
  <2> DEFINE observation == [action |-> Last(decisions), transfers |-> transfers]
  <2>1. /\ phase = "execute" /\ awaiting /\ phase' = "observe" /\ awaiting' = FALSE
        /\ Emitted(local, ExecuteEvents(transfers))
        /\ observations' = Append(observations, observation)
        /\ UNCHANGED <<result, placed, decisions>> /\ result = NoResult
    BY <1>0, <1>10 DEF EndExecute, End, Emit, Openness
  <2>2. observation \in Observation /\ observation.transfers = transfers
    <3>1. /\ Len(decisions) = Len(observations) + 1
          /\ decisions[Len(decisions)] # Finish /\ decisions \in Seq(Decisions)
      BY <1>0, <2>1 DEF Position, ControlTypes
    <3>2. decisions[Len(decisions)] \in Actions
      BY <1>0, <3>1 DEF Decisions
    <3> QED BY <3>2 DEF Last, Observation
  <2> HIDE DEF observation
  <2>3. /\ transfers \in Nat /\ ExecuteEvents(transfers) \in Seq(NodeTypes)
    BY <1>10, ExecuteEventsProperties, TransferAssumption
  <2>4. ExecuteEvents(transfers) \in Seq(EventTypes)
    BY <2>3 DEF NodeTypes
  <2>5. \A S \in Kinds : /\ Count(S) \in Nat
                         /\ Count(S)' = Count(S) + Cardinality(Positions(ExecuteEvents(transfers), S))
    BY <1>0, <2>1, <2>4, CountSteps
  <2>6. /\ Count(Moved)' = Count(Moved) + transfers
        /\ Count({"operator.end"})' = Count({"operator.end"}) + 1
        /\ Count({"planner.end"})' = Count({"planner.end"})
        /\ Count({"planner.start"})' = Count({"planner.start"})
        /\ Count({"operator.start"})' = Count({"operator.start"})
    <3> DEFINE Added(S) == Cardinality(Positions(ExecuteEvents(transfers), S))
    <3>1. /\ Added(Moved) = transfers /\ Added({"operator.end"}) = 1
          /\ \A S \in Kinds \ {Moved, {"operator.end"}} : Added(S) = 0
      BY <2>3, ExecuteCounts
    <3>2. \A S \in Kinds : Count(S) \in Nat /\ Count(S)' = Count(S) + Added(S)
      BY <2>5
    <3> HIDE DEF Added
    <3> QED BY <1>1, <1>2, <3>1, <3>2
  <2>7. Cardinality(Pulls') = Cardinality(Pulls) + transfers
    <3>1. observations \in Seq(Observation)
      BY <1>0 DEF ControlTypes
    <3>2. Cardinality(PullsOf(Append(observations, observation)))
            = Cardinality(PullsOf(observations)) + observation.transfers
      BY <2>2, <3>1, PullsGrow
    <3>3. Pulls = PullsOf(observations) /\ Pulls' = PullsOf(observations')
      BY DEF Pulls, PullsOf
    <3> QED BY <2>1, <2>2, <3>2, <3>3
  <2>8. Len(observations') = Len(observations) + 1
    BY <1>0, <2>1, <2>2, AppendFacts DEF ControlTypes
  <2>9. Tallies
    BY <2>1 DEF CountInv, Nodes
  <2>10. Tallies'
    <3>1. /\ phase = "execute" /\ awaiting /\ phase' = "observe" /\ placed' = placed
          /\ Len(decisions') = Len(decisions) /\ placed \in Int
      BY <1>0, <2>1 DEF ControlTypes
    <3>2. Cardinality(Pulls) \in Int /\ Len(observations) \in Nat /\ Len(decisions) \in Nat
      BY <1>0, <1>3
    <3>3. Count(Moved)' = placed' + Cardinality(Pulls')
      BY <2>3, <2>6, <2>7, <2>9, <3>1, <3>2 DEF Tallies
    <3>4. /\ Count({"planner.end"})' = Len(decisions')
          /\ Count({"planner.start"})' = Len(decisions')
      BY <2>6, <2>9, <3>1, <3>2 DEF Tallies
    <3>5. /\ Count({"operator.end"})' = Len(observations')
          /\ Count({"operator.start"})' = Len(observations')
      BY <2>6, <2>8, <2>9, <3>1, <3>2 DEF Tallies
    <3> QED BY <3>1, <3>3, <3>4, <3>5 DEF Tallies
  <2> QED BY <2>1, <2>10 DEF CountInv, Nodes
<1>11. CASE EndGraph
  <2>1. /\ phase = "end" /\ phase' = "exit" /\ Emitted(cursor, <<"run.end">>)
        /\ outcome' =
             [completed |-> TRUE, transfers |-> TotalTransfers, decisions |-> Len(decisions)]
        /\ UNCHANGED <<result, placed, decisions, observations>> /\ result = NoResult
    BY <1>0, <1>11 DEF EndGraph, Emit, graphState, Openness
  <2>2. <<"run.end">> \in Seq(EventTypes)
    BY DEF EventTypes
  <2>3. \A S \in Kinds : Count(S)' = Count(S)
    <3>1. \A S \in Kinds : /\ Count(S) \in Nat
                           /\ Count(S)' = Count(S) + Cardinality(Positions(<<"run.end">>, S))
      BY <1>0, <2>1, <2>2, CountSteps
    <3> QED BY <3>1, OtherCounts
  <2>4. Tallies /\ phase # "plan" /\ phase # "execute"
    BY <2>1 DEF CountInv
  <2>5. /\ outcome'.transfers = Count(Moved) /\ outcome'.decisions = Count({"planner.end"})
        /\ Count({"planner.start"}) = Count({"planner.end"})
        /\ Count({"operator.start"}) = Count({"operator.end"})
    BY <1>0, <2>1, <2>4 DEF Tallies, TotalTransfers
  <2>6. Tells(outcome)'
    BY <1>1, <2>3, <2>5 DEF Tells
  <2> QED BY <2>1, <2>6 DEF CountInv, Nodes
<1>12. CASE ExitStack \/ ClosePlanner \/ WriteTemporary
  <2>1. /\ phase \in {"exit", "close", "write"} /\ phase' \in {"close", "write", "replace"}
        /\ UNCHANGED <<trace, result, outcome, observations>> /\ result = NoResult
    BY <1>0, <1>12 DEF ExitStack, ClosePlanner, WriteTemporary, files, graphState, Openness
  <2>2. Tells(outcome)' <=> Tells(outcome)
    BY <1>1, <2>1, CountsUnchanged DEF Tells
  <2> QED BY <2>1, <2>2 DEF CountInv, Nodes
<1>13. CASE Raise \/ EngineStops \/ Abort
  <2>1. phase' \in {"failed", "aborted"} /\ UNCHANGED result
    BY <1>13 DEF Raise, EngineStops, Abort, Failed
  <2>2. result = NoResult
    BY <1>0, <1>13 DEF Raise, EngineStops, Abort, Openness, Nodes
  <2> QED BY <2>1, <2>2 DEF CountInv, Nodes
<1>14. CASE HandleFailure
  <2>1. /\ phase' = "close" /\ outcome'.completed = FALSE
        /\ UNCHANGED result /\ result = NoResult
    BY <1>0, <1>14 DEF HandleFailure, Emit, Openness
  <2> QED BY <2>1 DEF CountInv, Nodes
<1>15. CASE ReplaceResult
  <2>1. /\ phase = "replace" /\ phase' = "done" /\ result' = outcome
        /\ UNCHANGED <<trace, outcome, observations>>
    BY <1>15 DEF ReplaceResult, graphState
  <2>2. outcome.completed => Tells(outcome)
    BY <2>1 DEF CountInv
  <2>3. result'.completed => Tells(result)'
    BY <1>1, <2>1, <2>2, CountsUnchanged DEF Tells
  <2> QED BY <2>1, <2>3 DEF CountInv, Nodes
<1>16. CASE UNCHANGED vars
  <2>1. UNCHANGED <<phase, awaiting, trace, result, outcome, placed, decisions, observations>>
    BY <1>16 DEF vars, files, graphState
  <2>2. Tallies' <=> Tallies
    BY <1>1, <2>1, CountsUnchanged DEF Tallies
  <2>3. (Tells(outcome)' <=> Tells(outcome)) /\ (Tells(result)' <=> Tells(result))
    BY <1>1, <2>1, CountsUnchanged DEF Tells
  <2> QED BY <2>1, <2>2, <2>3 DEF CountInv
<1> QED BY <1>4, <1>5, <1>6, <1>7, <1>8, <1>9, <1>10, <1>11, <1>12, <1>13, <1>14, <1>15, <1>16
        DEF Next, Progress

\* A completed result reports the transfers and planner calls of its trace, where
\* every call and execution that started has ended (graph.py:322-351, 135-148).
THEOREM ResultMatches == Spec => []ResultMatchesTrace
<1>1. Init => Control /\ TraceInv /\ CountInv
  BY InitControl, InitTrace, InitCounts
<1>2. Control /\ TraceInv /\ CountInv /\ [Next]_vars => (Control /\ TraceInv /\ CountInv)'
  BY StepControl, StepTrace, StepCounts
<1>3. Control /\ TraceInv /\ CountInv => ResultMatchesTrace
  BY DEF CountInv, Tells, ResultMatchesTrace, Moved
<1> QED BY <1>1, <1>2, <1>3, PTL DEF Spec
-----------------------------------------------------------------------------
\* A round of the loop takes six steps: observe, plan and execute begin and end once each. So
\* many are left at most, given the rounds that the budget allows.
Round == 6

StepsLeft ==
  CASE phase = "idle"        -> Round * MaxPlanningSteps + Placements + 15
    [] phase = "validate"    -> Round * MaxPlanningSteps + Placements + 14
    [] phase = "materialize" -> Round * MaxPlanningSteps + (Placements - placed) + 13
    [] phase = "observe"     -> Round * remaining + (IF awaiting THEN 11 ELSE 12)
    [] phase = "plan"        -> Round * remaining + (IF awaiting THEN 9 ELSE 10)
    [] phase = "execute"     -> Round * remaining + (IF awaiting THEN 13 ELSE 14)
    [] phase = "finalize"    -> IF awaiting THEN 9 ELSE 10
    [] phase = "evaluate"    -> IF awaiting THEN 7 ELSE 8
    [] phase = "end"         -> 6
    [] phase = "exit"        -> 5
    [] phase = "failed"      -> 4
    [] phase = "close"       -> 3
    [] phase = "write"       -> 2
    [] phase = "replace"     -> 1
    [] OTHER                 -> 0

\* A run ends by a step that is the last, or not at all.
Over == phase \in {"done", "aborted"}

\* The steps left in a phase.
LEMMA StepsLeftIn ==
  /\ phase = "idle" => StepsLeft = Round * MaxPlanningSteps + Placements + 15
  /\ phase = "validate" => StepsLeft = Round * MaxPlanningSteps + Placements + 14
  /\ phase = "materialize" => StepsLeft = Round * MaxPlanningSteps + (Placements - placed) + 13
  /\ phase = "observe" => StepsLeft = Round * remaining + (IF awaiting THEN 11 ELSE 12)
  /\ phase = "plan" => StepsLeft = Round * remaining + (IF awaiting THEN 9 ELSE 10)
  /\ phase = "execute" => StepsLeft = Round * remaining + (IF awaiting THEN 13 ELSE 14)
  /\ phase = "finalize" => StepsLeft = IF awaiting THEN 9 ELSE 10
  /\ phase = "evaluate" => StepsLeft = IF awaiting THEN 7 ELSE 8
  /\ phase = "end" => StepsLeft = 6
  /\ phase = "exit" => StepsLeft = 5
  /\ phase = "failed" => StepsLeft = 4
  /\ phase = "close" => StepsLeft = 3
  /\ phase = "write" => StepsLeft = 2
  /\ phase = "replace" => StepsLeft = 1
  /\ Over => StepsLeft = 0
BY DEF StepsLeft, Over

\* And in the phase after a step.
LEMMA StepsLeftThen ==
  /\ phase' = "idle" => StepsLeft' = Round * MaxPlanningSteps + Placements + 15
  /\ phase' = "validate" => StepsLeft' = Round * MaxPlanningSteps + Placements + 14
  /\ phase' = "materialize" => StepsLeft' = Round * MaxPlanningSteps + (Placements - placed') + 13
  /\ phase' = "observe" => StepsLeft' = Round * remaining' + (IF awaiting' THEN 11 ELSE 12)
  /\ phase' = "plan" => StepsLeft' = Round * remaining' + (IF awaiting' THEN 9 ELSE 10)
  /\ phase' = "execute" => StepsLeft' = Round * remaining' + (IF awaiting' THEN 13 ELSE 14)
  /\ phase' = "finalize" => StepsLeft' = IF awaiting' THEN 9 ELSE 10
  /\ phase' = "evaluate" => StepsLeft' = IF awaiting' THEN 7 ELSE 8
  /\ phase' = "end" => StepsLeft' = 6
  /\ phase' = "exit" => StepsLeft' = 5
  /\ phase' = "failed" => StepsLeft' = 4
  /\ phase' = "close" => StepsLeft' = 3
  /\ phase' = "write" => StepsLeft' = 2
  /\ phase' = "replace" => StepsLeft' = 1
  /\ Over' => StepsLeft' = 0
BY DEF StepsLeft, Over

\* The bound is a natural number, and 0 only for a run that is over.
LEMMA StepsLeftType ==
  Control =>
    /\ StepsLeft \in Nat
    /\ ~Over => StepsLeft > 0
    /\ phase \in Nodes \cup {"validate", "materialize", "end", "exit"} => StepsLeft > 4
<1> SUFFICES ASSUME Control
             PROVE  /\ StepsLeft \in Nat
                    /\ ~Over => StepsLeft > 0
                    /\ phase \in Nodes \cup {"validate", "materialize", "end", "exit"} => StepsLeft > 4
  OBVIOUS
<1> USE BudgetAssumption, TransferAssumption DEF Round
<1>1. /\ remaining \in Nat /\ placed \in Int /\ 0 <= placed /\ placed <= Placements
      /\ awaiting \in BOOLEAN /\ phase \in Phases
  BY DEF Control, ControlTypes
<1>2. CASE phase \in {"idle", "validate", "materialize"}
  BY <1>1, <1>2, StepsLeftIn DEF Over, Nodes
<1>3. CASE phase \in Nodes
  BY <1>1, <1>3, StepsLeftIn DEF Over, Nodes
<1>4. CASE phase \notin Nodes \cup {"idle", "validate", "materialize"}
  BY <1>1, <1>4, StepsLeftIn DEF Over, Nodes, Phases
<1> QED BY <1>2, <1>3, <1>4

\* Every step of a run uses one up at least.
LEMMA StepUsesOne ==
  ASSUME Control, Control', TraceInv, Next
  PROVE  StepsLeft' < StepsLeft
<1> USE BudgetAssumption, TransferAssumption
<1>1. /\ remaining \in Nat /\ remaining' \in Nat /\ placed \in Int /\ placed <= Placements
      /\ placed' \in Int /\ 0 <= placed' /\ awaiting \in BOOLEAN /\ phase \in Phases
      /\ StepsLeft \in Nat
  BY StepsLeftType DEF Control, ControlTypes
<1>2. CASE Start
  <2>1. phase = "idle" /\ phase' = "validate"
    BY <1>2 DEF Start, TraceInv, Openness
  <2> QED BY <2>1, StepsLeftIn, StepsLeftThen DEF Round
<1>3. CASE ValidateSurfaces \/ PutPlacement
  <2>1. \/ phase = "validate" /\ phase' = "materialize"
        \/ phase = "materialize" /\ phase' = "materialize" /\ placed' = placed + 1
    BY <1>3 DEF ValidateSurfaces, PutPlacement
  <2> QED BY <1>1, <2>1, StepsLeftIn, StepsLeftThen DEF Round
<1>4. CASE StartGraph
  <2>1. /\ phase = "materialize" /\ phase' = "observe" /\ placed = Placements
        /\ remaining' = remaining /\ awaiting' = awaiting
    BY <1>4 DEF StartGraph
  <2>2. decisions = <<>> /\ ~awaiting /\ Len(decisions) + remaining = MaxPlanningSteps
    BY <2>1 DEF Control, Position, Preparing, Aligned
  <2>3. remaining = MaxPlanningSteps
    BY <1>1, <2>2
  <2> QED BY <2>1, <2>2, <2>3, StepsLeftIn, StepsLeftThen DEF Round
<1>5. ASSUME NEW node \in Nodes, Begin(node) PROVE StepsLeft' < StepsLeft
  <2>1. /\ phase = node /\ phase' = phase /\ ~awaiting /\ awaiting' = TRUE
        /\ remaining' = remaining
    BY <1>5 DEF Begin, graphState
  <2> QED BY <1>1, <2>1, StepsLeftIn, StepsLeftThen DEF Round, Nodes
<1>6. CASE EndObserve
  <2>1. /\ phase = "observe" /\ awaiting /\ awaiting' = FALSE /\ remaining' = remaining
        /\ phase' = IF remaining > 0 THEN "plan" ELSE "finalize"
    BY <1>6 DEF EndObserve, End, RouteAfterObserve
  <2> QED BY <1>1, <2>1, StepsLeftIn, StepsLeftThen DEF Round
<1>7. ASSUME NEW decision \in Decisions, EndPlan(decision) PROVE StepsLeft' < StepsLeft
  <2>1. /\ phase = "plan" /\ awaiting /\ awaiting' = FALSE /\ remaining' = remaining - 1
        /\ phase' \in {"finalize", "execute"}
    BY <1>7 DEF EndPlan, End, RouteAfterPlan
  <2> QED BY <1>1, <2>1, StepsLeftIn, StepsLeftThen DEF Round
<1>8. ASSUME NEW transfers \in 0..MaxTransfers, EndExecute(transfers)
      PROVE  StepsLeft' < StepsLeft
  <2>1. /\ phase = "execute" /\ awaiting /\ awaiting' = FALSE /\ remaining' = remaining
        /\ phase' = "observe"
    BY <1>8 DEF EndExecute, End
  <2> QED BY <1>1, <2>1, StepsLeftIn, StepsLeftThen DEF Round
<1>9. CASE EndFinalize \/ EndEvaluate \/ EndGraph \/ ExitStack
  <2>1. \/ phase = "finalize" /\ phase' = "evaluate" /\ awaiting' = FALSE
        \/ phase = "evaluate" /\ phase' = "end"
        \/ phase = "end" /\ phase' = "exit"
        \/ phase = "exit" /\ phase' = "close"
    BY <1>9 DEF EndFinalize, EndEvaluate, EndGraph, ExitStack, End
  <2> QED BY <1>1, <2>1, StepsLeftIn, StepsLeftThen
<1>10. CASE Raise \/ EngineStops
  <2>1. /\ phase \in Nodes \cup {"validate", "materialize", "end", "exit"}
        /\ phase' = "failed"
    BY <1>10 DEF Raise, EngineStops, Failed
  <2> QED BY <1>1, <2>1, StepsLeftType, StepsLeftThen
<1>11. CASE HandleFailure \/ ClosePlanner \/ WriteTemporary \/ ReplaceResult
  <2>1. \/ phase = "failed" /\ phase' = "close"
        \/ phase = "close" /\ phase' = "write"
        \/ phase = "write" /\ phase' = "replace"
        \/ phase = "replace" /\ phase' = "done"
    BY <1>11 DEF HandleFailure, ClosePlanner, WriteTemporary, ReplaceResult
  <2> QED BY <2>1, StepsLeftIn, StepsLeftThen DEF Over
<1>12. CASE Abort
  <2>1. ~Over /\ phase' = "aborted"
    BY <1>12 DEF Abort, Over
  <2>2. StepsLeft > 0 /\ StepsLeft' = 0
    BY <2>1, StepsLeftType, StepsLeftThen DEF Over
  <2> QED BY <1>1, <2>2
<1> QED BY <1>2, <1>3, <1>4, <1>5, <1>6, <1>7, <1>8, <1>9, <1>10, <1>11, <1>12 DEF Next, Progress

\* What is done under a run ID is bounded by the budget and the task alone: from its first
\* step on, at most 6 * MaxPlanningSteps + Placements + 15 steps are made, whatever the planner
\* proposes, whatever fails, and however large the engine's limit is (graph.py:98-135,
\* runner.py:81-167).
THEOREM StepsRunOut ==
  Spec => /\ StepsLeft = 6 * MaxPlanningSteps + Placements + 15
          /\ [][StepsLeft' < StepsLeft /\ StepsLeft \in Nat /\ StepsLeft' \in Nat]_vars
<1>1. Init => StepsLeft = 6 * MaxPlanningSteps + Placements + 15
  BY StepsLeftIn DEF Init, Round
<1> DEFINE Natural == StepsLeft \in Nat
<1>2. Control => Natural
  BY StepsLeftType
<1> HIDE DEF Natural
<1>3. Control' => Natural'
  BY <1>2, PTL
<1>4. Control /\ TraceInv /\ (Control /\ TraceInv)' /\ [Next]_vars
        => [StepsLeft' < StepsLeft /\ StepsLeft \in Nat /\ StepsLeft' \in Nat]_vars
  BY <1>2, <1>3, StepUsesOne DEF Natural
<1> QED BY <1>1, <1>4, TraceInvariance, PTL DEF Spec
=============================================================================
