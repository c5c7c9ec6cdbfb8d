----------------------------- MODULE JointRuntime -----------------------------
(***************************************************************************)
(* One controller and its workers over several runs: the materialization   *)
(* of the task (src/infra_joint/experiments/runner.py), the observer        *)
(* (infrastructure/observer.py), the executor (runtime/executor.py) and the *)
(* HTTP client (runtime/client.py) against WorkerServer.  PlanningGraph     *)
(* says when a run observes and executes and what it records; here a run is *)
(* what it asks of the workers, whose files and abandoned requests outlive  *)
(* it.  Every failure of a call ends the run.                               *)
(***************************************************************************)
EXTENDS WorkerServer, SequencesExt

CONSTANTS
  Tasks,        \* the tasks: sequences of placements [worker, write]
  MaxRuns,      \* bound: runs
  MaxActions,   \* configured budget of planner calls
  Unprobed, Unreachable, NoRequest, NoJob

Placement == [worker : Workers, write : Write]
Job == [action : Actions, target : Workers, pulls : SUBSET Nat]
Report == [artifacts : [Ids -> Contents \cup {Missing}], inFlight : Nat]

\* Agent IDs are numbers: the code orders them as strings.
ASSUME WorkersAssumption == Workers \subseteq Int
ASSUME TasksAssumption == Tasks \subseteq Seq(Placement)
ASSUME BoundsAssumption == MaxRuns \in Nat /\ MaxActions \in Nat
ASSUME NoValuesAssumption ==
  /\ NoRequest \notin Slots /\ NoJob \notin Job
  /\ Unprobed # Unreachable /\ {Unprobed, Unreachable} \cap Report = {}

VARIABLES
  phase,    \* what the run is doing
  waiting,  \* the request whose response it awaits, or NoRequest
  todo,     \* placements not yet materialized
  reports,  \* each worker's reply to the current observation
  job,      \* the action being executed, its agent, the positions of inputs still to pull
  told,     \* history: the artifacts that responses to this run have named
  runs,     \* runs started
  actions   \* actions executed by this run

runVars == <<phase, waiting, todo, reports, job, told, runs, actions>>
vars == <<workerVars, runVars>>

RunInit ==
  /\ phase = "idle"
  /\ waiting = NoRequest
  /\ todo = <<>>
  /\ reports = [w \in Workers |-> Unprobed]
  /\ job = NoJob
  /\ told = {}
  /\ runs = 0
  /\ actions = 0

-----------------------------------------------------------------------------
Reachable == {w \in Workers : reports[w] \notin {Unprobed, Unreachable}}

\* The snapshot: where an artifact is, and its checksum.
Locations(id) == {w \in Reachable : reports[w].artifacts[id] # Missing}
Digest(id) == reports[CHOOSE w \in Locations(id) : TRUE].artifacts[id]

\* A request of the run, which then awaits its response.
Ask(request) ==
  /\ waiting = NoRequest
  /\ \E s \in Slots : Send(s, request) /\ waiting' = s

Told ==
  {[worker |-> slots[waiting].request.worker, write |-> slots[waiting].writes[k]] :
     k \in 1..Len(slots[waiting].writes)}

\* Mutant: the response is not checked for an error.
ReturnedUnchecked ==
  /\ waiting # NoRequest
  /\ slots[waiting].stage = "answered"
  /\ Close(waiting)
  /\ waiting' = NoRequest
  /\ told' = told \cup Told

\* The awaited response arrives, and is not an error.
Returned ==
  /\ waiting # NoRequest
  /\ slots[waiting].stage = "answered" /\ slots[waiting].result = "ok"
  /\ Close(waiting)
  /\ waiting' = NoRequest
  /\ told' = told \cup Told

Start(task) ==
  /\ phase = "idle" /\ runs < MaxRuns
  /\ phase' = "materialize"
  /\ todo' = task
  /\ told' = {}
  /\ runs' = runs + 1
  /\ actions' = 0
  /\ UNCHANGED <<workerVars, waiting, reports, job>>

SendPlacement ==
  /\ phase = "materialize" /\ todo # <<>>
  /\ Ask([call |-> "put", worker |-> Head(todo).worker, write |-> Head(todo).write])
  /\ UNCHANGED <<phase, todo, reports, job, told, runs, actions>>

PlacementReturned ==
  /\ phase = "materialize"
  /\ Returned
  /\ todo' = Tail(todo)
  /\ UNCHANGED <<phase, reports, job, runs, actions>>

Materialized ==
  /\ phase = "materialize" /\ todo = <<>>
  /\ phase' = "observe"
  /\ UNCHANGED <<workerVars, waiting, todo, reports, job, told, runs, actions>>

\* The probes of one observation run at the same time and are answered one by
\* one; any exception makes the worker unavailable.
Probe(w) ==
  /\ phase = "observe" /\ reports[w] = Unprobed
  /\ \E report \in {Unreachable,
                    [artifacts |-> [id \in Ids |-> IF id \in Listed(w) THEN store[w][id] ELSE Missing],
                     inFlight |-> inFlight[w]]} :
       reports' = [reports EXCEPT ![w] = report]
  /\ UNCHANGED <<workerVars, phase, waiting, todo, job, told, runs, actions>>

\* Mutant: replicas are not compared.
ConsistentAlways == TRUE

Consistent ==
  \A id \in Ids : \A v, w \in Locations(id) : reports[v].artifacts[id] = reports[w].artifacts[id]

\* Inconsistent reports are an exception, and the run can only give up.
Observed ==
  /\ phase = "observe" /\ \A w \in Workers : reports[w] # Unprobed
  /\ Consistent
  /\ phase' = "plan"
  /\ UNCHANGED <<workerVars, waiting, todo, reports, job, told, runs, actions>>

\* Mutant: no input is pulled.
ToPullNothing(a, w) == {}

\* The positions of the inputs that the snapshot does not locate at the target; an
\* input that is named twice is pulled twice.
ToPull(a, w) == {k \in 1..Len(InputsOf[a]) : w \notin Locations(InputsOf[a][k])}

\* The next input to pull, in the action's order.
IsNext(k) == k \in job.pulls /\ \A j \in job.pulls : k <= j

\* Where it is pulled from: the first agent that has it.
IsSource(w, id) == w \in Locations(id) /\ \A v \in Locations(id) : w <= v

\* The planner proposes an action and the resolver binds it to an available
\* agent; which one, Resolver says.  Unknown inputs are rejected.
Propose(a, w) ==
  /\ phase = "plan" /\ actions < MaxActions
  /\ w \in Reachable
  /\ \A id \in ToSet(InputsOf[a]) : Locations(id) # {}
  /\ phase' = "localize"
  /\ job' = [action |-> a, target |-> w, pulls |-> ToPull(a, w)]
  /\ actions' = actions + 1
  /\ UNCHANGED <<workerVars, waiting, todo, reports, told, runs>>

SendPull ==
  /\ phase = "localize"
  /\ \E k \in job.pulls, source \in Workers :
       LET id == InputsOf[job.action][k]
       IN /\ IsNext(k) /\ IsSource(source, id)
          /\ Ask([call |-> "pull", worker |-> job.target, source |-> source,
                  write |-> [id |-> id, content |-> Digest(id)]])
  /\ UNCHANGED <<phase, todo, reports, job, told, runs, actions>>

PullReturned ==
  /\ phase = "localize"
  /\ Returned
  /\ \E k \in job.pulls : IsNext(k) /\ job' = [job EXCEPT !.pulls = @ \ {k}]
  /\ UNCHANGED <<phase, todo, reports, runs, actions>>

SendExecute ==
  /\ phase = "localize" /\ job.pulls = {}
  /\ Ask([call |-> "execute", worker |-> job.target, action |-> job.action])
  /\ phase' = "execute"
  /\ UNCHANGED <<todo, reports, job, told, runs, actions>>

\* The graph goes on to observe.
ExecuteReturned ==
  /\ phase = "execute"
  /\ Returned
  /\ phase' = "observe"
  /\ reports' = [w \in Workers |-> Unprobed]
  /\ job' = NoJob
  /\ UNCHANGED <<todo, runs, actions>>

\* Mutant: calls have no timeout.
EndUntimed ==
  /\ phase # "idle" /\ waiting = NoRequest
  /\ phase' = "idle"
  /\ todo' = <<>>
  /\ reports' = [w \in Workers |-> Unprobed]
  /\ job' = NoJob
  /\ told' = {}
  /\ UNCHANGED <<workerVars, waiting, runs, actions>>

\* The run ends: the planner finished, a call failed or timed out, or anything
\* else raised.  The connection of a call that is under way is closed.
End ==
  /\ phase # "idle"
  /\ phase' = "idle"
  /\ waiting' = NoRequest
  /\ IF waiting = NoRequest THEN UNCHANGED workerVars ELSE Close(waiting)
  /\ todo' = <<>>
  /\ reports' = [w \in Workers |-> Unprobed]
  /\ job' = NoJob
  /\ told' = {}
  /\ UNCHANGED <<runs, actions>>

-----------------------------------------------------------------------------
RunNext ==
  \/ \E task \in Tasks : Start(task)
  \/ SendPlacement \/ PlacementReturned \/ Materialized
  \/ \E w \in Workers : Probe(w)
  \/ Observed
  \/ \E a \in Actions, w \in Workers : Propose(a, w)
  \/ SendPull \/ PullReturned
  \/ SendExecute \/ ExecuteReturned
  \/ End

JointNext == RunNext \/ (WorkerNext /\ UNCHANGED runVars)

JointSpec == Init /\ RunInit /\ [][JointNext]_vars

\* Every call has an HTTP timeout and every other step of a run is local, so the
\* controller never stops making steps; the workers and their backends may hang.
FairJointSpec == JointSpec /\ WF_vars(RunNext)

-----------------------------------------------------------------------------
Phases == {"idle", "materialize", "observe", "plan", "localize", "execute"}

\* Types of the controller's state (executor.py:85-117, observer.py:57-71).
TypeOK ==
  /\ WorkersTypeOK
  /\ phase \in Phases
  /\ waiting \in Slots \cup {NoRequest}
  /\ todo \in Seq(Placement)
  /\ reports \in [Workers -> Report \cup {Unprobed, Unreachable}]
  /\ job \in Job \cup {NoJob}
  /\ told \subseteq Placement
  /\ runs \in 0..MaxRuns /\ actions \in 0..MaxActions

\* When an action reaches its agent, the agent holds every input with exactly the
\* content the snapshot promised, whether the input was there already or was
\* pulled; the snapshot is older than the planner's model call, the pulls and
\* whatever abandoned requests wrote since (executor.py:72-117).
InputsAreFaithful ==
  phase = "execute" =>
    \A id \in ToSet(InputsOf[job.action]) : store[job.target][id] = Digest(id)

\* A snapshot, put together from probes answered at different times, stays true
\* for as long as it is used (observer.py:43-57, 86-110; executor.py:91-101).
SnapshotHolds ==
  \A w \in Reachable, id \in Ids :
    reports[w].artifacts[id] # Missing => store[w][id] = reports[w].artifacts[id]

\* What a response has told the run is never lost: the worker still holds the
\* artifact, and a snapshot in which the worker is available locates it there
\* (observer.py:86-110).
ToldIsObserved ==
  \A fact \in told :
    /\ store[fact.worker][fact.write.id] = fact.write.content
    /\ phase = "plan" /\ fact.worker \in Reachable =>
         reports[fact.worker].artifacts[fact.write.id] = fact.write.content

\* The planner never goes on with an artifact ID that means two things on the
\* available workers, although an output ID is only checked against the one
\* store it is written to (observer.py:95-99).
EvidenceIsConsistent ==
  phase \in {"plan", "localize", "execute"} =>
    \A f, g \in {fact \in told : fact.worker \in Reachable} :
      f.write.id = g.write.id => f.write.content = g.write.content

Diverged(id) ==
  \E v, w \in Workers : /\ id \in Listed(v) \cap Listed(w)
                         /\ store[v][id] # store[w][id]

\* Two workers that hold different content under one ID do so forever: no later
\* run, which would fail at each observation that reaches both, repairs it
\* (observer.py:95-99; no operation removes an artifact).
DivergenceIsPermanent == [][\A id \in Ids : Diverged(id) => Diverged(id)']_vars

\* Every artifact that a run may ask a worker to write.
Writes ==
  (UNION {{task[k].write : k \in 1..Len(task)} : task \in Tasks})
    \cup (UNION {ToSet(writes) : writes \in UNION {WritesOf[a] : a \in Actions}})

\* Each ID is only ever given one content.
OneContentPerId == \A v, w \in Writes : v.id = w.id => v.content = w.content

\* If IDs are given one content each, doing things again is harmless: whatever
\* was done already by this run, an earlier or an abandoned call, or a handler
\* that failed half way, nothing is refused but the ID a crash split, and no
\* observation fails (artifact_store.py:95-106, runner.py:183-203).
RepeatsAreHarmless ==
  OneContentPerId =>
    /\ \A s \in Slots :
         slots[s] # Free /\ slots[s].result = "refused" =>
           \E id \in Ids : store[slots[s].request.worker][id] = Split
    /\ Consistent

\* A run ends, whatever the workers do or fail to do (config.py:67,
\* runner.py:90-97).
RunsEnd == phase # "idle" ~> phase = "idle"

\* README.md:16 promises "checksum-verified worker-to-worker pulls": an artifact
\* that its source lists is not answered as missing.
ListedCanBePulled ==
  \A s \in Slots :
    slots[s] # Free /\ slots[s].request.call = "pull" /\ slots[s].result = "missing" =>
      slots[s].request.write.id \notin Listed(slots[s].request.source)

=============================================================================
