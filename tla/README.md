# TLA+ specifications of infra-joint-planner

This directory models the controller, the workers and the artifact stores of
`src/infra_joint`, checks them with TLC on small instances and proves the main
safety results with TLAPS. Paths below are relative to the repository root;
`src/infra_joint` is abbreviated `ij`.

## 1. The system

One *controller* process (`ij/experiments/runner.py`) executes one benchmark run
at a time against a set of *worker* processes (`ij/worker/server.py`), which
keep artifacts and execute operators.

| Component | Source | State | Operations | Hard part |
|---|---|---|---|---|
| Run lifecycle (runner) | `ij/experiments/runner.py` | run directory, `trace.jsonl`, `result.json` | `run`, `_materialize`, `_append_failure_trace`, `_write_result` | a failure at any `await`; a crash between the trace, the temporary file and the rename; a second run under the same run ID |
| Planning graph | `ij/planning/graph.py` | `PlanningState`: event index, parent event, remaining steps, decisions, observations, snapshot | nodes observe, plan, execute, finalize, evaluate and their routes | a node that fails half way has written events its state update does not know of; the budget; the engine's superstep limit |
| Trace | `ij/evaluation/trace.py` | append-only JSONL file | `append`, `read_all` | linear parent chain under failures |
| Planner, finalizer, evaluator | `ij/planning/planner.py`, `finalize.py`, `ij/evaluation/evaluator.py` | none (LLM calls) | `decide`, `finalize`, `evaluate` | decisions are arbitrary; may fail; prompts are built of whole objects of which some fields must be left out |
| Resolver | `ij/runtime/resolver.py` | none (pure) | `resolve`, `_resolve_model`, `_model_request_error` | explicit intent, capability, availability, locality, preflight and tie-breaks interact |
| Executor and client | `ij/runtime/executor.py`, `client.py` | none between calls | `execute`, `_localize_inputs`, HTTP calls | uses a snapshot taken before an LLM call; several pulls then an execute, any of which may fail or time out |
| Observer, surface validation | `ij/infrastructure/observer.py`, `validation.py` | none | `observe`, `validate_worker_surfaces` | probes answer at different times, of workers that may be replaced between them; replicas that disagree |
| Worker server | `ij/worker/server.py` | `in_flight`, registry, store | `/state`, `/artifact`, `/artifact/pull`, `/execute/operator` | requests interleave at every `await` |
| Artifact stores | `ij/worker/artifact_store.py` | dictionary; blob and metadata files | `put`, `get`, `ids` | four file operations per put, a crash between any two |
| Fetcher, model backend | `ij/worker/artifact_fetcher.py`, `model_backend.py` | none | `fetch`, `invoke`, `preflight_model_request` | second preflight must agree with the resolver's |
| Operators | `ij/operators/*.py` | write their output into the worker's store | structured, retrieval, media operators | ties, groups, missing fields, the order of derivations; ranks and frame numbers; partial output, conflicting output IDs |
| Contracts | `ij/core/*.py`, `ij/config.py` | immutable values | validators | - |
| Benchmark adapters | `ij/benchmarks/*.py` | none (pure) | `adapt` | splitting, sharding and interval arithmetic must lose nothing |
| CLI | `ij/cli.py` | none | start-up | - |

**How they interact.** The runner creates the run directory, compares the
workers' surfaces with the environment file, puts the task's artifacts on
workers (`PUT /artifact`) and calls the planning graph. The graph observes every
worker (`GET /state`), lets the planner (an LLM) choose a semantic action and a
physical policy, and hands the action to the executor. The resolver binds it to
an agent and a deployment; the executor has the agent pull the inputs it lacks
from other workers (`POST /artifact/pull`, one after another) and then sends
`POST /execute/operator`. The loop ends when the planner finishes or its budget
is used up; the finalizer and the evaluator follow, and the runner writes the
result. All calls are HTTP requests with a timeout. Nothing in this repository repeats
one, so a call that has failed ends the run; the OpenAI client of the model backends
(`ij/config.py:104`, external) repeats a request by itself, by its defaults, before it
fails, which is part of one call here. Two things outlive a run: the workers' files, which
no operation deletes and whose IDs are not scoped to a run, and requests that a
timed-out client left behind.

**What makes each component correct.**

- *Artifact stores:* an artifact is written once; what `put` acknowledged `get`
  returns unchanged; `ids()` names only what `get` can return, across crashes.
- *Worker server:* `in_flight` counts the operators that run, whatever fails or is
  abandoned; a pull never replaces what was written while it awaited its
  source; a success names what the worker holds.
- *Runtime (observer, executor, client):* an action's agent holds the inputs
  the snapshot promised; snapshots stay true while they are used; the planner
  never reasons about an ID that means two things; a run ends.
- *Resolver:* the binding is executable, keeps explicit intent, costs the fewest
  transfers, and rejects nothing that could be bound; the controller's and the
  worker's context checks agree.
- *Planning graph and runner:* budget and supersteps are exact; observations
  belong to their decisions; the trace is one parent chain in every failure; a
  result is published once, and agrees with the trace.
- *Planner and finalizer:* what they are shown tells nothing of hosts, deployments,
  transfers, timings, source references, evaluators or gold answers.
- *Surface validation:* a worker that passed it takes every request the run binds to
  it; a worker configured as the environment says passes it.
- *Operators:* ranks, groups and matches are right; filters, projections, derivations,
  rankings, minima and maxima may be taken before data is merged; frames keep their
  order and a sheet shows every image.
- *Adapters:* documents, records, chunks and shards lose and repeat nothing.

## 2. Modules

| Module | Models | Uses |
|---|---|---|
| `ArtifactStore` | what a store promises: a write-once map | |
| `FileArtifactStore` | `FileArtifactStore` of `artifact_store.py`, by file operation | refines `ArtifactStore` |
| `RunRecord` | what a run leaves behind: an append-only chained trace, one result | |
| `PlanningGraph` | `graph.py` and `runner.py`: one run with its failures | refines `RunRecord` |
| `BlindView` | `planner.py`, `finalize.py`, `evaluator.py`: what the model is shown, in two runs side by side | |
| `Resolver` | `resolver.py`, and the preflight of `model_backend.py` | |
| `WorkerSurfaces` | `validation.py`, what workers offer (`catalog.py`, `server.py`), observer, planner's proposal, resolver and the worker's decision in one run | instance of `Resolver` |
| `WorkerServer` | `server.py` with its fetcher and stores, for any clients | |
| `JointRuntime` | runner's materialization, observer, executor, client over several runs | extends `WorkerServer`, refines it |
| `Arrangements` | Python's `sorted` and filtering comprehensions: elements in an order | |
| `RecordOperators` | `structured.py`, `retrieval.py`, `artifacts.py`: what a worker computes of JSON records | extends `Arrangements` |
| `MediaOperators` | `media.py`: frames, clips and contact sheets | extends `RecordOperators` |
| `BenchmarkAdapters` | the pure parts of `benchmarks/*.py` | extends `Arrangements` |
| `*Proofs` | theorems about the module they extend; `JointRuntimeProofs` about `WorkerServer`, too, `AlgorithmProofs` and `CompositionProofs` about the three modules of computations | |
| `MC*` | constants for TLC; `MCAlgorithms` puts the three modules of computations under one specification | |

`PlanningGraph` and `JointRuntime` divide the controller: the first says what a
run records and in which order, with every call to a worker reduced to its
outcome; the second says what the run asks of the workers, with the run's records
left out. They meet in the phases: `EndObserve`, `EndPlan` and `EndExecute` of
the first are `Observed`, `Propose` and `ExecuteReturned` of the second. `Propose`
lets the planner bind an action to any available agent, which includes every
binding that `Resolver` returns. `WorkerSurfaces` composes the same phases once more
around `Resolver` itself, with workers that are replaced instead of
requests that are abandoned. `WorkerServer` leaves open what an operator writes;
`RecordOperators` and `MediaOperators` say what it is.

### FileArtifactStore

| Model | Code |
|---|---|
| `blob`, `metadata`, `blobTemp`, `metaTemp` | the four paths of an ID |
| `putting` | where the put under way is |
| `acked` | history: what a `put` has returned for |
| `PutExisting`, `PutNew` | the early part of `put` (`artifact_store.py:93-106`): equal, conflicting, unreadable, new |
| `WriteBlobTemp`, `WriteMetadataTemp`, `ReplaceBlob`, `ReplaceMetadata` | the four file operations (107-118) |
| `Interrupt` | a crash, or an error of a file operation, between or inside them; a torn temporary file |
| `Tamper` | a blob in `Tampered` changed or removed on disk by something else; the other properties are about the remaining IDs, `Untouched` |

A put runs in one event-loop step, so two puts of one worker do not interleave.

### PlanningGraph

`phase` is the place in `runner.run` and the graph; `awaiting` says that a node
is between its start events and its end events, `local` is the node's copy of the
event cursor, and `cursor`, `remaining`, `decisions`, `observations` and `snapshot`
are fields of `PlanningState`. `Begin(node)` is the part of a node before its
await, `End...` the part after. `Raise` is an exception anywhere in the `try`
block, after any number of the events that were due; `HandleFailure` is the
`except` clause, `ClosePlanner` the `finally` clause, `WriteTemporary` and
`ReplaceResult` are `_write_result`. `Abort` is a crash, a cancellation, or an
exception of the handler itself. `Start` refuses a directory that exists: this
is a second run under the same ID. `EngineStops` is LangGraph's recursion limit
(external: the graph passes none, so the default of the locked version 1.2.11
applies). Snapshots are numbered by the observations they reflect.

### Resolver

One state per request, one step that answers it. `ResolveAgent` and
`ResolveModel` follow the two paths of `resolve`; `ModelRequestError` is the
controller's preflight and `WorkerAccepts` the worker's (`model_backend.py:100-167`).
IDs are numbers, since the code orders them as strings.

### WorkerServer

A slot of `slots` holds one request with its handler: its stage, whether the client
still listens, and what it will answer. A handler's step runs from one await to
the next: `PutArtifact`; `FetchArtifact` and `StorePulled`, or `FetchFails`;
`ExecuteLocal` for an operator without await, `ExecuteBegins` and `ExecuteEnds` or
`BackendFails` for one that awaits ffmpeg or a model; `ExecuteRejected` for an
invalid action. `PutAll` is the last part of each: artifacts are put one by one
until one is refused, and what was put stays. `WriteFails` and `Crash` leave any
prefix of these puts, the next one perhaps split. `Close` and `Drop` are the
client's end of the connection. A content stands for bytes, media type and
checksum together. `Nested` are the IDs with a slash, which no route serves.

### JointRuntime

The controller is one of the workers' clients: each of its calls is `Ask`
followed by `Returned`, and `End` is everything that ends a run: completion,
a failed call, a timeout that closes the connection and leaves the request at
the worker, an inconsistent observation, an exception elsewhere. `Probe(w)` answers
one worker's probe of an observation; probes of one observation happen at
different times. `told` is a history variable: what responses have told this run.

### BlindView

Two runs of one task go on independently, in worlds that may differ in source
references, evaluator and gold answer; every execution may differ in its binding.
`replies` and `outputs` make the model a function of its prompt and an operator's output a
function of the actions up to it: only then may two runs be compared. `Plan` is
`decide` with its prompt (`LogicalTask`, `LogicalDecision`, `PlannerObservation`), a
completion that is not a valid decision included; `Finalize` and `Evaluate` follow.
A prompt is the record of its parts.

### WorkerSurfaces

`worker[a]` are the settings of the process behind agent `a`'s URL, or `Down`;
`Restart` replaces them at any time by others that URL may lead to. A run is
`Probe`s and `Validate`, `Materialize`, then rounds of `Probe`s, `Observe`, `Propose`,
`Resolve` (an instance of `Resolver`), `Localize` and `Execute`, where `Refusal` is what the
worker decides by its own settings. `answers` are the states of the last
probes, `validated` those of the validation: both may be out of date.

### RecordOperators and MediaOperators

A worker answers a list of requests one by one; `Execute` is the common part of
a handler (load the inputs, compute, store the output unless the ID has other
content), and each operator is one definition named after what it returns. A value
has a type and a sequence of numbers, so that `True` and `1.0` can equal 1 (Python's `==`)
and the first of them is no number. Numbers are counted in `1 / Unit`. Everything that is
computed with is made a float first (`FloatOf`, the code's `_numeric`), and all
results but a count are floats; what this rounds an int to, and what floats add up to,
are the constants `AsFloat` and `FloatSum`, of which nothing is assumed but that they
give numbers. So a sum depends on how it is grouped, as it does in the code. BM25's two
real-valued factors are the constants `InverseFrequency` and `Saturation`. In
`MediaOperators` a frame is the second it was taken at, an image its size with what
it shows, and FFmpeg and Pillow's thumbnail are external; `InputsStatus` counts the
inputs of a request and then takes them one by one, each of which may be missing or of the wrong
medium, as `_video_input` and `make_contact_sheet` do.

### BenchmarkAdapters

One sample, one step that adapts or refuses it: `SplitDocuments`,
`ConvertFixedWidth` (LongBench v2), `SegmentVideo` (Video-MME),
`PrepareFullCorpus`, `PrepareCandidates` (MultiHop-RAG), with the validity that
`assess_validity` derives. Numeric columns are parsed: `Parsed` of a text column is its
stripped text, of any other the number that it spells (`NumberAt`: the sign and the digits that
count, with their powers of ten), so that `10.50` is 10.5 and `007` is 7. A number that
no float is printed as (`FloatKeeps`, a constant) refuses the line. Times are ticks; a
document is its hash.

## 3. What the runs show

| Run | Configuration | Shows |
|---|---|---|
| `store` | 2 IDs, one of them tampered with, 2 contents, 2 media types | `ListedIdsAreReadable`, `AckedIsDurable`, `SplitIsPermanent`, `TamperingIsDetected`, refinement of `ArtifactStore` |
| `planning` | budget 2, 2 actions, limit 10, 1 placement, 1 pull per action | `ObservationsMatchDecisions`, `BudgetIsExact`, `SnapshotIsFresh`, `EngineLimitIsHarmless`, `ResultMatchesTrace`, refinement of `RunRecord` |
| `planning_ends` | limit 5 (too small), fairness | a run that the engine cuts off, or that fails anywhere, does not go on for ever: `RunEnds`. It ends with a written result, or aborted: the process died, or an exception left `run` (the handler's own, or `planner_client.close()`'s, `runner.py:163`) |
| `blind` | 2 runs, worlds that differ in one point each, 2 operators, 2 outputs, 2 bindings, budget 2 | `RunsAreBlind`: the same prompts, one for one, and the same answer |
| `resolver` | 2 agents, 3 deployments, all requests over 2 artifacts | `BindingIsAllowed`, `BindingIsOptimal`, `PreflightsAgree` |
| `surfaces` | 2 workers of seven settings each, 2 planner calls | `ValidatedWorkersDoNotRefuse`, `BoundWorkersAreNamed`, `FaithfulWorkersAreAccepted` |
| `workers` | 2 workers, any 2 requests at a time | `InFlightIsExact`, `AnswersAreTrue`, `StoresAreWriteOnce` |
| `runtime` | 2 runs of 2 tasks that reuse IDs, 2 actions each, 3 requests | `InputsAreFaithful`, `SnapshotHolds`, `ToldIsObserved`, `EvidenceIsConsistent` |
| `runtime_repeats` | 2 runs of one task, one content per ID, fairness | `RepeatsAreHarmless`, `RunsEnd` |
| `algorithms` | adapters: texts of up to 7 characters, tables of 1 or 2 columns, numerals of up to 4 characters, up to 3 chunks, up to 3 documents and 4 shards. Records: two shards of up to 2 records of 8 kinds, corpora of up to 3 documents. Media: a video of 12 seconds, sheets of up to 5 images of 3 shapes and of 31 to 65 | `DocumentsRestoreBoundaries`, `RecordsKeepTheirLine`, `SegmentsTileTheVideo`; `TopKIsTheBest`, `GroupsPartitionTheRecords`, `MatchesComeFirst`, `RequestsCompose`; `FramesKeepTheirOrder`, `SheetShowsEveryImage` |
| `frames`, `preamble` | | two places where the code departs from what is said of it, see section 6: a frame that is listed and cannot be pulled (the fetch gets 404, the pull 502), and a header that is dropped unread |

**Why the bounds are enough.** *Store:* the code of a put touches one ID, so a
second ID shows independence; two contents and media types distinguish
equal, conflicting and half-equal puts. *Planning:* with a budget of two a run can
use it up, finish early, and finish with its last call; the third round of the
loop behaves like the second. The engine limit 10 is the least that the theorem
`EngineHarmless` allows for this budget (3 * 2 + 3 < 10), and 5 cuts a run off in
its second round. *Resolver:* two agents are needed for a transfer, three
deployments for an order of deployments that differs from the order of their
hosts; windows lie on both sides of every prompt. *Surfaces:* the settings
differ from the proper ones in one point each (FFmpeg, window, modalities, missing
deployment, the other agent's, one that cannot start); two calls let a worker be
replaced before and after a round. *Blind:* a leak is a difference between two worlds
or bindings that one prompt shows; two calls let it show in the history, too.
*Workers:* the property of
interest is what two handlers do to each other at an await; a third adds no new
pair. *Runtime:* with two runs, requests that the first abandoned meet the
second; three requests at a time are two abandoned ones and the one awaited. *Repeats:*
a third run finds the same files as a second. *Records:* two
records of a shard tie, differ, miss a field or have unlike types, and a group or a
tie can span the shards; floats lose their last digits above 8, so that sums that the run
reaches depend on their grouping; three documents let a token be rare, common or absent.
*Media:* the video needs frame numbers of two digits; sheets are cut off by full
and incomplete rows, and reach the limits of inputs and of a JPEG. *Adapters:* the texts are long
enough for a delimiter to occur three times, at the start, side by side, and
overlapping itself; lines end before, inside and after each column; numerals have leading and trailing zeros,
signs and misplaced points, and some have more digits than the float of the run; chunk ends miss
their place by less, as much and more than the tolerance. Deadlock is not
checked where a run or an adaptation is over when nothing is left to do.

Every bound is a constant: `Slots`, `MaxRuns`, `MaxPlanningSteps` and `MaxActions`
(configured in the code, too), `Placements`, `MaxTransfers`. The theorems below
hold for all their values.

## 4. Fairness

- `PlanningGraph`: weak fairness of `Progress \/ Raise`. Every await of a run is an
  HTTP call with a timeout (`config.py:67`, `runner.py:90-97`) or a local
  computation, so a phase either goes on or raises. `Start` and `Abort` are not fair.
- `JointRuntime`: weak fairness of `RunNext`, the controller, alone. The
  workers and their backends may hang: `ffmpeg` is run without a timeout and a
  model server may never answer. `RunsEnd` therefore rests on the controller's own
  timeout, `End`. Weak fairness of the whole controller suffices because it cannot
  go round for ever: actions, pulls, probes and placements are bounded by the budget
  and the task (theorem `RunsRunOut`).

## 5. Proofs

All theorems hold for every value of the constants that satisfies the named
assumptions, which say that the special values are no members of the sets they
are added to (`ValuesAreDistinct`, `MissingAssumption`, `NoValuesAssumption`,
`FreeIsNoHandler`, `FinishIsNoAction`, `NoResultIsNoRecord`, `NobodyIsDown`) and give
constants their types (`EnvironmentAssumption`, `ArtifactsAssumption`, `ProposalsAssumption`,
`MediaAssumption`, `RecordAssumption`, `SegmentationsAssumption` and the like: what the
contracts of the code let through). TLC evaluates each of them on a run.

**FileArtifactStoreProofs.** `IInv` adds to the types that a metadata file
describes the blob beside it (`PairsAreWhole`), how far the put under way has
come (`PutInProgress`) and that what was acknowledged is in the metadata
(`AckedIsStored`). The properties alone are not inductive: that the final rename
completes a matching pair is only known from the put's temporary files. From it:
`TypeCorrect`, `ListedReadable`, `AckedDurable`, `TamperingDetected`, `SplitPermanent` and
`Implements` (the visible content is the metadata; only `ReplaceMetadata` changes it).

**PlanningGraphProofs.** `Control` says for each phase how long the lists are
(`Position`), that they agree (`Aligned`), and how many supersteps were
started (`Pace`: three per round). From it: `ObservationsMatch`, `BudgetExact`,
`SnapshotFresh`, and `EngineHarmless`, which assumes
`RecursionLimit > 3 * MaxPlanningSteps + 3`.

`TraceInv` adds the files: outside an await the graph
state's cursor is the end of the trace, during an await the node's local one is
(`Cursors`), and how the trace ends in each phase (`Openness`). The handler
computes its cursor from the file, so the chain survives a stop after
any number of the events that were due (`StoppedIsEmitted`). From it: `TypeCorrect`,
`TraceChained` (which no run checks by itself: `RunRecord` contains it) and `Implements`.
`CountInv` adds the numbers: between two awaits the trace holds one start and one end for
every planner call and every execution, and one transfer event for every pull and
placement (`Tallies`; a call at its await has started and not ended). A step that appends
a stretch of events raises each count by what the stretch holds (`CountSteps`), and the
transfers of a history add up (`PullsGrow`). The outcome and the result repeat the tallies
(`Tells`), and the trace is not written after the result. From it: `ResultMatches`.

`StepsRunOut`: `StepsLeft`, a number computed of phase, budget and placements, is at first
`6 * MaxPlanningSteps + Placements + 15`, never negative, and lowered by every step (a round
of the loop takes six, and each lowers the budget). So nothing goes round for ever under
a run ID, whatever the engine's limit: of `RunEnds` this leaves open only that
each step is made, which is the fairness of section 4.

**JointRuntimeProofs, the workers** (for any clients). The invariant is `WorkersTypeOK /\ InFlightIsExact`; each
action keeps, raises or lowers the set of running operators by the slot it serves
(`InFlightSame`, `InFlightUp`, `InFlightDown`). Every step also keeps what is
stored (`AfterFiles`, `TornFiles`), which gives `WriteOnce`, and with it
`Acknowledged`. `WritesAreDistinct` is assumed: within one handler no ID is
written twice (frames are numbered, other operators write one artifact).

**JointRuntimeProofs, the controller.** `JointImplementsWorkers` shows that every step of the
composed system is a step of `WorkerServer` or leaves the workers alone, so that
the workers' guarantees carry over. `JInv` adds what the controller knows: its
awaited request is open (`WaitIsServed`), the awaited pull is the next one
(`PullMatches`), inputs already pulled are in place (`Localized`), the snapshot
and everything told are stored (`SnapshotHolds`, `ToldIsStored`), and what was
told agrees with the snapshot of the phase (`ToldIsReported`, `ToldAgrees`). That
nothing is ever replaced carries each of them over the steps of other requests.
From it: `JointTypeCorrect`, `SnapshotsHold`, `InputsFaithful`, `ToldObserved`,
`EvidenceConsistent`, and `DivergencePermanent`: replicas that differ do so for ever,
as `StoresAreWriteOnce` has it. `RepeatsHarmless` needs a second invariant beside
it, `RepeatsInv`, under the property's own condition `OneContentPerId`: every content in
a store, in a request and in what is left of a task is one of `Writes`, and the
store behind a refusal holds a split pair (`RefusalIsSplit`); a pulled artifact is
one of `Writes` because the snapshot that named it holds. `RunsRunOut` is the argument
behind weak fairness of the whole controller: with finitely many workers, each step of a
run lowers the actions left, or the phase's rank in a round, or the calls left in the phase
(placements, pulls, probes; a call that is to be sent counts for more than one awaited),
compared in this order, and steps of the workers change none of them.

**ResolverProofs.** An answer is always `Resolve` of the request. `CheapestIsLeast`
finds the least cost and the least ID among those that have it (a set of natural numbers
has a least element), which makes the `CHOOSE` of the ranking what the code's sort
puts first: `BindingAllowed`. Both preflights are folds over the inputs. That a
fold computes the sum is shown by hand: from a least index at which it
would not, with the function of all prefixes as witness (`FoldExtends`, `FoldExists`,
`FoldTotals`). So the two preflights add up the same numbers and decide alike
(`PreflightsMatch`), which gives `PreflightsAgreed` and, for requests of models,
`BindingOptimal`, neither with any assumption about the preflights.

**BlindViewProofs.** `BlindInv` says that every prompt is the view of what came
before it (`PromptsAreViews`), every decision the model's reply (`DecisionsAreReplies`),
every observation the actions' output (`ObservationsAreOutputs`), how far the three
lists go (`Progress`, `Kinds`), and that two runs agree on the prompts both have
been sent (`SamePrompts`). That the next prompt is the same (`SameNextPrompt`) follows
from the earlier ones alone: equal prompts were answered equally, so equal actions
were executed with equal outputs, and the view keeps nothing else. From it: `Blind`.

**WorkerSurfacesProofs.** `SurfacesInv` says what each stage knows: an answer
that an agent is available by names it (`Probes`), what was validated matches the
environment (`ValidatedMatch`), a proposal describes the artifacts as they are
(`ProposalKnown`), and what was bound fits an agent that was available
(`BindingKnown`, from `BindingFits`, that the resolver's answer is one of its
candidates). From it: `BoundAreNamed`, `FaithfulAccepted`, and
`ValidatedDoNotRefuse`. That the runtime's and the worker's sums over the same inputs are
one number (`ChargesAgree`) comes from the lemmas of `ResolverProofs`, of which the module has
an instance. Of the
environment it uses what its contracts enforce (`EnvironmentAssumption`: positive
IDs, hosts that are agents, deployments that take text, `ij/core/state.py:27`).

**AlgorithmProofs.** Seven computations, for every input.

- *Frames and sheets.* `MediaInv` says that what a request has read is still there, and
  that what it has written is what its operator computes of it (`Framed`, `Sheeted`); that
  nothing is overwritten carries both over the later requests. `FramesKept`: names of
  six digits, compared as strings, are ordered as the numbers they spell
  (`DigitsDecide`, `NamesInOrder`), so the sorted file names are those of 1, 2, ...
  (`NamesAreSorted`). `SheetsComplete`: a thumbnail fits its cell (`ThumbnailFits`), what
  is centred in a cell stays in it, cells are apart and lie in rows from left to right
  (`CellOf`, `CellOrder`), and the sheet is as high as its rows (`SheetGeometry`).
- *Documents.* Going through the text from the left (`MatchesGrow`), the matches
  stay apart and every other occurrence overlaps one of them (`FoundNext`, `MatchesFound`),
  also of a delimiter that overlaps itself. The documents cut the text where the matches
  begin (`StartsDivide`), so that they are the text again (`PartsOfText`), and an occurrence in
  a document is one in the text (`DelimiterInPart`), therefore covered by the match
  that the document starts with (`DocumentsApart`). From it: `DocumentsRestored`.
- *Tables.* The validator compares neighbours in the order of the columns' starts; by
  the arrangement of the rankings, below, that makes all pairs of columns disjoint
  (`ColumnsApart`), and as many names as columns means different names (`NamesDiffer`). A
  stripped field has the characters of its column, shifted (`StripShifts`,
  `FieldShifts`), so going from a character outside the numeric columns to its column's
  name and its place in the text is a bijection for a line that the columns cover
  (`RecordKeepsWords`). What a text spells does not depend on where it stands
  (`NumberShifts`): a numeric column's value is the number of the characters in its
  interval (`RecordKeepsNumbers`). From both: `RecordsKept`.
- *Manifests.* `SegmentsTile`: every instant lies between two of the places
  where chunks should begin (division with a remainder); if it is further than the
  tolerance from both, the chunk of that number has it and no other does (`OneChunk`). The
  property's condition `2 * Tolerance <= interval` is needed for the order alone
  (`ChunksInOrder`): with a shorter interval two starts may change places.
- *Groups.* `RecordInv` is for JSON records what `MediaInv` is for media. The heads of the
  groups, listed in order, are a bijection (`ListedInOrder`), every record has one head
  (`OneStart`), and a row keeps its head's key because the aggregations write other fields
  (`RowOfGroup`, under the property's own condition `Separate`). From it: `GroupsPartition`.
- *Rankings.* A strict total order of a finite set has one arrangement: the number of
  elements before each is a bijection onto the ranks (`RanksAreNumbers`, `Arranged`). That
  `Precedes` is such an order needs values to be sequences of numbers, whichever operators
  wrote them: `RecordsAreTyped`, kept by all seven operators (`RecordNextKeepsTypes`; through
  products, quotients, folded derivations, aggregations and scores). From it: `TopKBest`.
- *Retrieval.* A score is a sum of gains, positive where a token of the query
  occurs (`TotalIsPositive`, `ScoreIsPositive`), so only matches are before a
  match, and all matches and the earlier non-matches are before a non-match
  (`MatchesCounted`); with the arrangement of the rankings: `MatchesFirst`. It and
  `TopKBest` have two hypotheses. `ScoresArePositive`: the two factors of BM25's formula
  (`ij/operators/retrieval.py:46-51`) are positive. The logarithm is of
  `1 + (n - c + 0.5) / (c + 0.5)` with `c <= n`, so more than 1. `FloatsAreNumbers`:
  `AsFloat` and `FloatSum` give numbers, that is, nothing overflows.

**CompositionProofs.** `RequestsComposed`, about any requests of a list that ask of a
whole what others ask of its parts, and about derivations one after the other. The
property relates answers that lie several requests apart; what makes it inductive is
`HonestAnswers`: every answer so far, refusals included, still says the truth of the
store (`Honest`: a success lists what the operator computes of inputs that are still
there, a refusal names a reason that still holds). That nothing is overwritten carries it
over later requests (`HonestStays`). The rest is about the computations:

- what is kept of two sequences, one after the other, is what is kept of each
  (`FilteredJoined`, `SelectedJoined`, `DerivedJoined`); a fold over several derivations
  is the fold over the rest of what the first ones made (`DerivationsJoined`,
  `DerivationsConclude`);
- the best of the whole are the best among the best of the parts: a record that is left
  out of a part has `k` better ones there, and ties keep their order because the first
  part comes first (`TopKJoined`);
- the groups of the whole are the groups of the parts' rows, in the order of their first
  record, and the least and the greatest value of a group are those of its parts' least and
  greatest (`AggregatesJoined`); it fails when that fails (`AggregatesFit`). `Mergeable`
  leaves out what does not compose in the program: sums and averages, since floats added up
  in another grouping may be another float; counts, since counts added up are a
  float (`3.0`, where the whole has `3`); fields that two aggregations write; and the one
  row that stands for no record at all.

It has the hypotheses of `TopKBest`, for the same reason: scores are among the values.

**Only model-checked.** Liveness (`RunEnds`, `RunsEnd`), which is out of the
prover's reach: proved is that steps run out (`StepsRunOut`, `RunsRunOut`), not that they
are made. Every other property of a passing run is stated by a theorem.

## 6. Where the code departs from what is said of it

- **`frames`**: `sample_frames` names its outputs `prefix/frame-000001.jpg`
  (`ij/operators/media.py:279`). They are listed by `/state` and located by the
  resolver, but the route `/artifact/{artifact_id}` (`ij/worker/server.py:171`)
  matches one path segment, and the `%2F` of the client (`ij/runtime/client.py:56`)
  is decoded before it: a frame cannot be pulled to another worker, though
  `README.md:16` promises worker-to-worker pulls.
- **`preamble`**: with `header_lines` above 1 the fixed-width conversion
  never reads the lines before the last header line
  (`ij/benchmarks/longbench_v2.py:229`), and still records
  `information_preserved` and the setting `official_equivalent`; unmapped text on any
  other line is rejected. With `header_lines` 0 or 1 the property holds.

The models agree with the code on these points, too, where it departs from a
document or may surprise; no run is about them, since one step shows each.

- A worker whose probe failed is reported with `in_flight` 0
  (`ij/infrastructure/observer.py:67`; the field cannot be `None`,
  `ij/core/state.py:79`), though `README.md:77` says that unknown measurements
  remain `None`. The worker may be running abandoned operators.
- Two workers whose URLs are swapped pass `validate_worker_surfaces`, which tells
  states apart by the agent they name (`ij/infrastructure/validation.py:24`); the
  observer then finds neither available (`observer.py:50`), after the task's artifacts
  have been put on the wrong one. `Materialize` of `WorkerSurfaces` does so.
- A worker registers every operator but the FFmpeg ones unconditionally
  (`ij/worker/server.py:138-143`), and validation compares exact sets: an agent
  without the capability `model`, `structured`, `retrieval` or `media.image` can never
  be validated. `Faithful` has these four as a condition.
- `max_read_artifact_bytes` (`server.py:119`) is in no surface: validation cannot see
  that a worker will refuse every `read_artifact`.
- `decide` accepts `read_artifact` (`ij/planning/planner.py:154`), which the prompt does
  not offer; `docs/m4-clean-blind-smoke-audit.md:57` says that it is hidden.
- A contact sheet of legal arguments can be larger than a JPEG may be
  (`ij/operators/media.py:344`); the error is none of the handler's typed ones. A sheet
  takes 64 images where `sample_frames` makes up to 128.
- `contains` on a string field with an expected value that is no string raises a
  `TypeError` (`ij/operators/structured.py:115`), answered as an internal error.
- BM25's document frequencies are those of the artifact that is searched
  (`ij/operators/retrieval.py:37`): scores from two shards cannot be compared, though
  `top_k_records` ranks them together. `RequestsCompose` is not about `bm25_retrieve`.
- Sums and counts of shards cannot be merged exactly: `_numeric` makes floats of
  what it reads (`ij/operators/structured.py:134`), a sum of floats depends on its order,
  and merging counts gives `3.0` where counting everything gives `3` (139). A worker
  that has the one under an ID refuses the other as different content. With `sum` among the
  operations of `Mergeable` the run `algorithms` refutes `RequestsCompose`.

## 7. Hazards

`PROJECT.json` lists them at their lines. The ones that shaped the models: a
crash between the two renames of a put, after which the ID can never be written
again (`SplitIsPermanent`); snapshots that are older than the LLM call whose action
they are used for; abandoned executions whose outputs appear in a later run;
artifact IDs that are reused by different tasks on persistent write-once stores,
after which every observation that reaches both workers fails for good
(`EvidenceIsConsistent`, theorem `DivergencePermanent`); the failure handler that has to chain its event to a
trace the graph state no longer matches; workers that are replaced while they are
validated or observed (`ValidatedWorkersDoNotRefuse`, `BoundWorkersAreNamed`); a result
object that the prompt shows whole (`RunsAreBlind`); reductions of shards that do
not give what the reduction of the whole gives (`RequestsCompose`). Three of those listed
have no property and a note why: a load that was not measured, `contains` above, and a
`planner_client.close()` that raises before the result is written. The last is in the
model (`Abort` in the phase `close`), so `RunEnds` and the refinement of `RunRecord` admit it:
a completed run may then leave its trace and no result.

## 8. Not modelled

- Prompt texts, the JSON syntax of model output, wording of errors: text processing.
- Decoding of video and images, HTTP routing inside Starlette, and LangGraph's
  scheduler: external. The models contain what the code relies on: one path
  segment per route parameter, a superstep limit, FFmpeg's numbered files.
- Most of floating-point arithmetic: an int that becomes a float and a sum of floats are any
  number (`AsFloat`, `FloatSum`); products, quotients, averages and BM25's scores are
  cut to the fixed unit instead of rounded. NaN, infinity, `-0.0` and ints too large for a
  float (an untyped error) are left out. No claim compares such results across groupings, other than for
  the least and the greatest of values, which are not computed but chosen; that
  derivations chain holds of any function of the values, since one float is stored and read
  back as itself.
- Exponents and underscores in the decimals of a fixed-width table, which `Decimal` reads,
  too; which decimals a float keeps is the constant `FloatKeeps`.
- The model backend's HTTP request (one call without state; its outcome is the
  reply or failure in `PlanningGraph`, `WorkerServer` and `BlindView`; the OpenAI client
  may have sent it more than once by then), the token-count service, and the adapters'
  private evaluators, which compare strings.
- Loading of YAML, command-line arguments and the validators of the contracts:
  start-up and types. Ranges of contracts appear as the ranges of constants and
  inputs; a deployment's own checks are `Valid` in `WorkerSurfaces`.
- A torn last line of the trace is not distinguished from an event that was not
  written: nothing reads the trace after a crash.

## 9. Plan

Done, in the order of importance: store, planning loop, resolver, workers, their
composition, adapters, worker surfaces, blind view, operators; theorems for
all stateful modules and for documents, tables, manifests, frames, sheets, groups,
rankings, retrieval and the merging of reductions. Next:

1. *Compose:* `Propose` of `JointRuntime` with `Resolver`'s binding instead of any
   agent, as `WorkerSurfaces` has it.
2. *Prove:* the refinement of the composed system's runs by `PlanningGraph`.
3. *Model:* the model backend's request with its failures, and the repetitions of the
   client below it.
