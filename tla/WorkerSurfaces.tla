---------------------------- MODULE WorkerSurfaces ----------------------------
(***************************************************************************)
(* What the controller believes of its workers and what they are: worker and *)
(* environment configuration (config.py, core/state.py, cli.py), the surface *)
(* a worker offers (worker/server.py), its validation at the start of a run  *)
(* (infrastructure/validation.py), the observer's view of it, the planner's  *)
(* proposal and the resolver's binding, up to the worker's own decision.     *)
(*                                                                           *)
(* A worker is named by the agent whose URL leads to it; the agent ID it was *)
(* configured with may be another. It may be restarted with other settings   *)
(* at any time. Artifacts are written once and survive (FileArtifactStore).  *)
(***************************************************************************)
EXTENDS Integers, Sequences, FiniteSets, TLC, SequencesExt

CONSTANTS
  Agents,           \* agent IDs of EnvironmentSpec, and of worker_urls
  CapabilitiesOf,   \* agent -> set of capabilities
  Deployments,      \* deployment IDs of EnvironmentSpec
  Host,             \* deployment -> its agent
  Contract,         \* deployment -> [model, modalities, window, reserved, image_cost]
  Artifacts,        \* artifact -> [media, size]
  Placements,       \* pairs of an artifact and the agent it is materialized on
  Settings,         \* agent -> the worker configurations its URL may lead to
  Proposals,        \* actions of the planner's model: [operator, inputs, prompt's size]
  Steps,            \* max_planning_steps
  Down,             \* no process answers
  None

ASSUME EnvironmentAssumption ==
  /\ Agents \subseteq Nat \ {0}
  /\ Deployments \subseteq Nat \ {0}
  /\ Host \in [Deployments -> Agents]
  /\ \A d \in Deployments :
       /\ "text" \in Contract[d].modalities
       /\ {Contract[d].window, Contract[d].reserved, Contract[d].image_cost} \subseteq Nat

ASSUME ArtifactsAssumption ==
  \A id \in DOMAIN Artifacts :
    Artifacts[id].media \in {"text", "image", "other"} /\ Artifacts[id].size \in Nat

ASSUME ProposalsAssumption ==
  \A p \in Proposals : p.inputs \in Seq(Range(p.inputs)) /\ p.prompt \in Nat

ASSUME NobodyIsDown == None # Down

VARIABLES
  worker,     \* agent -> the settings of the process behind its URL
  held,       \* agent -> the artifacts that worker holds
  stage,      \* what the run does next
  answers,    \* the /state responses of the probes under way or last made
  validated,  \* agent ID -> the state validate_worker_surfaces accepted for it
  proposal,   \* the planner's action, as the resolver sees it
  binding,    \* the resolver's answer
  last,       \* the last execution: who was asked, and the refusal
  steps       \* planner calls

vars == <<worker, held, stage, answers, validated, proposal, binding, last, steps>>

R == INSTANCE Resolver WITH
       Modalities <- [d \in Deployments |-> Contract[d].modalities],
       Window <- [d \in Deployments |-> Contract[d].window],
       Reserved <- [d \in Deployments |-> Contract[d].reserved],
       ImageCost <- [d \in Deployments |-> Contract[d].image_cost],
       Requests <- {}, request <- proposal, answer <- binding

-----------------------------------------------------------------------------
(* The catalog, and what a worker registers of it. *)

Structured ==
  {"filter_records", "select_fields", "derive_fields", "aggregate_records", "top_k_records",
   "aggregate_artifacts"}

Catalog ==
  Structured \cup {"invoke_model", "read_artifact", "bm25_retrieve", "make_contact_sheet",
                   "sample_frames", "extract_clip"}

Requirements ==
  [operator \in Catalog |->
     CASE operator \in Structured -> {"structured"}
       [] operator = "invoke_model" -> {"model"}
       [] operator = "read_artifact" -> {}
       [] operator = "bm25_retrieve" -> {"retrieval"}
       [] operator = "make_contact_sheet" -> {"media.image"}
       [] operator \in {"sample_frames", "extract_clip"} -> {"media.ffmpeg"}]

Offered(settings) ==
  Structured \cup {"invoke_model", "read_artifact", "bm25_retrieve", "make_contact_sheet"}
    \cup IF settings.ffmpeg THEN {"sample_frames", "extract_clip"} ELSE {}

\* ModelDeployment's checks: a worker with a deployment that fails one does not start.
Valid(contract) ==
  /\ "text" \in contract.modalities
  /\ contract.reserved \in 1..(contract.window - 1)
  /\ contract.image_cost >= 1

Started(settings) ==
  IF settings # Down /\ \A d \in DOMAIN settings.deployments : Valid(settings.deployments[d])
  THEN settings ELSE Down

-----------------------------------------------------------------------------
(* validate_worker_surfaces. States are told apart by the agent ID they name. *)

Named(agent) == {client \in Agents : answers[client] # Down /\ answers[client].agent = agent}

ByAgent == [agent \in Agents |-> answers[CHOOSE client \in Named(agent) : TRUE]]

\* Mutant: an operator that requires nothing is expected nowhere.
ExpectedOperatorsByOverlap(agent) ==
  {operator \in Catalog : Requirements[operator] \cap CapabilitiesOf[agent] # {}}

ExpectedOperators(agent) ==
  {operator \in Catalog : Requirements[operator] \subseteq CapabilitiesOf[agent]}

\* Mutant: the context window is not compared.
ContractMatchesButWindow(actual, expected) == [actual EXCEPT !.window = expected.window] = expected

ContractMatches(actual, expected) == actual = expected

SurfaceMatches(agent, state) ==
  /\ Offered(state) = ExpectedOperators(agent)
  /\ DOMAIN state.deployments = {d \in Deployments : Host[d] = agent}
  /\ \A d \in DOMAIN state.deployments : ContractMatches(state.deployments[d], Contract[d])

-----------------------------------------------------------------------------
(* LiveWorkerObserver.observe. *)

\* Mutant: any answer makes a worker available.
AvailableByAnswer(agent) == answers[agent] # Down

Available(agent) == answers[agent] # Down /\ answers[agent].agent = agent

\* The snapshot's part of a request to the resolver.
Locations(artifact) == {agent \in Agents : Available(agent) /\ artifact \in held[agent]}

ObservedArtifacts ==
  [artifact \in {id \in DOMAIN Artifacts : Locations(id) # {}} |->
     [locations |-> Locations(artifact), media |-> Artifacts[artifact].media,
      size |-> Artifacts[artifact].size]]

ObservedDeployments ==
  {d \in Deployments : Available(Host[d]) /\ d \in DOMAIN answers[Host[d]].deployments}

-----------------------------------------------------------------------------
Nobody == [agent \in Agents |-> None]

Init ==
  /\ worker \in [Agents -> UNION {Settings[agent] : agent \in Agents}]
  /\ \A agent \in Agents : worker[agent] \in {Started(settings) : settings \in Settings[agent]}
  /\ held = [agent \in Agents |-> {}]
  /\ stage = "validate"
  /\ answers = Nobody
  /\ validated = Nobody
  /\ proposal = None
  /\ binding = None
  /\ last = None
  /\ steps = 0

Restart(agent) ==
  /\ \E settings \in Settings[agent] : worker' = [worker EXCEPT ![agent] = Started(settings)]
  /\ UNCHANGED <<held, stage, answers, validated, proposal, binding, last, steps>>

\* One GET /state of a gather. Validation does not survive one that fails.
Probe(agent) ==
  /\ stage \in {"validate", "observe"}
  /\ answers[agent] = None
  /\ answers' = [answers EXCEPT ![agent] = worker[agent]]
  /\ stage' = IF stage = "validate" /\ worker[agent] = Down THEN "failed" ELSE stage
  /\ UNCHANGED <<worker, held, validated, proposal, binding, last, steps>>

Answered == \A agent \in Agents : answers[agent] # None

Validate ==
  /\ stage = "validate"
  /\ Answered
  /\ IF \A agent \in Agents : Named(agent) # {} /\ SurfaceMatches(agent, ByAgent[agent])
     THEN stage' = "materialize" /\ validated' = ByAgent
     ELSE stage' = "surface_mismatch" /\ UNCHANGED validated
  /\ UNCHANGED <<worker, held, answers, proposal, binding, last, steps>>

\* Materialization puts each placement to the worker behind the agent's URL.
Materialize ==
  /\ stage = "materialize"
  /\ \E placement \in Placements :
       /\ placement[1] \notin held[placement[2]]
       /\ IF worker[placement[2]] = Down
          THEN stage' = "failed" /\ UNCHANGED held
          ELSE /\ held' = [held EXCEPT ![placement[2]] = @ \cup {placement[1]}]
               /\ UNCHANGED stage
  /\ UNCHANGED <<worker, answers, validated, proposal, binding, last, steps>>

Materialized ==
  /\ stage = "materialize"
  /\ \A placement \in Placements : placement[1] \in held[placement[2]]
  /\ stage' = "observe"
  /\ answers' = Nobody
  /\ UNCHANGED <<worker, held, validated, proposal, binding, last, steps>>

Observe ==
  /\ stage = "observe"
  /\ Answered
  /\ stage' = IF steps < Steps THEN "plan" ELSE "finished"
  /\ last' = None
  /\ UNCHANGED <<worker, held, answers, validated, proposal, binding, steps>>

\* decide: a finish, text that is no valid decision, or an action of the catalog
\* (read_artifact too, though the prompt does not list it), always AUTO.
Finish ==
  /\ stage = "plan"
  /\ stage' \in {"finished", "planner_error"}
  /\ steps' = steps + 1
  /\ UNCHANGED <<worker, held, answers, validated, proposal, binding, last>>

Propose ==
  /\ stage = "plan"
  /\ \E p \in {q \in Proposals : q.operator \in Catalog} :
       proposal' =
         [operator |-> p.operator, policy |-> "auto", target |-> R!NoId, inputs |-> p.inputs,
          required |-> Requirements[p.operator], prompt |-> p.prompt,
          agents |-> {agent \in Agents : Available(agent)},
          deployments |-> ObservedDeployments, artifacts |-> ObservedArtifacts]
  /\ stage' = "resolve"
  /\ steps' = steps + 1
  /\ UNCHANGED <<worker, held, answers, validated, binding, last>>

Resolve ==
  /\ stage = "resolve"
  /\ binding' = R!Resolve(proposal)
  /\ stage' = IF binding'.error = "none" THEN "localize" ELSE "failed"
  /\ UNCHANGED <<worker, held, answers, validated, proposal, last, steps>>

\* Every input the snapshot does not locate there is pulled from a worker that
\* has it (JointRuntime has the pulls one by one).
Localize ==
  /\ stage = "localize"
  /\ \/ /\ worker[binding.agent] # Down
        /\ held' = [held EXCEPT ![binding.agent] = @ \cup Range(proposal.inputs)]
        /\ stage' = "execute"
     \/ stage' = "failed" /\ UNCHANGED held
  /\ UNCHANGED <<worker, answers, validated, proposal, binding, last, steps>>

-----------------------------------------------------------------------------
(* The worker's own decision, by what it was started with. *)

Tokens(contract, id) ==
  IF Artifacts[id].media = "image" THEN contract.image_cost ELSE Artifacts[id].size

Charge(contract, request) ==
  request.prompt + R!Total(0, [i \in 1..Len(request.inputs) |-> Tokens(contract, request.inputs[i])])

Refusal(settings, request, deployment) ==
  IF request.operator \notin Offered(settings) THEN "unknown_operator"
  ELSE IF request.operator # "invoke_model"
  THEN IF deployment = R!NoId THEN "none" ELSE "validation_failed"
  ELSE IF deployment \notin DOMAIN settings.deployments THEN "deployment_required"
  ELSE LET contract == settings.deployments[deployment]
       IN  IF \E id \in Range(request.inputs) : Artifacts[id].media \notin contract.modalities
           THEN "unsupported_modality"
           ELSE IF Charge(contract, request) + contract.reserved > contract.window THEN "context_limit_exceeded"
           ELSE "none"

\* An operator that is not refused may still fail, of its contents; read_artifact
\* also of a limit that is in no surface (max_read_artifact_bytes).
Execute ==
  /\ stage = "execute"
  /\ LET asked == worker[binding.agent]
         refusal == IF asked = Down THEN "unreachable"
                    ELSE Refusal(asked, proposal, binding.deployment)
     IN /\ last' = [agent |-> binding.agent, observed |-> answers[binding.agent],
                     settings |-> asked, refusal |-> refusal]
        /\ stage' \in IF refusal = "none" THEN {"observe", "failed"} ELSE {"failed"}
  /\ answers' = Nobody
  /\ proposal' = None
  /\ binding' = None
  /\ UNCHANGED <<worker, held, validated, steps>>

Next ==
  \/ \E agent \in Agents : Restart(agent) \/ Probe(agent)
  \/ Validate \/ Materialize \/ Materialized \/ Observe
  \/ Finish \/ Propose \/ Resolve \/ Localize \/ Execute

Spec == Init /\ [][Next]_vars

-----------------------------------------------------------------------------
\* What was validated is enough: a worker that still is what it said it was takes
\* every request the run binds to it. No operator is unknown there, no deployment
\* missing, and no model request that passed the runtime's preflight fails the
\* worker's (validation.py:36-67, resolver.py:158-199, server.py:226-285).
ValidatedWorkersDoNotRefuse ==
  last # None /\ last.settings = validated[last.agent] => last.refusal = "none"

\* No operator is sent to a worker that goes by another name than the agent it was
\* bound to, unless it was replaced since it was last observed. Validation does
\* not see to that: it accepts two workers whose URLs are swapped
\* (observer.py:49-50, 88-100, resolver.py:53-58).
BoundWorkersAreNamed ==
  last # None /\ last.settings = last.observed /\ last.settings # Down =>
    last.settings.agent = last.agent

\* The configuration that an agent of EnvironmentSpec calls for.
Faithful(agent, settings) ==
  /\ settings.agent = agent
  /\ {"model", "structured", "retrieval", "media.image"} \subseteq CapabilitiesOf[agent]
  /\ settings.ffmpeg <=> "media.ffmpeg" \in CapabilitiesOf[agent]
  /\ settings.deployments = [d \in {e \in Deployments : Host[e] = agent} |-> Contract[d]]

\* A run refuses to start over a mismatch only if there is one
\* (validation.py:24-67, server.py:138-143, catalog.py:12-25).
FaithfulWorkersAreAccepted ==
  stage = "surface_mismatch" => \E agent \in Agents : ~Faithful(agent, answers[agent])
=============================================================================
