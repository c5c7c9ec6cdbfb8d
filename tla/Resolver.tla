------------------------------- MODULE Resolver -------------------------------
(***************************************************************************)
(* DeterministicResolver (src/infra_joint/runtime/resolver.py): from the    *)
(* planner's physical decision, the operator's requirements and a snapshot  *)
(* of the infrastructure to an agent, and a deployment for model operators. *)
(* Agent and deployment IDs are numbers: the code orders them as strings.   *)
(***************************************************************************)
EXTENDS Integers, Sequences, FiniteSets, SequencesExt

CONSTANTS
  Agents,           \* agent IDs of the environment
  CapabilitiesOf,   \* agent -> set of capabilities
  Deployments,      \* deployment IDs of the environment
  Host,             \* deployment -> its agent
  Modalities,       \* deployment -> "text" and perhaps "image"
  Window,           \* deployment -> context window
  Reserved,         \* deployment -> reserved output tokens
  ImageCost,        \* deployment -> tokens an image is charged
  Requests          \* the inputs of resolve that are considered

NoId == 0

ASSUME EnvironmentAssumption ==
  /\ Agents \subseteq Nat \ {NoId}
  /\ Deployments \subseteq Nat \ {NoId}
  /\ Host \in [Deployments -> Agents]
  /\ \A d \in Deployments : /\ "text" \in Modalities[d]
                            /\ {Window[d], Reserved[d], ImageCost[d]} \subseteq Nat

ASSUME RequestsAssumption ==
  \A r \in Requests :
    /\ r.inputs \in Seq(Range(r.inputs))
    /\ r.prompt \in Nat
    /\ \A id \in DOMAIN r.artifacts :
         /\ r.artifacts[id].media \in {"text", "undecodable", "image", "other", "unknown"}
         /\ r.artifacts[id].size \in Nat
    /\ r.policy \in {"auto", "data_local", "target_agent", "target_deployment"}
    /\ r.policy \in {"target_agent", "target_deployment"} => r.target # NoId

\* A request: the policy with its target; the operator's capability requirements;
\* the input artifacts (an ID may occur twice) and the size of the prompt; and
\* from the snapshot, the available agents and deployments and the artifacts with
\* their locations, media class ("text", "undecodable" text, "image", "other" or
\* "unknown") and size.
VARIABLES request, answer

vars == <<request, answer>>

Bind(agent, deployment) == [error |-> "none", agent |-> agent, deployment |-> deployment]
Reject(code) == [error |-> code, agent |-> NoId, deployment |-> NoId]
Unanswered == Reject("unanswered")

-----------------------------------------------------------------------------
Observed(r) == DOMAIN r.artifacts
Located(agent, r, artifact) == agent \in r.artifacts[artifact].locations
Inputs(r) == Range(r.inputs)

\* An input that is named twice counts, and is pulled, twice.
Transfers(agent, r) ==
  Cardinality({i \in 1..Len(r.inputs) : ~Located(agent, r, r.inputs[i])})

FeasibleAgents(r) ==
  {agent \in r.agents \cap Agents : r.required \subseteq CapabilitiesOf[agent]}

DataLocal(agent, r) == \A artifact \in Inputs(r) : Located(agent, r, artifact)

\* Mutant: the first element in the order of IDs.
CheapestById(ids, cost) == CHOOSE id \in ids : \A other \in ids : id <= other

\* The first element in the order of (cost, ID).
Cheapest(ids, cost) ==
  CHOOSE id \in ids : \A other \in ids :
    cost[id] < cost[other] \/ (cost[id] = cost[other] /\ id <= other)

-----------------------------------------------------------------------------
\* The runtime's preflight of one deployment: the first input it cannot take
\* decides, and then the context window.
ArtifactError(deployment, artifact) ==
  CASE artifact.media = "unknown" -> "infeasible_binding"
    [] artifact.media = "image" /\ "image" \notin Modalities[deployment] -> "unsupported_modality"
    [] artifact.media = "other" -> "unsupported_modality"
    [] OTHER -> "none"

Tokens(deployment, artifact) ==
  IF artifact.media = "image" THEN ImageCost[deployment] ELSE artifact.size

Total(start, charges) == FoldLeft(LAMBDA sum, charge : sum + charge, start, charges)

Charges(deployment, r) ==
  [i \in 1..Len(r.inputs) |-> Tokens(deployment, r.artifacts[r.inputs[i]])]

\* A sum that starts at the prompt's size.
Estimate(deployment, r) == Total(r.prompt, Charges(deployment, r))

\* Mutant: the reserved output tokens are forgotten.
ModelRequestErrorUnreserved(deployment, r) ==
  IF Estimate(deployment, r) > Window[deployment] THEN "context_limit_exceeded" ELSE "none"

ModelRequestError(deployment, r) ==
  LET error == [i \in 1..Len(r.inputs) |-> ArtifactError(deployment, r.artifacts[r.inputs[i]])]
      failing == {i \in 1..Len(r.inputs) : error[i] # "none"}
  IN IF failing # {} THEN error[CHOOSE i \in failing : \A j \in failing : i <= j]
     ELSE IF Estimate(deployment, r) + Reserved[deployment] > Window[deployment]
       THEN "context_limit_exceeded"
     ELSE "none"

\* The preflight a worker makes of the same request before it calls the model
\* (model_backend.py:141-167): all media classes first, then one sum, on the
\* contents themselves.
WorkerAccepts(deployment, r) ==
  /\ {r.artifacts[id].media : id \in Inputs(r)} \subseteq Modalities[deployment] \cap {"text", "image"}
  /\ "text" \in Modalities[deployment]
  /\ r.prompt + Total(0, Charges(deployment, r)) + Reserved[deployment] <= Window[deployment]

-----------------------------------------------------------------------------
PolicyAllows(deployment, r) ==
  CASE r.policy = "target_deployment" -> deployment = r.target
    [] r.policy = "target_agent"      -> Host[deployment] = r.target
    [] r.policy = "data_local"        -> DataLocal(Host[deployment], r)
    [] r.policy = "auto"              -> TRUE

Candidates(r) ==
  {deployment \in Deployments \cap r.deployments :
     Host[deployment] \in FeasibleAgents(r) /\ PolicyAllows(deployment, r)}

Accepting(r) ==
  {deployment \in Candidates(r) : ModelRequestError(deployment, r) = "none"}

ResolveModel(r) ==
  IF Candidates(r) = {} THEN Reject("infeasible_binding")
  ELSE IF Accepting(r) = {}
    THEN LET first == CHOOSE d \in Candidates(r) : \A other \in Candidates(r) : d <= other
         IN Reject(ModelRequestError(first, r))
  ELSE LET selected == Cheapest(Accepting(r),
                                [d \in Accepting(r) |-> Transfers(Host[d], r)])
       IN Bind(Host[selected], selected)

\* Mutant: a target that is infeasible falls back to any feasible agent.
ResolveAgentFallingBack(r) ==
  IF FeasibleAgents(r) = {} THEN Reject("infeasible_binding")
  ELSE IF r.policy = "target_agent" /\ r.target \in FeasibleAgents(r) THEN Bind(r.target, NoId)
  ELSE Bind(Cheapest(FeasibleAgents(r), [a \in FeasibleAgents(r) |-> Transfers(a, r)]), NoId)

EligibleAgents(r) ==
  {agent \in FeasibleAgents(r) :
     CASE r.policy = "target_agent"      -> agent = r.target
       [] r.policy = "target_deployment" -> FALSE
       [] r.policy = "data_local"        -> DataLocal(agent, r)
       [] r.policy = "auto"              -> TRUE}

\* A data-local agent needs no transfer, so the first ID of them is the cheapest.
ResolveAgent(r) ==
  IF EligibleAgents(r) = {} THEN Reject("infeasible_binding")
  ELSE Bind(Cheapest(EligibleAgents(r), [a \in EligibleAgents(r) |-> Transfers(a, r)]), NoId)

Resolve(r) ==
  IF ~(Inputs(r) \subseteq Observed(r)) THEN Reject("missing_input")
  ELSE IF "model" \in r.required THEN ResolveModel(r)
  ELSE ResolveAgent(r)

-----------------------------------------------------------------------------
Init == request \in Requests /\ answer = Unanswered

Answer ==
  /\ answer = Unanswered
  /\ answer' = Resolve(request)
  /\ UNCHANGED request

Next == Answer

Spec == Init /\ [][Next]_vars

-----------------------------------------------------------------------------
Bound == answer.error = "none"
IsModel == "model" \in request.required

\* What a request allows an agent, with a deployment or with none, to be bound for:
\* an available agent with the capabilities, and for a model operator, and no
\* other, an available deployment hosted there (resolver.py:53-69, 118-123, 156);
\* and the planner's physical intent, of which data_local means that no input is
\* moved (resolver.py:71-93, 124-135).
Allows(agent, deployment) ==
  /\ agent \in Agents \cap request.agents
  /\ request.required \subseteq CapabilitiesOf[agent]
  /\ IF IsModel
       THEN deployment \in Deployments \cap request.deployments /\ Host[deployment] = agent
       ELSE deployment = NoId
  /\ request.policy = "target_agent" => agent = request.target
  /\ request.policy = "target_deployment" => deployment = request.target
  /\ request.policy = "data_local" => Transfers(agent, request) = 0

\* Explicit physical intent is rejected when infeasible, never silently
\* overridden (README.md:76), and what is bound can be executed.
BindingIsAllowed == Bound => Allows(answer.agent, answer.deployment)

\* A request of known inputs that some allowed placement satisfies, as the worker's
\* own preflight judges it, is not rejected, and of those placements none needs
\* fewer transfers than the one that is bound (resolver.py:95-106, 141-156).
BindingIsOptimal ==
  answer # Unanswered /\ Inputs(request) \subseteq Observed(request) =>
    \A agent \in Agents, deployment \in Deployments \cup {NoId} :
      Allows(agent, deployment) /\ (IsModel => WorkerAccepts(deployment, request)) =>
        Bound /\ Transfers(answer.agent, request) <= Transfers(agent, request)

\* What the runtime lets through, the worker's preflight accepts, except for text
\* that does not decode, which only the worker sees: no transfer is wasted on a
\* request the snapshot already shows to be unanswerable (resolver.py:158-199,
\* model_backend.py:141-167).
PreflightsAgree ==
  Bound /\ IsModel =>
    \/ \E id \in Inputs(request) : request.artifacts[id].media = "undecodable"
    \/ WorkerAccepts(answer.deployment, request)
=============================================================================
