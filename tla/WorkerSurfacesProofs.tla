------------------------- MODULE WorkerSurfacesProofs -------------------------
(***************************************************************************)
(* What a run may believe of its workers, for any environment, settings and *)
(* proposals, however often workers are replaced.                            *)
(***************************************************************************)
EXTENDS WorkerSurfaces, TLAPS, WellFoundedInduction, FiniteSetTheorems

-----------------------------------------------------------------------------
(* What the resolver binds.                                                  *)

\* A set of natural numbers has a first element.
LEMMA FirstExists ==
  ASSUME NEW S \in SUBSET Nat, S # {}
  PROVE  \E x \in S : \A y \in S : x <= y
<1> DEFINE R0 == {ss \in Nat \X Nat : ss[1] < ss[2]}
<1>1. IsWellFoundedOn(R0, Nat)
  BY NatLessThanWellFounded DEF OpToRel
<1>2. PICK x \in S : \A y \in S : <<y, x>> \notin R0
  <2> HIDE DEF R0
  <2> QED BY <1>1, WFMin, Zenon
<1>3. \A y \in S : ~(y < x)
  BY <1>2
<1> QED BY <1>3

\* The cheapest of some IDs is one of them (resolver.py:95-106, 141-151).
LEMMA CheapestIsOne ==
  ASSUME NEW ids \in SUBSET Nat, ids # {}, NEW cost \in [ids -> Nat]
  PROVE  R!Cheapest(ids, cost) \in ids
<1> DEFINE first(id) == \A other \in ids :
             cost[id] < cost[other] \/ (cost[id] = cost[other] /\ id <= other)
<1>1. PICK lowest \in {cost[id] : id \in ids} : \A c \in {cost[id] : id \in ids} : lowest <= c
  <2>1. {cost[id] : id \in ids} \in SUBSET Nat /\ {cost[id] : id \in ids} # {}
    OBVIOUS
  <2> QED BY <2>1, FirstExists
<1>2. PICK chosen \in {id \in ids : cost[id] = lowest} :
        \A id \in {i \in ids : cost[i] = lowest} : chosen <= id
  <2>1. {id \in ids : cost[id] = lowest} \in SUBSET Nat /\ {id \in ids : cost[id] = lowest} # {}
    BY <1>1
  <2> QED BY <2>1, FirstExists
<1>3. chosen \in ids /\ first(chosen)
  <2>1. ASSUME NEW other \in ids, cost[other] # lowest PROVE cost[chosen] < cost[other]
    BY <1>1, <1>2, <2>1
  <2> QED BY <1>2, <2>1
<1> QED BY <1>3, Zenon DEF R!Cheapest

LEMMA TransfersAreNumbers ==
  ASSUME NEW r, r.inputs \in Seq(Range(r.inputs)), NEW agent
  PROVE  R!Transfers(agent, r) \in Nat
<1> DEFINE moved == {i \in 1..Len(r.inputs) : ~R!Located(agent, r, r.inputs[i])}
<1>1. IsFiniteSet(1..Len(r.inputs))
  BY FS_Interval
<1>2. moved \subseteq 1..Len(r.inputs)
  OBVIOUS
<1> HIDE DEF moved
<1>3. Cardinality(moved) \in Nat
  BY <1>1, <1>2, FS_Subset, FS_CardinalityType
<1> QED BY <1>3, Zenon DEF R!Transfers, moved, R!Cardinality, Cardinality

\* What the planner's action asks of a binding: AUTO names no target.
Fits(r, agent, deployment) ==
  /\ agent \in Agents \cap r.agents
  /\ r.required \subseteq CapabilitiesOf[agent]
  /\ R!Inputs(r) \subseteq R!Observed(r)
  /\ IF "model" \in r.required
       THEN /\ deployment \in Deployments /\ Host[deployment] = agent
            /\ R!ModelRequestError(deployment, r) = "none"
       ELSE deployment = R!NoId

LEMMA BindingFits ==
  ASSUME NEW r, r.inputs \in Seq(Range(r.inputs)), r.policy = "auto",
         R!Resolve(r).error = "none"
  PROVE  Fits(r, R!Resolve(r).agent, R!Resolve(r).deployment)
<1>1. R!Inputs(r) \subseteq R!Observed(r)
  BY DEF R!Resolve, R!Reject
<1>2. CASE "model" \notin r.required
  <2> DEFINE ids == R!EligibleAgents(r)
             cost == [a \in ids |-> R!Transfers(a, r)]
             bound == R!Cheapest(ids, cost)
  <2>1. ids \in SUBSET Nat
    BY EnvironmentAssumption DEF R!EligibleAgents, R!FeasibleAgents
  <2>2. ids # {}
    BY <1>1, <1>2 DEF R!Resolve, R!ResolveAgent, R!Reject
  <2>3. cost \in [ids -> Nat]
    BY TransfersAreNumbers
  <2>4. R!Resolve(r) = R!Bind(bound, R!NoId)
    BY <1>1, <1>2, <2>2 DEF R!Resolve, R!ResolveAgent
  <2>5. bound \in ids
    <3> HIDE DEF ids, cost
    <3> QED BY <2>1, <2>2, <2>3, CheapestIsOne
  <2>6. /\ bound \in Agents \cap r.agents
        /\ r.required \subseteq CapabilitiesOf[bound]
    <3> HIDE DEF bound
    <3> QED BY <2>5 DEF R!EligibleAgents, R!FeasibleAgents
  <2> HIDE DEF bound
  <2> QED BY <1>1, <1>2, <2>4, <2>6 DEF Fits, R!Bind
<1>3. CASE "model" \in r.required
  <2> DEFINE ids == R!Accepting(r)
             cost == [d \in ids |-> R!Transfers(Host[d], r)]
             bound == R!Cheapest(ids, cost)
  <2>1. ids \in SUBSET Nat
    BY EnvironmentAssumption DEF R!Accepting, R!Candidates
  <2>2. cost \in [ids -> Nat]
    BY TransfersAreNumbers
  <2>3. ids # {}
    <3> SUFFICES ASSUME ids = {} PROVE FALSE
      OBVIOUS
    <3> DEFINE first == CHOOSE d \in R!Candidates(r) : \A other \in R!Candidates(r) : d <= other
    <3>1. R!Candidates(r) # {}
      BY <1>1, <1>3 DEF R!Resolve, R!ResolveModel, R!Reject
    <3>2. first \in R!Candidates(r)
      <4>1. R!Candidates(r) \in SUBSET Nat
        BY EnvironmentAssumption DEF R!Candidates
      <4>2. PICK least \in R!Candidates(r) : \A other \in R!Candidates(r) : least <= other
        BY <3>1, <4>1, FirstExists
      <4> QED BY <4>2, Zenon
    <3>3. R!Resolve(r) = R!Reject(R!ModelRequestError(first, r))
      BY <1>1, <1>3, <3>1 DEF R!Resolve, R!ResolveModel
    <3> HIDE DEF first
    <3>4. R!ModelRequestError(first, r) = "none"
      BY <3>3 DEF R!Reject
    <3> QED BY <3>2, <3>4 DEF R!Accepting
  <2>4. R!Resolve(r) = R!Bind(Host[bound], bound)
    <3>1. R!Candidates(r) # {}
      BY <2>3 DEF R!Accepting
    <3> QED BY <1>1, <1>3, <2>3, <3>1 DEF R!Resolve, R!ResolveModel
  <2>5. bound \in ids
    <3> HIDE DEF ids, cost
    <3> QED BY <2>1, <2>2, <2>3, CheapestIsOne
  <2>6. /\ bound \in Deployments /\ R!ModelRequestError(bound, r) = "none"
        /\ Host[bound] \in Agents \cap r.agents
        /\ r.required \subseteq CapabilitiesOf[Host[bound]]
    <3> HIDE DEF bound
    <3> QED BY <2>5 DEF R!Accepting, R!Candidates, R!FeasibleAgents
  <2> HIDE DEF bound
  <2> QED BY <1>1, <1>3, <2>4, <2>6 DEF Fits, R!Bind
<1> QED BY <1>2, <1>3

-----------------------------------------------------------------------------
(* What a worker refuses.                                                    *)

\* A request that describes the artifacts it names as they are.
Describes(r) ==
  \A id \in DOMAIN r.artifacts :
    /\ id \in DOMAIN Artifacts
    /\ r.artifacts[id].media = Artifacts[id].media /\ r.artifacts[id].size = Artifacts[id].size

\* An action of the planner as the resolver sees it, whatever was observed.
IsProposal(r) ==
  /\ r.operator \in Catalog /\ r.required = Requirements[r.operator]
  /\ r.policy = "auto"
  /\ r.inputs \in Seq(Range(r.inputs)) /\ r.prompt \in Nat
  /\ Describes(r)

\* The theorems about the resolver, of the one that is used here.
RP == INSTANCE ResolverProofs WITH
        Modalities <- [d \in Deployments |-> Contract[d].modalities],
        Window <- [d \in Deployments |-> Contract[d].window],
        Reserved <- [d \in Deployments |-> Contract[d].reserved],
        ImageCost <- [d \in Deployments |-> Contract[d].image_cost],
        Requests <- {}, request <- proposal, answer <- binding

\* A sum that starts at the prompt's size, and one that is added to it.
LEMMA SumsAgree ==
  ASSUME NEW n \in Nat, NEW charges \in [1..n -> Nat], NEW prompt \in Nat
  PROVE  R!Total(prompt, charges) = prompt + R!Total(0, charges)
<1>1. RP!EnvironmentAssumption
  BY EnvironmentAssumption DEF RP!EnvironmentAssumption, RP!NoId
<1>2. RP!RequestsAssumption
  BY DEF RP!RequestsAssumption
<1>3. RP!Total(prompt, charges) = prompt + RP!Total(0, charges)
  BY <1>1, <1>2, RP!TotalFrom, Zenon
<1>4. \A start : RP!Total(start, charges) = R!Total(start, charges)
  BY DEF RP!Total, R!Total, RP!FoldLeft, R!FoldLeft, RP!MapThenFoldSet, R!MapThenFoldSet,
         RP!Max, R!Max
<1> QED BY <1>3, <1>4, Zenon

\* The runtime charges an action what a worker with the same contract charges it
\* (resolver.py:165-187, model_backend.py:157-160).
LEMMA ChargesAgree ==
  ASSUME NEW r, IsProposal(r), NEW deployment \in Deployments, R!Inputs(r) \subseteq R!Observed(r)
  PROVE  R!Estimate(deployment, r) = Charge(Contract[deployment], r)
<1> DEFINE charges == [i \in 1..Len(r.inputs) |-> Tokens(Contract[deployment], r.inputs[i])]
<1>1. /\ Len(r.inputs) \in Nat /\ r.prompt \in Nat
      /\ \A i \in 1..Len(r.inputs) : r.inputs[i] \in DOMAIN r.artifacts
  <2>1. Len(r.inputs) \in Nat /\ DOMAIN r.inputs = 1..Len(r.inputs) /\ r.prompt \in Nat
    BY DEF IsProposal
  <2> QED BY <2>1 DEF R!Inputs, R!Observed, R!Range
<1>2. ASSUME NEW i \in 1..Len(r.inputs)
      PROVE  /\ R!Tokens(deployment, r.artifacts[r.inputs[i]]) = charges[i]
             /\ charges[i] \in Nat
  <2>1. /\ r.inputs[i] \in DOMAIN Artifacts
        /\ r.artifacts[r.inputs[i]].media = Artifacts[r.inputs[i]].media
        /\ r.artifacts[r.inputs[i]].size = Artifacts[r.inputs[i]].size
    BY <1>1 DEF IsProposal, Describes
  <2> QED BY <2>1, EnvironmentAssumption, ArtifactsAssumption DEF R!Tokens, Tokens
<1>3. R!Charges(deployment, r) = charges /\ charges \in [1..Len(r.inputs) -> Nat]
  BY <1>2 DEF R!Charges
<1>4. Charge(Contract[deployment], r) = r.prompt + R!Total(0, charges)
  BY DEF Charge
<1>5. R!Estimate(deployment, r) = R!Total(r.prompt, charges)
  BY <1>3, Zenon DEF R!Estimate
<1> HIDE DEF charges
<1> QED BY <1>1, <1>3, <1>4, <1>5, SumsAgree

\* A preflight that finds no error has found none in any input, nor in their sum.
LEMMA NoErrorFound ==
  ASSUME NEW r, r.inputs \in Seq(Range(r.inputs)), NEW deployment \in Deployments,
         R!ModelRequestError(deployment, r) = "none"
  PROVE  /\ \A i \in 1..Len(r.inputs) :
              R!ArtifactError(deployment, r.artifacts[r.inputs[i]]) = "none"
         /\ ~(R!Estimate(deployment, r) + Contract[deployment].reserved
                > Contract[deployment].window)
<1> DEFINE error == [i \in 1..Len(r.inputs) |->
                       R!ArtifactError(deployment, r.artifacts[r.inputs[i]])]
           failing == {i \in 1..Len(r.inputs) : error[i] # "none"}
           first == CHOOSE i \in failing : \A j \in failing : i <= j
<1>1. failing = {}
  <2> SUFFICES ASSUME failing # {} PROVE FALSE
    OBVIOUS
  <2>1. PICK least \in failing : \A j \in failing : least <= j
    <3>1. failing \in SUBSET Nat
      OBVIOUS
    <3> HIDE DEF failing
    <3> QED BY <3>1, FirstExists
  <2>2. first \in failing
    <3> HIDE DEF failing
    <3> QED BY <2>1, Zenon
  <2>3. R!ModelRequestError(deployment, r) = error[first]
    BY DEF R!ModelRequestError
  <2> HIDE DEF first
  <2> QED BY <2>2, <2>3
<1>2. \A i \in 1..Len(r.inputs) :
        R!ArtifactError(deployment, r.artifacts[r.inputs[i]]) = "none"
  BY <1>1
<1>3. ~(R!Estimate(deployment, r) + Contract[deployment].reserved > Contract[deployment].window)
  BY <1>1 DEF R!ModelRequestError
<1> QED BY <1>2, <1>3

\* A media class that the preflight lets through is one of the contract's.
LEMMA ModalitiesMatch ==
  ASSUME NEW r, IsProposal(r), NEW deployment \in Deployments,
         R!Inputs(r) \subseteq R!Observed(r),
         R!ModelRequestError(deployment, r) = "none",
         NEW id \in Range(r.inputs)
  PROVE  Artifacts[id].media \in Contract[deployment].modalities
<1>1. PICK i \in 1..Len(r.inputs) : r.inputs[i] = id
  BY DEF IsProposal, Range
<1>2. R!ArtifactError(deployment, r.artifacts[id]) = "none"
  BY <1>1, NoErrorFound DEF IsProposal
<1>3. id \in DOMAIN Artifacts /\ r.artifacts[id].media = Artifacts[id].media
  <2>1. id \in DOMAIN r.artifacts
    BY <1>1 DEF R!Inputs, R!Observed, R!Range, IsProposal
  <2> QED BY <2>1 DEF IsProposal, Describes
<1>4. Artifacts[id].media \in {"text", "image"}
      /\ (Artifacts[id].media = "image" => "image" \in Contract[deployment].modalities)
  BY <1>2, <1>3, ArtifactsAssumption DEF R!ArtifactError
<1> QED BY <1>4, EnvironmentAssumption

\* An operator whose requirements an agent meets is one it was validated with.
LEMMA RequirementsAreMet ==
  ASSUME NEW operator \in Catalog, NEW agent, Requirements[operator] \subseteq CapabilitiesOf[agent],
         NEW settings, SurfaceMatches(agent, settings)
  PROVE  operator \in Offered(settings)
BY DEF SurfaceMatches, ExpectedOperators

LEMMA OnlyModelsNeedModels ==
  ASSUME NEW operator \in Catalog
  PROVE  "model" \in Requirements[operator] <=> operator = "invoke_model"
BY DEF Requirements, Catalog, Structured

\* A worker that was validated refuses nothing that fits its agent
\* (server.py:226-285).
LEMMA NothingIsRefused ==
  ASSUME NEW r, IsProposal(r), NEW agent, NEW deployment,
         Fits(r, agent, deployment), NEW settings, SurfaceMatches(agent, settings)
  PROVE  Refusal(settings, r, deployment) = "none"
<1>1. r.operator \in Offered(settings)
  BY RequirementsAreMet DEF Fits, IsProposal
<1>2. "model" \in r.required <=> r.operator = "invoke_model"
  BY OnlyModelsNeedModels DEF IsProposal
<1>3. CASE r.operator # "invoke_model"
  BY <1>1, <1>2, <1>3 DEF Fits, Refusal
<1>4. CASE r.operator = "invoke_model"
  <2>1. /\ deployment \in Deployments /\ Host[deployment] = agent
        /\ R!ModelRequestError(deployment, r) = "none"
        /\ R!Inputs(r) \subseteq R!Observed(r)
    BY <1>2, <1>4 DEF Fits
  <2>2. /\ deployment \in DOMAIN settings.deployments
        /\ settings.deployments[deployment] = Contract[deployment]
    BY <2>1 DEF SurfaceMatches, ContractMatches
  <2>3. \A id \in Range(r.inputs) : Artifacts[id].media \in Contract[deployment].modalities
    BY <2>1, ModalitiesMatch
  <2>4. ~(Charge(Contract[deployment], r) + Contract[deployment].reserved
            > Contract[deployment].window)
    <3>1. R!Estimate(deployment, r) = Charge(Contract[deployment], r)
      BY <2>1, ChargesAgree
    <3> QED BY <2>1, <3>1, NoErrorFound DEF IsProposal
  <2> QED BY <1>1, <1>4, <2>2, <2>3, <2>4 DEF Refusal
<1> QED BY <1>3, <1>4

-----------------------------------------------------------------------------
(* The inductive invariant: what each stage knows.                           *)

Probes ==
  /\ answers = [agent \in Agents |-> answers[agent]]
  /\ stage = "validate" => last = None /\ \A agent \in Agents : answers[agent] # Down

ValidatedMatch ==
  stage \notin {"validate", "surface_mismatch", "failed"} =>
    \A agent \in Agents : validated[agent] # Down /\ SurfaceMatches(agent, validated[agent])

ProposalKnown ==
  stage \in {"resolve", "localize", "execute"} =>
    IsProposal(proposal) /\ proposal.agents = {agent \in Agents : Available(agent)}

BindingKnown ==
  stage \in {"localize", "execute"} => Fits(proposal, binding.agent, binding.deployment)

SurfacesInv ==
  /\ Probes
  /\ ValidatedMatch
  /\ ProposalKnown
  /\ BindingKnown
  /\ ValidatedWorkersDoNotRefuse
  /\ BoundWorkersAreNamed
  /\ FaithfulWorkersAreAccepted

LEMMA InitSurfaces == Init => SurfacesInv
BY NobodyIsDown
   DEF Init, SurfacesInv, Probes, ValidatedMatch, ProposalKnown, BindingKnown, Nobody,
       ValidatedWorkersDoNotRefuse, BoundWorkersAreNamed, FaithfulWorkersAreAccepted

\* A worker that is configured as its agent should be offers what is expected of it
\* (validation.py:37-41, server.py:138-143, catalog.py:12-25).
LEMMA FaithfulMatches ==
  ASSUME NEW agent \in Agents, NEW settings, Faithful(agent, settings)
  PROVE  SurfaceMatches(agent, settings)
<1>1. Offered(settings) = ExpectedOperators(agent)
  <2>1. ASSUME NEW operator
        PROVE  operator \in Offered(settings) <=>
                 operator \in Catalog /\ Requirements[operator] \subseteq CapabilitiesOf[agent]
    <3>1. CASE operator \in Structured
      BY <3>1 DEF Offered, Catalog, Structured, Requirements, Faithful
    <3>2. CASE operator \in {"sample_frames", "extract_clip"}
      BY <3>2 DEF Offered, Catalog, Structured, Requirements, Faithful
    <3>3. CASE operator \in {"invoke_model", "read_artifact", "bm25_retrieve", "make_contact_sheet"}
      BY <3>3 DEF Offered, Catalog, Structured, Requirements, Faithful
    <3>4. CASE operator \notin Catalog
      BY <3>4 DEF Offered, Catalog
    <3> QED BY <3>1, <3>2, <3>3, <3>4 DEF Catalog
  <2>2. Offered(settings) \subseteq ExpectedOperators(agent)
    BY <2>1 DEF ExpectedOperators
  <2>3. ExpectedOperators(agent) \subseteq Offered(settings)
    BY <2>1 DEF ExpectedOperators
  <2> QED BY <2>2, <2>3
<1>2. /\ DOMAIN settings.deployments = {d \in Deployments : Host[d] = agent}
      /\ \A d \in DOMAIN settings.deployments :
           ContractMatches(settings.deployments[d], Contract[d])
  BY DEF Faithful, ContractMatches
<1> QED BY <1>1, <1>2 DEF SurfaceMatches

LEMMA StateNamed ==
  ASSUME NEW agent \in Agents, Named(agent) # {}
  PROVE  ByAgent[agent] # Down
BY DEF Named, ByAgent

LEMMA ValidateStep ==
  ASSUME SurfacesInv, Validate
  PROVE  SurfacesInv'
<1>1. CASE \A agent \in Agents : Named(agent) # {} /\ SurfaceMatches(agent, ByAgent[agent])
  <2>1. stage' = "materialize" /\ validated' = ByAgent
    BY <1>1 DEF Validate
  <2>2. ValidatedMatch'
    BY <1>1, <2>1, StateNamed DEF ValidatedMatch
  <2>3. last' = None /\ answers' = answers
    BY DEF SurfacesInv, Probes, Validate
  <2> QED BY <2>1, <2>2, <2>3
          DEF SurfacesInv, Probes, ProposalKnown, BindingKnown,
              ValidatedWorkersDoNotRefuse, BoundWorkersAreNamed, FaithfulWorkersAreAccepted
<1>2. CASE ~\A agent \in Agents : Named(agent) # {} /\ SurfaceMatches(agent, ByAgent[agent])
  <2>1. stage' = "surface_mismatch" /\ last' = None /\ answers' = answers
    BY <1>2 DEF SurfacesInv, Probes, Validate
  <2>2. \E agent \in Agents : ~Faithful(agent, answers[agent])
    <3> SUFFICES ASSUME \A agent \in Agents : Faithful(agent, answers[agent]) PROVE FALSE
      OBVIOUS
    <3>1. ASSUME NEW agent \in Agents
          PROVE  Named(agent) # {} /\ SurfaceMatches(agent, ByAgent[agent])
      <4>1. \A client \in Agents : answers[client].agent = client /\ answers[client] # Down
        BY DEF Faithful, SurfacesInv, Probes, Validate
      <4>2. Named(agent) = {agent}
        BY <4>1 DEF Named
      <4>3. ByAgent[agent] = answers[agent]
        BY <4>2 DEF ByAgent
      <4> QED BY <4>2, <4>3, FaithfulMatches
    <3> QED BY <1>2, <3>1
  <2> QED BY <2>1, <2>2
          DEF SurfacesInv, Probes, ValidatedMatch, ProposalKnown, BindingKnown,
              ValidatedWorkersDoNotRefuse, BoundWorkersAreNamed, FaithfulWorkersAreAccepted
<1> QED BY <1>1, <1>2

LEMMA ProposeStep ==
  ASSUME SurfacesInv, Propose
  PROVE  SurfacesInv'
<1>1. PICK p \in Proposals :
        /\ p.operator \in Catalog
        /\ proposal' =
             [operator |-> p.operator, policy |-> "auto", target |-> R!NoId, inputs |-> p.inputs,
              required |-> Requirements[p.operator], prompt |-> p.prompt,
              agents |-> {agent \in Agents : Available(agent)},
              deployments |-> ObservedDeployments, artifacts |-> ObservedArtifacts]
  BY DEF Propose
<1>2. stage = "plan" /\ stage' = "resolve" /\ answers' = answers /\ last' = last
      /\ validated' = validated
  BY DEF Propose
<1>3. IsProposal(proposal')
  BY <1>1, ProposalsAssumption DEF IsProposal, Describes, ObservedArtifacts
<1>4. ProposalKnown'
  BY <1>1, <1>2, <1>3 DEF ProposalKnown, Available
<1> QED BY <1>2, <1>4
        DEF SurfacesInv, Probes, ValidatedMatch, BindingKnown,
            ValidatedWorkersDoNotRefuse, BoundWorkersAreNamed, FaithfulWorkersAreAccepted

LEMMA ResolveStep ==
  ASSUME SurfacesInv, Resolve
  PROVE  SurfacesInv'
<1>1. /\ stage = "resolve" /\ stage' \in {"localize", "failed"}
      /\ answers' = answers /\ last' = last /\ validated' = validated /\ proposal' = proposal
  BY DEF Resolve
<1>2. IsProposal(proposal)
  BY <1>1 DEF SurfacesInv, ProposalKnown
<1>3. ASSUME stage' = "localize"
      PROVE  Fits(proposal, R!Resolve(proposal).agent, R!Resolve(proposal).deployment)
  <2>1. R!Resolve(proposal).error = "none"
    BY <1>3 DEF Resolve
  <2> QED BY <1>2, <2>1, BindingFits DEF IsProposal
<1>4. BindingKnown'
  BY <1>1, <1>3 DEF BindingKnown, Resolve
<1> QED BY <1>1, <1>4
        DEF SurfacesInv, Probes, ValidatedMatch, ProposalKnown, Available,
            ValidatedWorkersDoNotRefuse, BoundWorkersAreNamed, FaithfulWorkersAreAccepted

\* What was asked was bound to an agent that was available, and its worker refuses
\* only if it has been replaced.
LEMMA ExecuteStep ==
  ASSUME SurfacesInv, Execute
  PROVE  SurfacesInv'
<1> DEFINE agent == binding.agent
           asked == worker[agent]
<1>1. /\ stage = "execute" /\ stage' \in {"observe", "failed"}
      /\ answers' = Nobody /\ validated' = validated
  BY DEF Execute
<1>2. /\ last'.agent = agent /\ last'.observed = answers[agent] /\ last'.settings = asked
      /\ last'.refusal = IF asked = Down THEN "unreachable"
                         ELSE Refusal(asked, proposal, binding.deployment)
  BY DEF Execute
<1>3. /\ IsProposal(proposal) /\ Fits(proposal, agent, binding.deployment)
      /\ agent \in Agents /\ Available(agent)
  BY <1>1 DEF SurfacesInv, ProposalKnown, BindingKnown, Fits
<1>4. validated[agent] # Down /\ SurfaceMatches(agent, validated[agent])
  BY <1>1, <1>3 DEF SurfacesInv, ValidatedMatch
<1>5. asked = validated[agent] => last'.refusal = "none"
  BY <1>2, <1>3, <1>4, NothingIsRefused
<1>6. last'.settings = last'.observed => last'.settings.agent = last'.agent
  BY <1>2, <1>3 DEF Available
<1> HIDE DEF agent, asked
<1>7. ValidatedWorkersDoNotRefuse'
  BY <1>1, <1>2, <1>5 DEF ValidatedWorkersDoNotRefuse
<1>8. BoundWorkersAreNamed'
  BY <1>6 DEF BoundWorkersAreNamed
<1>9. Probes' /\ ValidatedMatch' /\ ProposalKnown' /\ BindingKnown' /\ FaithfulWorkersAreAccepted'
  BY <1>1 DEF SurfacesInv, Probes, Nobody, ValidatedMatch, ProposalKnown, BindingKnown,
              FaithfulWorkersAreAccepted
<1> QED BY <1>7, <1>8, <1>9 DEF SurfacesInv

\* The steps that decide nothing: probes, materialization, observation and pulls.
LEMMA OtherStep ==
  ASSUME SurfacesInv,
         \/ \E agent \in Agents : Restart(agent) \/ Probe(agent)
         \/ Materialize \/ Materialized \/ Observe \/ Finish \/ Localize
         \/ UNCHANGED vars
  PROVE  SurfacesInv'
<1> USE DEF SurfacesInv, ProposalKnown, BindingKnown, Available,
            ValidatedWorkersDoNotRefuse, BoundWorkersAreNamed, FaithfulWorkersAreAccepted
<1>1. CASE \E agent \in Agents : Restart(agent)
  BY <1>1 DEF Restart, Probes, ValidatedMatch
<1>2. CASE \E agent \in Agents : Probe(agent)
  <2>1. PICK agent \in Agents : Probe(agent)
    BY <1>2
  <2>2. Probes'
    BY <2>1 DEF Probe, Probes
  <2> QED BY <2>1, <2>2 DEF Probe, ValidatedMatch
<1>3. CASE Materialize
  BY <1>3 DEF Materialize, Probes, ValidatedMatch
<1>4. CASE Materialized
  BY <1>4 DEF Materialized, Probes, ValidatedMatch, Nobody
<1>5. CASE Observe
  BY <1>5 DEF Observe, Probes, ValidatedMatch
<1>6. CASE Finish
  BY <1>6 DEF Finish, Probes, ValidatedMatch
<1>7. CASE Localize
  BY <1>7 DEF Localize, Probes, ValidatedMatch
<1>8. CASE UNCHANGED vars
  BY <1>8 DEF vars, Probes, ValidatedMatch
<1> QED BY <1>1, <1>2, <1>3, <1>4, <1>5, <1>6, <1>7, <1>8

LEMMA Invariance == Spec => []SurfacesInv
<1>1. SurfacesInv /\ [Next]_vars => SurfacesInv'
  BY ValidateStep, ProposeStep, ResolveStep, ExecuteStep, OtherStep DEF Next
<1> QED BY <1>1, InitSurfaces, PTL DEF Spec

-----------------------------------------------------------------------------
(* The theorems.                                                             *)

\* Workers that still are what they said refuse nothing the run binds to them
\* (validation.py:36-67, resolver.py:158-199, server.py:226-285).
THEOREM ValidatedDoNotRefuse == Spec => []ValidatedWorkersDoNotRefuse
<1>1. SurfacesInv => ValidatedWorkersDoNotRefuse
  BY DEF SurfacesInv
<1> QED BY <1>1, Invariance, PTL

\* No operator is sent to a worker of another name (observer.py:49-50, 88-100).
THEOREM BoundAreNamed == Spec => []BoundWorkersAreNamed
BY Invariance, PTL DEF SurfacesInv

\* Validation refuses only what is configured otherwise than the environment says
\* (validation.py:24-67).
THEOREM FaithfulAccepted == Spec => []FaithfulWorkersAreAccepted
BY Invariance, PTL DEF SurfacesInv
=============================================================================
