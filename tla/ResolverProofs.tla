---------------------------- MODULE ResolverProofs ----------------------------
(***************************************************************************)
(* The resolver keeps the planner's intent and binds the cheapest placement, *)
(* for any environment, finite or not, and any requests.                     *)
(***************************************************************************)
EXTENDS Resolver, TLAPS, WellFoundedInduction, FiniteSetTheorems

\* A set of natural numbers has a least element.
LEMMA LeastExists ==
  ASSUME NEW S \in SUBSET Nat, S # {}
  PROVE  \E x \in S : \A y \in S : x <= y
<1> DEFINE R == {ss \in Nat \X Nat : ss[1] < ss[2]}
<1>1. IsWellFoundedOn(R, Nat)
  BY NatLessThanWellFounded DEF OpToRel
<1>2. PICK x \in S : \A y \in S : <<y, x>> \notin R
  <2> HIDE DEF R
  <2> QED BY <1>1, WFMin, Zenon
<1>3. \A y \in S : ~(y < x)
  BY <1>2
<1> QED BY <1>3

-----------------------------------------------------------------------------
(* Sums: what a fold computes, by induction on the number of charges.        *)

\* The recursion of FoldLeft: over the sets of indices, from the greatest down.
FoldsOver(charge, base, indices, g) ==
  g = [T \in SUBSET indices |->
         IF T = {} THEN base ELSE g[T \ {Max(T)}] + charge[Max(T)]]

\* A recursion over the sets of n indices extends to one more index.
LEMMA FoldExtends ==
  ASSUME NEW charge, NEW base, NEW n \in Nat, NEW g, FoldsOver(charge, base, 1..n, g)
  PROVE  \E h : FoldsOver(charge, base, 1..(n + 1), h)
<1> DEFINE h == [T \in SUBSET (1..(n + 1)) |->
                   IF n + 1 \in T THEN g[T \ {n + 1}] + charge[n + 1] ELSE g[T]]
<1>1. ASSUME NEW T \in SUBSET (1..(n + 1))
      PROVE  h[T] = IF T = {} THEN base ELSE h[T \ {Max(T)}] + charge[Max(T)]
  <2>1. CASE n + 1 \in T
    <3>1. Max(T) = n + 1
      <4>1. \A x \in T : n + 1 >= x
        OBVIOUS
      <4>2. ASSUME NEW y \in T, \A x \in T : y >= x PROVE y = n + 1
        BY <2>1, <4>1, <4>2
      <4> QED BY <2>1, <4>1, <4>2 DEF Max
    <3>2. T \ {n + 1} \in SUBSET (1..(n + 1)) /\ n + 1 \notin T \ {n + 1} /\ T # {}
      BY <2>1
    <3>3. h[T \ {n + 1}] = g[T \ {n + 1}]
      BY <3>2
    <3> QED BY <2>1, <3>1, <3>2, <3>3
  <2>2. CASE n + 1 \notin T
    <3>1. T \in SUBSET (1..n)
      BY <2>2
    <3>2. g[T] = IF T = {} THEN base ELSE g[T \ {Max(T)}] + charge[Max(T)]
      BY <3>1, Zenon DEF FoldsOver
    <3>3. h[T] = g[T]
      BY <2>2
    <3>4. h[T \ {Max(T)}] = g[T \ {Max(T)}]
      BY <2>2
    <3> QED BY <3>2, <3>3, <3>4
  <2> QED BY <2>1, <2>2
<1>2. h = [T \in SUBSET (1..(n + 1)) |-> h[T]]
  OBVIOUS
<1> HIDE DEF h
<1>3. FoldsOver(charge, base, 1..(n + 1), h)
  BY <1>1, <1>2 DEF FoldsOver
<1> QED BY <1>3, Zenon

\* The recursion is a function's: by induction on the number of indices.
LEMMA FoldExists ==
  ASSUME NEW charge, NEW base, NEW n \in Nat
  PROVE  \E g : FoldsOver(charge, base, 1..n, g)
<1> DEFINE without == {k \in Nat : ~\E g : FoldsOver(charge, base, 1..k, g)}
<1>1. \E g : FoldsOver(charge, base, 1..0, g)
  <2> DEFINE g == [T \in SUBSET (1..0) |-> base]
  <2>1. \A T \in SUBSET (1..0) : T = {}
    OBVIOUS
  <2>2. g = [T \in SUBSET (1..0) |-> IF T = {} THEN base ELSE g[T \ {Max(T)}] + charge[Max(T)]]
    BY <2>1
  <2> HIDE DEF g
  <2> QED BY <2>2, Zenon DEF FoldsOver
<1>2. ASSUME without # {} PROVE FALSE
  <2>1. PICK least \in without : \A k \in without : least <= k
    <3>1. without \in SUBSET Nat
      OBVIOUS
    <3> HIDE DEF without
    <3> QED BY <1>2, <3>1, LeastExists
  <2>2. least \in Nat /\ least # 0
    BY <1>1
  <2>3. least - 1 \in Nat /\ least - 1 \notin without
    BY <2>1, <2>2
  <2>4. PICK g : FoldsOver(charge, base, 1..(least - 1), g)
    BY <2>3
  <2>5. \E h : FoldsOver(charge, base, 1..((least - 1) + 1), h)
    BY <2>3, <2>4, FoldExtends
  <2>6. (least - 1) + 1 = least
    BY <2>2
  <2> QED BY <2>1, <2>5, <2>6
<1> QED BY <1>2

\* A sum is the last of the running totals (resolver.py:165-187).
LEMMA FoldTotals ==
  ASSUME NEW n \in Nat, NEW charge \in [1..n -> Nat], NEW base \in Nat
  PROVE  \E total :
           /\ total[0] = base
           /\ \A k \in 1..n : total[k] = total[k - 1] + charge[k]
           /\ Total(base, charge) = total[n]
<1> DEFINE iter == CHOOSE g : FoldsOver(charge, base, DOMAIN charge, g)
           total == [k \in 0..n |-> iter[1..k]]
<1>1. Total(base, charge) = iter[DOMAIN charge]
  BY DEF Total, FoldLeft, MapThenFoldSet, FoldsOver
<1>2. FoldsOver(charge, base, 1..n, iter)
  <2>1. DOMAIN charge = 1..n
    OBVIOUS
  <2> QED BY <2>1, FoldExists, Zenon
<1>3. \A T \in SUBSET (1..n) :
        iter[T] = IF T = {} THEN base ELSE iter[T \ {Max(T)}] + charge[Max(T)]
  <2> HIDE DEF iter
  <2> QED BY <1>2 DEF FoldsOver
<1> HIDE DEF iter
<1>4. ASSUME NEW k \in 1..n PROVE total[k] = total[k - 1] + charge[k]
  <2>1. Max(1..k) = k
    <3>1. ASSUME NEW y \in 1..k, \A x \in 1..k : y >= x PROVE y = k
      BY <3>1
    <3> QED BY <3>1 DEF Max
  <2>2. (1..k) \ {k} = 1..(k - 1) /\ 1..k # {} /\ 1..k \in SUBSET (1..n)
    OBVIOUS
  <2>3. iter[1..k] = iter[1..(k - 1)] + charge[k]
    BY <1>3, <2>1, <2>2
  <2> QED BY <2>3
<1>5. total[0] = base
  <2>1. 1..0 = {}
    OBVIOUS
  <2>2. iter[{}] = base
    BY <1>3
  <2>3. 0 \in 0..n
    OBVIOUS
  <2> QED BY <2>1, <2>2, <2>3
<1>6. Total(base, charge) = total[n]
  <2>1. DOMAIN charge = 1..n
    OBVIOUS
  <2> QED BY <1>1, <2>1
<1> HIDE DEF total
<1> QED BY <1>4, <1>5, <1>6

\* A loop that starts at the prompt's size sums what the worker adds to it
\* (resolver.py:165-187, model_backend.py:157-160).
LEMMA TotalFrom ==
  ASSUME NEW n \in Nat, NEW charge \in [1..n -> Nat], NEW base \in Nat
  PROVE  Total(0, charge) \in Nat /\ Total(base, charge) = base + Total(0, charge)
<1>1. PICK f : /\ f[0] = base
               /\ \A k \in 1..n : f[k] = f[k - 1] + charge[k]
               /\ Total(base, charge) = f[n]
  BY FoldTotals
<1>2. PICK g : /\ g[0] = 0
               /\ \A k \in 1..n : g[k] = g[k - 1] + charge[k]
               /\ Total(0, charge) = g[n]
  <2>1. 0 \in Nat
    OBVIOUS
  <2> QED BY <2>1, FoldTotals, Zenon
<1> DEFINE apart == {k \in 0..n : ~(g[k] \in Nat /\ f[k] = base + g[k])}
<1>3. ASSUME apart # {} PROVE FALSE
  <2>1. PICK least \in apart : \A k \in apart : least <= k
    <3>1. apart \in SUBSET Nat
      OBVIOUS
    <3> HIDE DEF apart
    <3> QED BY <1>3, <3>1, LeastExists
  <2>2. least # 0
    <3>1. g[0] \in Nat /\ f[0] = base + g[0]
      BY <1>1, <1>2
    <3> QED BY <2>1, <3>1
  <2>3. least - 1 \in 0..n /\ least - 1 \notin apart /\ least \in 1..n
    <3>1. least \in 0..n
      OBVIOUS
    <3> HIDE DEF apart
    <3> QED BY <2>1, <2>2, <3>1
  <2>4. g[least - 1] \in Nat /\ f[least - 1] = base + g[least - 1]
    BY <2>3
  <2>5. g[least] = g[least - 1] + charge[least] /\ f[least] = f[least - 1] + charge[least]
    BY <1>1, <1>2, <2>3
  <2>6. charge[least] \in Nat
    BY <2>3
  <2> QED BY <2>1, <2>3, <2>4, <2>5, <2>6
<1>4. g[n] \in Nat /\ f[n] = base + g[n]
  BY <1>3
<1> QED BY <1>1, <1>2, <1>4
-----------------------------------------------------------------------------
(* Placements.                                                               *)

\* The order of (cost, ID) has a least element in a set of IDs (resolver.py:95-106,
\* 141-151).
LEMMA CheapestIsLeast ==
  ASSUME NEW ids \in SUBSET Nat, ids # {}, NEW cost \in [ids -> Nat]
  PROVE  /\ Cheapest(ids, cost) \in ids
         /\ \A id \in ids : cost[Cheapest(ids, cost)] <= cost[id]
<1> DEFINE least(id) == \A other \in ids :
             cost[id] < cost[other] \/ (cost[id] = cost[other] /\ id <= other)
<1>1. PICK lowest \in {cost[id] : id \in ids} : \A c \in {cost[id] : id \in ids} : lowest <= c
  <2>1. {cost[id] : id \in ids} \in SUBSET Nat /\ {cost[id] : id \in ids} # {}
    OBVIOUS
  <2> QED BY <2>1, LeastExists
<1>2. PICK first \in {id \in ids : cost[id] = lowest} :
        \A id \in {i \in ids : cost[i] = lowest} : first <= id
  <2>1. {id \in ids : cost[id] = lowest} \in SUBSET Nat /\ {id \in ids : cost[id] = lowest} # {}
    BY <1>1
  <2> QED BY <2>1, LeastExists
<1>3. first \in ids /\ least(first)
  <2>1. ASSUME NEW other \in ids, cost[other] # lowest PROVE cost[first] < cost[other]
    BY <1>1, <1>2, <2>1
  <2> QED BY <1>2, <2>1
<1>4. Cheapest(ids, cost) \in ids /\ least(Cheapest(ids, cost))
  BY <1>3, Zenon DEF Cheapest
<1>5. PICK c \in ids : c = Cheapest(ids, cost) /\ least(c)
  BY <1>4
<1>6. \A id \in ids : cost[c] <= cost[id]
  BY <1>5
<1> QED BY <1>5, <1>6

\* A request needs finitely many transfers (resolver.py:99-105).
LEMMA TransfersAreNatural ==
  ASSUME NEW r \in Requests, NEW agent
  PROVE  Transfers(agent, r) \in Nat
<1> DEFINE moved == {i \in 1..Len(r.inputs) : ~Located(agent, r, r.inputs[i])}
<1>1. IsFiniteSet(1..Len(r.inputs))
  BY RequestsAssumption, FS_Interval
<1>2. moved \subseteq 1..Len(r.inputs)
  OBVIOUS
<1> HIDE DEF moved
<1>3. Cardinality(moved) \in Nat
  BY <1>1, <1>2, FS_Subset, FS_CardinalityType
<1> QED BY <1>3 DEF Transfers, moved

\* A data-local agent moves nothing (resolver.py:84-86).
LEMMA LocalMovesNothing ==
  ASSUME NEW r \in Requests, NEW agent
  PROVE  DataLocal(agent, r) <=> Transfers(agent, r) = 0
<1> DEFINE moved == {i \in 1..Len(r.inputs) : ~Located(agent, r, r.inputs[i])}
<1>1. IsFiniteSet(moved)
  <2>1. IsFiniteSet(1..Len(r.inputs))
    BY RequestsAssumption, FS_Interval
  <2>2. moved \subseteq 1..Len(r.inputs)
    OBVIOUS
  <2> HIDE DEF moved
  <2> QED BY <2>1, <2>2, FS_Subset
<1>2. DataLocal(agent, r) <=> moved = {}
  BY DEF DataLocal, Inputs, Range
<1> HIDE DEF moved
<1>3. Cardinality(moved) = 0 <=> moved = {}
  BY <1>1, FS_EmptySet
<1> QED BY <1>2, <1>3 DEF Transfers, moved

-----------------------------------------------------------------------------
(* The two ways of resolving.                                                *)

\* What a binding owes its request.
Fits(r, agent, deployment) ==
  /\ agent \in FeasibleAgents(r)
  /\ IF "model" \in r.required
       THEN deployment \in Deployments \cap r.deployments /\ Host[deployment] = agent
       ELSE deployment = NoId
  /\ r.policy = "target_agent" => agent = r.target
  /\ r.policy = "target_deployment" => deployment = r.target
  /\ r.policy = "data_local" => DataLocal(agent, r)

\* Agents and deployments that may be bound are numbers, and so is what they cost.
LEMMA CandidateTypes ==
  ASSUME NEW r \in Requests
  PROVE  /\ EligibleAgents(r) \in SUBSET Nat
         /\ Accepting(r) \in SUBSET Nat
         /\ \A agent : Transfers(agent, r) \in Nat
<1>1. \A agent : Transfers(agent, r) \in Nat
  BY TransfersAreNatural
<1>2. EligibleAgents(r) \in SUBSET Nat
  BY EnvironmentAssumption DEF EligibleAgents, FeasibleAgents
<1>3. Accepting(r) \in SUBSET Nat
  BY EnvironmentAssumption DEF Accepting, Candidates
<1> QED BY <1>1, <1>2, <1>3

\* The agents that may be bound without a deployment (resolver.py:71-93).
LEMMA EligibleFit ==
  ASSUME NEW r \in Requests, "model" \notin r.required, NEW agent, NEW deployment
  PROVE  Fits(r, agent, deployment) <=> agent \in EligibleAgents(r) /\ deployment = NoId
<1>1. CASE r.policy = "target_agent"
  BY <1>1 DEF Fits, EligibleAgents
<1>2. CASE r.policy = "target_deployment"
  BY <1>2, RequestsAssumption DEF Fits, EligibleAgents
<1>3. CASE r.policy = "data_local"
  BY <1>3 DEF Fits, EligibleAgents
<1>4. CASE r.policy = "auto"
  BY <1>4 DEF Fits, EligibleAgents
<1> QED BY <1>1, <1>2, <1>3, <1>4, RequestsAssumption

\* The deployments that may be bound, the agent being their host (resolver.py:118-135).
LEMMA CandidatesFit ==
  ASSUME NEW r \in Requests, "model" \in r.required, NEW agent, NEW deployment
  PROVE  Fits(r, agent, deployment) <=>
           deployment \in Candidates(r) /\ agent = Host[deployment]
<1>1. CASE r.policy = "target_agent"
  BY <1>1 DEF Fits, Candidates, PolicyAllows
<1>2. CASE r.policy = "target_deployment"
  BY <1>2 DEF Fits, Candidates, PolicyAllows
<1>3. CASE r.policy = "data_local"
  BY <1>3 DEF Fits, Candidates, PolicyAllows
<1>4. CASE r.policy = "auto"
  BY <1>4 DEF Fits, Candidates, PolicyAllows
<1> QED BY <1>1, <1>2, <1>3, <1>4, RequestsAssumption

\* What the resolver binds fits, and costs no more than anything that fits, of
\* deployments those that pass its own preflight (resolver.py:95-106, 141-156).
Best(r) ==
  /\ Resolve(r).error = "none" => Fits(r, Resolve(r).agent, Resolve(r).deployment)
  /\ Inputs(r) \subseteq Observed(r) =>
       \A agent, deployment :
         /\ Fits(r, agent, deployment)
         /\ "model" \in r.required => ModelRequestError(deployment, r) = "none"
         => /\ Resolve(r).error = "none"
            /\ Transfers(Resolve(r).agent, r) <= Transfers(agent, r)

LEMMA AgentIsBest ==
  ASSUME NEW r \in Requests, "model" \notin r.required
  PROVE  Best(r)
<1> DEFINE cost == [a \in EligibleAgents(r) |-> Transfers(a, r)]
           bound == Cheapest(EligibleAgents(r), cost)
<1>1. cost \in [EligibleAgents(r) -> Nat]
  BY CandidateTypes
<1>2. CASE Inputs(r) \subseteq Observed(r) /\ EligibleAgents(r) # {}
  <2>1. /\ bound \in EligibleAgents(r)
        /\ \A a \in EligibleAgents(r) : Transfers(bound, r) <= Transfers(a, r)
    <3>1. /\ bound \in EligibleAgents(r)
          /\ \A a \in EligibleAgents(r) : cost[bound] <= cost[a]
      <4> HIDE DEF cost
      <4> QED BY <1>1, <1>2, CandidateTypes, CheapestIsLeast
    <3> HIDE DEF bound
    <3> QED BY <3>1
  <2>2. Resolve(r) = Bind(bound, NoId)
    BY <1>2 DEF Resolve, ResolveAgent
  <2> HIDE DEF bound, cost
  <2>3. Resolve(r).error = "none" /\ Resolve(r).agent = bound /\ Resolve(r).deployment = NoId
    BY <2>2 DEF Bind
  <2>4. Fits(r, bound, NoId)
    BY <2>1, EligibleFit
  <2>5. \A agent, deployment : Fits(r, agent, deployment) => agent \in EligibleAgents(r)
    BY EligibleFit
  <2> QED BY <2>1, <2>3, <2>4, <2>5 DEF Best
<1>3. CASE ~(Inputs(r) \subseteq Observed(r)) \/ EligibleAgents(r) = {}
  <2>1. Resolve(r).error # "none"
    BY <1>3 DEF Resolve, ResolveAgent, Reject
  <2>2. Inputs(r) \subseteq Observed(r) => \A agent, deployment : ~Fits(r, agent, deployment)
    BY <1>3, EligibleFit
  <2> QED BY <2>1, <2>2 DEF Best
<1> QED BY <1>2, <1>3

LEMMA ModelBindsAccepting ==
  ASSUME NEW r \in Requests, ResolveModel(r).error = "none"
  PROVE  ResolveModel(r).deployment \in Accepting(r)
<1> DEFINE cost == [d \in Accepting(r) |-> Transfers(Host[d], r)]
           bound == Cheapest(Accepting(r), cost)
           first == CHOOSE d \in Candidates(r) : \A other \in Candidates(r) : d <= other
<1>1. CASE Accepting(r) # {}
  <2>1. bound \in Accepting(r)
    <3>1. cost \in [Accepting(r) -> Nat]
      BY CandidateTypes
    <3> HIDE DEF cost
    <3> QED BY <1>1, <3>1, CandidateTypes, CheapestIsLeast
  <2>2. ResolveModel(r) = Bind(Host[bound], bound)
    <3>1. Candidates(r) # {}
      BY <1>1 DEF Accepting
    <3> QED BY <1>1, <3>1 DEF ResolveModel
  <2> HIDE DEF bound
  <2> QED BY <2>1, <2>2 DEF Bind
<1>2. CASE Accepting(r) = {}
  <2>1. Candidates(r) # {}
    BY DEF ResolveModel, Reject
  <2>2. PICK least \in Candidates(r) : \A other \in Candidates(r) : least <= other
    <3>1. Candidates(r) \in SUBSET Nat
      BY EnvironmentAssumption DEF Candidates
    <3> QED BY <2>1, <3>1, LeastExists
  <2>3. first \in Candidates(r)
    BY <2>2, Zenon
  <2>4. ResolveModel(r) = Reject(ModelRequestError(first, r))
    BY <1>2, <2>1 DEF ResolveModel
  <2> HIDE DEF first
  <2>5. ModelRequestError(first, r) # "none"
    BY <1>2, <2>3 DEF Accepting
  <2> QED BY <2>4, <2>5 DEF Reject
<1> QED BY <1>1, <1>2

LEMMA DeploymentIsBest ==
  ASSUME NEW r \in Requests, "model" \in r.required
  PROVE  Best(r)
<1> DEFINE cost == [d \in Accepting(r) |-> Transfers(Host[d], r)]
           bound == Cheapest(Accepting(r), cost)
<1>1. cost \in [Accepting(r) -> Nat]
  BY CandidateTypes
<1>2. CASE Inputs(r) \subseteq Observed(r) /\ Accepting(r) # {}
  <2>1. /\ bound \in Accepting(r)
        /\ \A d \in Accepting(r) : Transfers(Host[bound], r) <= Transfers(Host[d], r)
    <3>1. /\ bound \in Accepting(r)
          /\ \A d \in Accepting(r) : cost[bound] <= cost[d]
      <4> HIDE DEF cost
      <4> QED BY <1>1, <1>2, CandidateTypes, CheapestIsLeast
    <3> HIDE DEF bound
    <3> QED BY <3>1
  <2>2. Resolve(r) = Bind(Host[bound], bound)
    <3>1. Candidates(r) # {}
      BY <1>2 DEF Accepting
    <3> QED BY <1>2, <3>1 DEF Resolve, ResolveModel
  <2> HIDE DEF bound, cost
  <2>3. /\ Resolve(r).error = "none" /\ Resolve(r).agent = Host[bound]
        /\ Resolve(r).deployment = bound
    BY <2>2 DEF Bind
  <2>4. Fits(r, Host[bound], bound)
    BY <2>1, CandidatesFit DEF Accepting
  <2>5. \A agent, deployment :
          Fits(r, agent, deployment) /\ ModelRequestError(deployment, r) = "none" =>
            deployment \in Accepting(r) /\ agent = Host[deployment]
    BY CandidatesFit DEF Accepting
  <2>6. ASSUME NEW agent, NEW deployment, Fits(r, agent, deployment),
               ModelRequestError(deployment, r) = "none"
        PROVE  Transfers(Host[bound], r) <= Transfers(agent, r)
    <3>1. deployment \in Accepting(r) /\ agent = Host[deployment]
      BY <2>5, <2>6
    <3> QED BY <2>1, <3>1
  <2> QED BY <2>3, <2>4, <2>6 DEF Best
<1>3. CASE ~(Inputs(r) \subseteq Observed(r)) \/ Accepting(r) = {}
  <2>1. Resolve(r).error # "none"
    <3>1. CASE ~(Inputs(r) \subseteq Observed(r)) \/ Candidates(r) = {}
      BY <3>1 DEF Resolve, ResolveModel, Reject
    <3>2. CASE Inputs(r) \subseteq Observed(r) /\ Candidates(r) # {}
      <4> DEFINE first == CHOOSE d \in Candidates(r) : \A other \in Candidates(r) : d <= other
      <4>1. PICK least \in Candidates(r) : \A other \in Candidates(r) : least <= other
        <5>1. Candidates(r) \in SUBSET Nat
          BY EnvironmentAssumption DEF Candidates
        <5> QED BY <3>2, <5>1, LeastExists
      <4>2. first \in Candidates(r)
        BY <4>1, Zenon
      <4>3. Resolve(r) = Reject(ModelRequestError(first, r))
        BY <1>3, <3>2 DEF Resolve, ResolveModel
      <4> HIDE DEF first
      <4>4. ModelRequestError(first, r) # "none"
        BY <1>3, <3>2, <4>2 DEF Accepting
      <4> QED BY <4>3, <4>4 DEF Reject
    <3> QED BY <3>1, <3>2
  <2>2. Inputs(r) \subseteq Observed(r) =>
          \A agent, deployment :
            ~(Fits(r, agent, deployment) /\ ModelRequestError(deployment, r) = "none")
    BY <1>3, CandidatesFit DEF Accepting
  <2> QED BY <2>1, <2>2 DEF Best
<1> QED BY <1>2, <1>3

-----------------------------------------------------------------------------
(* The two preflights.                                                       *)

\* The charges of a request of known inputs are numbers, and both preflights sum them.
LEMMA EstimateSums ==
  ASSUME NEW r \in Requests, NEW deployment \in Deployments, Inputs(r) \subseteq Observed(r)
  PROVE  /\ Total(0, Charges(deployment, r)) \in Nat
         /\ Estimate(deployment, r) = r.prompt + Total(0, Charges(deployment, r))
<1>1. /\ Len(r.inputs) \in Nat /\ r.prompt \in Nat
      /\ \A i \in 1..Len(r.inputs) : r.inputs[i] \in Observed(r)
  <2>1. r.inputs \in Seq(Range(r.inputs)) /\ r.prompt \in Nat
    BY RequestsAssumption
  <2>2. Len(r.inputs) \in Nat /\ DOMAIN r.inputs = 1..Len(r.inputs)
    BY <2>1
  <2> QED BY <2>1, <2>2 DEF Inputs, Range
<1>2. Charges(deployment, r) \in [1..Len(r.inputs) -> Nat]
  <2>1. ASSUME NEW i \in 1..Len(r.inputs)
        PROVE  Tokens(deployment, r.artifacts[r.inputs[i]]) \in Nat
    BY <1>1, RequestsAssumption, EnvironmentAssumption DEF Tokens, Observed
  <2> QED BY <2>1 DEF Charges
<1> QED BY <1>1, <1>2, TotalFrom DEF Estimate

\* The runtime's preflight finds no error when no input has one and the sum fits
\* (resolver.py:166-199).
LEMMA NoErrorFound ==
  ASSUME NEW r \in Requests, NEW deployment \in Deployments
  PROVE  ModelRequestError(deployment, r) = "none" <=>
           /\ \A i \in 1..Len(r.inputs) : ArtifactError(deployment, r.artifacts[r.inputs[i]]) = "none"
           /\ ~(Estimate(deployment, r) + Reserved[deployment] > Window[deployment])
<1> DEFINE error == [i \in 1..Len(r.inputs) |-> ArtifactError(deployment, r.artifacts[r.inputs[i]])]
           failing == {i \in 1..Len(r.inputs) : error[i] # "none"}
           first == CHOOSE i \in failing : \A j \in failing : i <= j
<1>1. CASE failing = {}
  <2>1. \A i \in 1..Len(r.inputs) : ArtifactError(deployment, r.artifacts[r.inputs[i]]) = "none"
    BY <1>1
  <2> QED BY <1>1, <2>1 DEF ModelRequestError
<1>2. CASE failing # {}
  <2>1. PICK least \in failing : \A j \in failing : least <= j
    <3>1. failing \in SUBSET Nat
      OBVIOUS
    <3> HIDE DEF failing
    <3> QED BY <1>2, <3>1, LeastExists
  <2>2. first \in failing
    <3> HIDE DEF failing
    <3> QED BY <2>1, Zenon
  <2>3. ModelRequestError(deployment, r) = error[first]
    BY <1>2 DEF ModelRequestError
  <2> HIDE DEF first
  <2>4. error[first] # "none"
    BY <2>2
  <2>5. ~\A i \in 1..Len(r.inputs) : ArtifactError(deployment, r.artifacts[r.inputs[i]]) = "none"
    BY <2>2
  <2> HIDE DEF error, failing
  <2> QED BY <2>3, <2>4, <2>5
<1> QED BY <1>1, <1>2

\* On known inputs the worker's preflight is the runtime's, but that it sees which
\* text does not decode (resolver.py:158-199, model_backend.py:141-167).
LEMMA PreflightsMatch ==
  ASSUME NEW r \in Requests, NEW deployment \in Deployments, Inputs(r) \subseteq Observed(r)
  PROVE  WorkerAccepts(deployment, r) <=>
           /\ ModelRequestError(deployment, r) = "none"
           /\ \A id \in Inputs(r) : r.artifacts[id].media # "undecodable"
<1> DEFINE taken(id) == ArtifactError(deployment, r.artifacts[id]) = "none"
           sum == Total(0, Charges(deployment, r))
<1>1. /\ "text" \in Modalities[deployment]
      /\ Window[deployment] \in Nat /\ Reserved[deployment] \in Nat /\ r.prompt \in Nat
      /\ \A id \in Inputs(r) :
           r.artifacts[id].media \in {"text", "undecodable", "image", "other", "unknown"}
  BY EnvironmentAssumption, RequestsAssumption DEF Observed
<1>2. \A id \in Inputs(r) :
        r.artifacts[id].media \in Modalities[deployment] \cap {"text", "image"} <=>
          taken(id) /\ r.artifacts[id].media # "undecodable"
  BY <1>1 DEF ArtifactError
<1>3. (\A i \in 1..Len(r.inputs) : taken(r.inputs[i])) <=> \A id \in Inputs(r) : taken(id)
  <2>1. DOMAIN r.inputs = 1..Len(r.inputs)
    BY RequestsAssumption
  <2> HIDE DEF taken
  <2> QED BY <2>1 DEF Inputs, Range
<1>4. ModelRequestError(deployment, r) = "none" <=>
        /\ \A id \in Inputs(r) : taken(id)
        /\ ~(Estimate(deployment, r) + Reserved[deployment] > Window[deployment])
  BY <1>3, NoErrorFound
<1>5. WorkerAccepts(deployment, r) <=>
        /\ \A id \in Inputs(r) : r.artifacts[id].media \in Modalities[deployment] \cap {"text", "image"}
        /\ r.prompt + sum + Reserved[deployment] <= Window[deployment]
  BY <1>1 DEF WorkerAccepts
<1>6. sum \in Nat /\ Estimate(deployment, r) = r.prompt + sum
  BY EstimateSums
<1> HIDE DEF taken, sum
<1>7. ~(Estimate(deployment, r) + Reserved[deployment] > Window[deployment]) <=>
        r.prompt + sum + Reserved[deployment] <= Window[deployment]
  BY <1>1, <1>6
<1> QED BY <1>2, <1>4, <1>5, <1>7

-----------------------------------------------------------------------------
\* The answer is the one that resolve computes.
AnswerIsResolved ==
  /\ request \in Requests
  /\ answer # Unanswered => answer = Resolve(request)

LEMMA Invariance == Spec => []AnswerIsResolved
<1>1. Init => AnswerIsResolved
  BY DEF Init, AnswerIsResolved
<1>2. AnswerIsResolved /\ [Next]_vars => AnswerIsResolved'
  BY DEF AnswerIsResolved, Next, Answer, vars
<1> QED BY <1>1, <1>2, PTL DEF Spec

LEMMA EveryRequestIsBest == \A r \in Requests : Best(r)
BY AgentIsBest, DeploymentIsBest

\* What fits is what the request allows.
LEMMA FitsIsAllowed ==
  ASSUME request \in Requests, NEW agent, NEW deployment
  PROVE  Fits(request, agent, deployment) <=> Allows(agent, deployment)
BY LocalMovesNothing DEF Fits, Allows, FeasibleAgents, IsModel

\* Explicit intent is bound or rejected, and what is bound can be executed
\* (README.md:76, resolver.py:53-93, 118-135).
THEOREM BindingAllowed == Spec => []BindingIsAllowed
<1>1. AnswerIsResolved => BindingIsAllowed
  <2> SUFFICES ASSUME AnswerIsResolved, Bound PROVE Allows(answer.agent, answer.deployment)
    BY DEF BindingIsAllowed
  <2>1. answer # Unanswered
    BY DEF Bound, Unanswered, Reject
  <2>2. request \in Requests /\ answer = Resolve(request)
    BY <2>1 DEF AnswerIsResolved
  <2>3. Fits(request, answer.agent, answer.deployment)
    BY <2>2, EveryRequestIsBest DEF Best, Bound
  <2> QED BY <2>2, <2>3, FitsIsAllowed
<1> QED BY <1>1, Invariance, PTL

\* No satisfiable request is rejected, and none is served with more transfers than
\* needed (resolver.py:95-106, 141-156).
THEOREM BindingOptimal == Spec => []BindingIsOptimal
<1>1. AnswerIsResolved => BindingIsOptimal
  <2> SUFFICES ASSUME AnswerIsResolved, answer # Unanswered,
                      Inputs(request) \subseteq Observed(request),
                      NEW agent \in Agents, NEW deployment \in Deployments \cup {NoId},
                      Allows(agent, deployment),
                      IsModel => WorkerAccepts(deployment, request)
               PROVE  Bound /\ Transfers(answer.agent, request) <= Transfers(agent, request)
    BY DEF BindingIsOptimal
  <2>1. request \in Requests /\ answer = Resolve(request)
    BY DEF AnswerIsResolved
  <2>2. Fits(request, agent, deployment)
    BY <2>1, FitsIsAllowed
  <2>3. IsModel => ModelRequestError(deployment, request) = "none"
    BY <2>1, PreflightsMatch DEF Allows
  <2> QED BY <2>1, <2>2, <2>3, EveryRequestIsBest DEF Best, Bound, IsModel
<1> QED BY <1>1, Invariance, PTL

\* What the resolver binds, the worker's preflight accepts, unless a text does not
\* decode (resolver.py:158-199, model_backend.py:141-167).
THEOREM PreflightsAgreed == Spec => []PreflightsAgree
<1>1. AnswerIsResolved => PreflightsAgree
  <2> SUFFICES ASSUME AnswerIsResolved, Bound, IsModel,
                      \A id \in Inputs(request) : request.artifacts[id].media # "undecodable"
               PROVE  WorkerAccepts(answer.deployment, request)
    BY DEF PreflightsAgree
  <2>1. request \in Requests /\ answer = Resolve(request)
    BY DEF AnswerIsResolved, Bound, Unanswered, Reject
  <2>2. Inputs(request) \subseteq Observed(request) /\ answer = ResolveModel(request)
    BY <2>1 DEF Bound, IsModel, Resolve, Reject
  <2>3. answer.deployment \in Accepting(request)
    BY <2>1, <2>2, ModelBindsAccepting DEF Bound
  <2> QED BY <2>1, <2>2, <2>3, PreflightsMatch DEF Accepting, Candidates
<1> QED BY <1>1, Invariance, PTL
=============================================================================
