----------------------------- MODULE MCResolver -----------------------------
\* An environment of two agents and three deployments whose order is not their
\* hosts' order, and every request over two artifacts: all policies, feasible,
\* infeasible and unknown targets, repeated and missing inputs, every set of
\* available agents and deployments, and prompts on both sides of each window.
EXTENDS Resolver, TLC

MCAgents == {1, 2}
MCCapabilitiesOf == 1 :> {"model"} @@ 2 :> {"model", "media"}
MCDeployments == {1, 2, 3}
MCHost == 1 :> 2 @@ 2 :> 1 @@ 3 :> 2
MCModalities == 1 :> {"text"} @@ 2 :> {"text", "image"} @@ 3 :> {"text", "image"}
MCWindow == 1 :> 5 @@ 2 :> 4 @@ 3 :> 6
MCReserved == 1 :> 1 @@ 2 :> 1 @@ 3 :> 1
MCImageCost == 1 :> 2 @@ 2 :> 2 @@ 3 :> 3

Policies ==
  [policy : {"auto", "data_local"}, target : {NoId}]
    \cup [policy : {"target_agent"}, target : {1, 2, 9}]
    \cup [policy : {"target_deployment"}, target : {1, 2, 9}]

Locations == {{1}, {2}, {1, 2}}
ArtifactsOf(locations, classes, sizes) == [locations : locations, media : classes, size : sizes]
Snapshots ==
  {"a" :> a : a \in ArtifactsOf(Locations, {"text", "undecodable"}, {1, 3})
                \cup ArtifactsOf(Locations, {"image", "other", "unknown"}, {1})}
  \cup {"a" :> a @@ "b" :> b :
          a \in ArtifactsOf(Locations, {"text", "image"}, {1}),
          b \in ArtifactsOf({{1}, {2}}, {"text", "other"}, {2})}

MCRequests ==
  {[policy |-> p.policy, target |-> p.target, required |-> required, inputs |-> inputs,
    prompt |-> 1, agents |-> agents, deployments |-> deployments, artifacts |-> artifacts] :
     p \in Policies,
     required \in {{}, {"media"}, {"model"}},
     inputs \in {<<>>, <<"a">>, <<"a", "a">>, <<"a", "b">>, <<"b", "b", "a">>},
     agents \in {{1}, {2}, {1, 2}, {1, 2, 9}},
     deployments \in {{}, {1}, {1, 2}, {2, 3}, {1, 2, 3}},
     artifacts \in Snapshots}
=============================================================================
