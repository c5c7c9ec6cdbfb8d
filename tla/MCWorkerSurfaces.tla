-------------------------- MODULE MCWorkerSurfaces --------------------------
\* Two agents, one with FFmpeg, and a deployment on each. A URL may lead to the
\* worker it should, to one of the same settings but for one point (FFmpeg, a
\* smaller or larger window, no image modality, another or no deployment, the
\* other agent), or to one that cannot start.
EXTENDS WorkerSurfaces

Agent1 == 1
Agent2 == 2
MCAgents == {Agent1, Agent2}
Common == {"model", "structured", "retrieval", "media.image"}
MCCapabilitiesOf == Agent1 :> Common @@ Agent2 :> Common \cup {"media.ffmpeg"}
MCDeployments == {1, 2}
MCHost == 1 :> Agent1 @@ 2 :> Agent2
Terms(modalities, window) ==
  [model |-> "m", modalities |-> modalities, window |-> window, reserved |-> 1, image_cost |-> 2]
MCContract == 1 :> Terms({"text"}, 4) @@ 2 :> Terms({"text", "image"}, 5)

MCArtifacts ==
  "text" :> [media |-> "text", size |-> 1] @@ "picture" :> [media |-> "image", size |-> 9]
MCPlacements == {<<"text", Agent1>>, <<"picture", Agent2>>}

Proper(agent) ==
  [agent |-> agent, ffmpeg |-> agent = Agent2, deployments |-> agent :> MCContract[agent]]

Asked(operator, inputs, prompt) == [operator |-> operator, inputs |-> inputs, prompt |-> prompt]
MCProposals ==
  {Asked("invoke_model", inputs, prompt) :
     inputs \in {<<>>, <<"text">>, <<"picture">>, <<"text", "text">>}, prompt \in {1, 2}}
    \cup {Asked("filter_records", <<"text">>, 0), Asked("read_artifact", <<"absent">>, 0),
          Asked("make_contact_sheet", <<"picture">>, 0), Asked("sample_frames", <<"text">>, 0),
          Asked("unknown", <<>>, 0)}

MCSettings ==
  [agent \in MCAgents |->
     {Proper(agent), Proper(3 - agent),
      [Proper(agent) EXCEPT !.ffmpeg = ~@],
      [Proper(agent) EXCEPT !.deployments[agent].window = 3],
      [Proper(agent) EXCEPT !.deployments[agent].modalities = {"text"}],
      [Proper(agent) EXCEPT !.deployments = <<>>],
      [Proper(agent) EXCEPT !.deployments[agent].reserved = 5]}]
=============================================================================
