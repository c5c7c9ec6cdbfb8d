---------------------------- MODULE MCJointRuntime ----------------------------
\* Two workers and two runs.
EXTENDS JointRuntime

Written(id, content) == [id |-> id, content |-> content]
Placed(worker, id, content) == [worker |-> worker, write |-> Written(id, content)]

MCAwaits == "filter" :> FALSE @@ "clip" :> TRUE
MCInputsOf == "filter" :> <<"doc">> @@ "clip" :> <<"doc", "out">>

\* Two tasks, and two operators, use the same IDs for different contents.
ReusedTasks == {<<Placed(1, "doc", "old")>>, <<Placed(2, "doc", "new")>>}
ReusedWritesOf ==
  "filter" :> {<<Written("out", "old")>>, <<Written("out", "new")>>}
  @@ "clip" :> {<<Written("doc", "new")>>}

\* One task, placed twice, and operators whose outputs are determined.
SingleTasks == {<<Placed(1, "doc", "old"), Placed(2, "doc", "old")>>}
SingleWritesOf ==
  "filter" :> {<<Written("out", "new")>>}
  @@ "clip" :> {<<Written("out", "new"), Written("clip", "new")>>}

\* Frames are sampled from a video and put on a contact sheet.
FrameAwaits == "sample" :> TRUE @@ "sheet" :> FALSE
FrameInputsOf == "sample" :> <<"video">> @@ "sheet" :> <<"frames/1">>
FrameTasks == {<<Placed(1, "video", "old")>>}
FrameWritesOf ==
  "sample" :> {<<Written("frames/1", "new")>>} @@ "sheet" :> {<<Written("sheet", "new")>>}

Symmetry == Permutations(Slots)
===============================================================================
