---------------------------- MODULE MCWorkerServer ----------------------------
\* Two workers, any clients: every put, pull and execution of the constants, two
\* at a time.  The filter writes under the ID it reads; frame sampling writes one
\* or two artifacts, one of them under an ID with a slash.
EXTENDS WorkerServer, TLC

MCAwaits == "filter" :> FALSE @@ "sample" :> TRUE
MCInputsOf == "filter" :> <<"doc">> @@ "sample" :> <<"doc">>
Written(id, content) == [id |-> id, content |-> content]
MCWritesOf ==
  "filter" :> {<<Written("doc", "old")>>}
  @@ "sample" :> {<<Written("frames/1", "old")>>,
                  <<Written("frames/1", "new"), Written("doc", "new")>>}
Symmetry == Permutations(Slots) \cup Permutations(Workers)
===============================================================================
