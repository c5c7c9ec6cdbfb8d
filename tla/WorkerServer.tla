----------------------------- MODULE WorkerServer -----------------------------
(***************************************************************************)
(* The workers of an environment and the requests they serve               *)
(* (src/infra_joint/worker/server.py), for any clients.  A worker is one    *)
(* event loop: a handler runs without interruption between its awaits, and  *)
(* any other handler may run at an await.  The awaits are the request's     *)
(* body, the fetch of a pull, and the media or model backend of an          *)
(* operator.  A client may close its connection at any time; the handler    *)
(* goes on.  The process may die and restart; its files stay.               *)
(***************************************************************************)
EXTENDS Integers, Sequences, FiniteSets

CONSTANTS
  Workers,    \* agent IDs
  Ids,        \* artifact IDs
  Nested,     \* the IDs that contain a slash
  Contents,   \* an artifact's bytes and media type; also its SHA-256
  Actions,    \* the semantic actions a client may ask for
  Awaits,     \* action -> whether its operator awaits a backend
  InputsOf,   \* action -> its sequence of input artifacts
  WritesOf,   \* action -> what the operator may write: a set of sequences
  Slots,      \* bound: requests at the workers at one time
  Missing,    \* no artifact under the ID
  Split,      \* a blob without metadata, left by a crash in store.put
  Free        \* a slot that holds no request

Write == [id : Ids, content : Contents]

ASSUME SetsAssumption == IsFiniteSet(Slots) /\ Nested \subseteq Ids
ASSUME MissingAssumption == Missing \notin Contents /\ Split \notin Contents /\ Missing # Split
ASSUME ActionsAssumption ==
  /\ Awaits \in [Actions -> BOOLEAN]
  /\ InputsOf \in [Actions -> Seq(Ids)]
  /\ \A action \in Actions : WritesOf[action] \subseteq Seq(Write)

\* Within one handler no ID is written twice: frames are numbered, and every
\* other operator writes one artifact.
ASSUME WritesAreDistinct ==
  \A action \in Actions : \A writes \in WritesOf[action] :
    \A j, k \in 1..Len(writes) : writes[j].id = writes[k].id => j = k

PutRequest == [call : {"put"}, worker : Workers, write : Write]
\* The write is the artifact the client expects under its checksum.
PullRequest == [call : {"pull"}, worker : Workers, source : Workers, write : Write]
ExecuteRequest == [call : {"execute"}, worker : Workers, action : Actions]
Request == PutRequest \cup PullRequest \cup ExecuteRequest

\* sent: not yet read by the handler, or its fetch has not reached the source;
\* fetched: the pull's source has replied; running: an operator awaits its
\* backend; answered: the response is on its way to an open connection.
Stages == {"sent", "fetched", "running", "answered"}
Results == {"none", "ok", "refused", "missing", "mismatch", "error"}
Handler == [request : Request, stage : Stages, open : BOOLEAN,
            writes : Seq(Write), result : Results]

ASSUME FreeIsNoHandler == Free \notin Handler

VARIABLES
  store,     \* store[w][id]: what worker w's store holds
  inFlight,  \* the in_flight counter of each worker
  slots      \* the requests being served

workerVars == <<store, inFlight, slots>>

Init ==
  /\ store = [w \in Workers |-> [id \in Ids |-> Missing]]
  /\ inFlight = [w \in Workers |-> 0]
  /\ slots = [s \in Slots |-> Free]

-----------------------------------------------------------------------------
\* Mutant: blobs are listed, whether they have metadata or not.
ListedBlobs(w) == {id \in Ids : store[w][id] # Missing}

\* The artifacts ids() lists and get() returns.
Listed(w) == {id \in Ids : store[w][id] \in Contents}

\* Mutants: a put overwrites; a put refuses every ID that exists.
AcceptsAll(files, write) == TRUE
AcceptsNew(files, write) == files[write.id] = Missing

\* store.put stores a new artifact and returns for an equal one; it raises for a
\* different one, and for an ID of which only a blob exists.
Accepts(files, write) == files[write.id] \in {Missing, write.content}

\* The first n writes of an operator are accepted.
Accepted(files, writes, n) == \A k \in 1..n : Accepts(files, writes[k])

\* The files after the first n writes.
After(files, writes, n) ==
  [id \in Ids |->
     IF \E k \in 1..n : writes[k].id = id
       THEN writes[CHOOSE k \in 1..n : writes[k].id = id].content
       ELSE files[id]]

-----------------------------------------------------------------------------
At(s, call, stage) ==
  slots[s] # Free /\ slots[s].request.call = call /\ slots[s].stage = stage

\* A response to a closed connection is dropped.
Answered(handler, result, writes) ==
  IF handler.open
    THEN [handler EXCEPT !.stage = "answered", !.result = result, !.writes = writes]
    ELSE Free

Answer(s, result, writes) ==
  slots' = [slots EXCEPT ![s] = Answered(slots[s], result, writes)]

\* Mutant: a refused put is not an error.
PutAllSwallowed(s, writes) ==
  LET w == slots[s].request.worker
  IN \E n \in 0..Len(writes) :
       /\ Accepted(store[w], writes, n)
       /\ n < Len(writes) => ~Accepts(store[w], writes[n + 1])
       /\ store' = [store EXCEPT ![w] = After(store[w], writes, n)]
       /\ Answer(s, "ok", writes)

\* The last part of a handler: it puts artifacts, until one is refused, and returns.
PutAll(s, writes) ==
  LET w == slots[s].request.worker
  IN \E n \in 0..Len(writes) :
       /\ Accepted(store[w], writes, n)
       /\ n < Len(writes) => ~Accepts(store[w], writes[n + 1])
       /\ store' = [store EXCEPT ![w] = After(store[w], writes, n)]
       /\ Answer(s, IF n = Len(writes) THEN "ok" ELSE "refused", writes)

\* A client sends a request.
Send(s, request) ==
  /\ slots[s] = Free
  /\ slots' = [slots EXCEPT ![s] = [request |-> request, stage |-> "sent", open |-> TRUE,
                                     writes |-> <<>>, result |-> "none"]]
  /\ UNCHANGED <<store, inFlight>>

\* The client reads the response, or closes the connection before there is one.
Close(s) ==
  /\ slots[s] # Free /\ slots[s].open
  /\ slots' = [slots EXCEPT ![s] = IF slots[s].stage = "answered" THEN Free
                                   ELSE [slots[s] EXCEPT !.open = FALSE]]
  /\ UNCHANGED <<store, inFlight>>

\* A request whose connection was closed before its body was complete.
Drop(s) ==
  /\ slots[s] # Free /\ slots[s].stage = "sent" /\ ~slots[s].open
  /\ slots' = [slots EXCEPT ![s] = Free]
  /\ UNCHANGED <<store, inFlight>>

\* /artifact/{artifact_id} matches one path segment, and the server decodes %2F
\* before it matches: the client's quoting of a slash does not reach the route.
Routed(id) == id \notin Nested

\* PUT /artifact/{artifact_id}; the body may not have the checksum of the header.
PutArtifact(s) ==
  /\ At(s, "put", "sent")
  /\ IF Routed(slots[s].request.write.id)
       THEN \/ PutAll(s, <<slots[s].request.write>>)
            \/ Answer(s, "mismatch", <<>>) /\ UNCHANGED store
       ELSE Answer(s, "missing", <<>>) /\ UNCHANGED store
  /\ UNCHANGED inFlight

\* POST /artifact/pull awaits the fetch: the source's GET handler replies.
FetchArtifact(s) ==
  /\ At(s, "pull", "sent")
  /\ LET source == slots[s].request.source
         id == slots[s].request.write.id
     IN IF Routed(id) /\ id \in Listed(source)
          THEN slots' = [slots EXCEPT ![s].stage = "fetched",
                                      ![s].writes = <<[id |-> id, content |-> store[source][id]]>>]
          ELSE Answer(s, "missing", <<>>)
  /\ UNCHANGED <<store, inFlight>>

FetchFails(s) ==
  /\ At(s, "pull", "sent") \/ At(s, "pull", "fetched")
  /\ Answer(s, "error", <<>>)
  /\ UNCHANGED <<store, inFlight>>

StorePulled(s) ==
  /\ At(s, "pull", "fetched")
  /\ IF slots[s].writes = <<slots[s].request.write>>
       THEN PutAll(s, slots[s].writes)
       ELSE Answer(s, "mismatch", <<>>) /\ UNCHANGED store
  /\ UNCHANGED inFlight

InputsAreListed(s) ==
  \A k \in 1..Len(InputsOf[slots[s].request.action]) :
    InputsOf[slots[s].request.action][k] \in Listed(slots[s].request.worker)

\* POST /execute/operator of an operator without an await, start to end: the
\* counter is raised and lowered again within one step.
ExecuteLocal(s) ==
  /\ At(s, "execute", "sent")
  /\ ~Awaits[slots[s].request.action]
  /\ InputsAreListed(s)
  /\ \E writes \in WritesOf[slots[s].request.action] : PutAll(s, writes)
  /\ UNCHANGED inFlight

\* The action is invalid for its operator, or an input is missing.
ExecuteRejected(s) ==
  /\ At(s, "execute", "sent")
  /\ \/ Answer(s, "error", <<>>)
     \/ ~InputsAreListed(s) /\ Answer(s, "missing", <<>>)
  /\ UNCHANGED <<store, inFlight>>

\* An operator reads its inputs and awaits its backend.
ExecuteBegins(s) ==
  /\ At(s, "execute", "sent")
  /\ Awaits[slots[s].request.action]
  /\ InputsAreListed(s)
  /\ inFlight' = [inFlight EXCEPT ![slots[s].request.worker] = @ + 1]
  /\ slots' = [slots EXCEPT ![s].stage = "running"]
  /\ UNCHANGED store

ExecuteEnds(s) ==
  /\ At(s, "execute", "running")
  /\ inFlight' = [inFlight EXCEPT ![slots[s].request.worker] = @ - 1]
  /\ \E writes \in WritesOf[slots[s].request.action] : PutAll(s, writes)

\* Mutant: only a successful operator gives its unit back.
BackendFailsInFlight(s) ==
  /\ At(s, "execute", "running")
  /\ Answer(s, "error", <<>>)
  /\ UNCHANGED <<store, inFlight>>

\* The backend raises, or sampling yields no frame.
BackendFails(s) ==
  /\ At(s, "execute", "running")
  /\ inFlight' = [inFlight EXCEPT ![slots[s].request.worker] = @ - 1]
  /\ Answer(s, "error", <<>>)
  /\ UNCHANGED store

-----------------------------------------------------------------------------
\* What a handler may be putting when the process dies.
Putting(s) ==
  CASE At(s, "put", "sent") /\ Routed(slots[s].request.write.id) -> {<<slots[s].request.write>>}
    [] At(s, "pull", "fetched") -> {<<slots[s].request.write>>} \cap {slots[s].writes}
    [] At(s, "execute", "sent") ->
         IF ~Awaits[slots[s].request.action] /\ InputsAreListed(s)
           THEN WritesOf[slots[s].request.action] ELSE {}
    [] At(s, "execute", "running") -> WritesOf[slots[s].request.action]
    [] OTHER -> {}

\* The files a crash during these puts leaves: some are done, and of the next one
\* the blob may have been renamed and the metadata not.
Torn(files, writes) ==
  LET Done == {n \in 0..Len(writes) : Accepted(files, writes, n)}
  IN {After(files, writes, n) : n \in Done} \cup
     {[After(files, writes, n - 1) EXCEPT ![writes[n].id] = Split] :
        n \in {k \in Done \ {0} : files[writes[k].id] = Missing}}

\* A file operation of a put raises, and the handler with it.
WriteFails(s) ==
  /\ \E writes \in Putting(s) :
       \E files \in Torn(store[slots[s].request.worker], writes) :
         store' = [store EXCEPT ![slots[s].request.worker] = files]
  /\ inFlight' = IF slots[s].stage = "running"
                   THEN [inFlight EXCEPT ![slots[s].request.worker] = @ - 1] ELSE inFlight
  /\ Answer(s, "error", <<>>)

Served(w) == {s \in Slots : slots[s] # Free /\ slots[s].request.worker = w
                            /\ slots[s].stage # "answered"}

Crash(w) ==
  /\ store' \in {store} \cup
       UNION {{[store EXCEPT ![w] = files] : files \in Torn(store[w], writes)} :
                writes \in UNION {Putting(s) : s \in Served(w)}}
  /\ inFlight' = [inFlight EXCEPT ![w] = 0]
  /\ slots' = [s \in Slots |-> IF s \in Served(w) THEN Answered(slots[s], "error", <<>>)
                               ELSE slots[s]]

-----------------------------------------------------------------------------
Serve(s) ==
  \/ PutArtifact(s)
  \/ FetchArtifact(s) \/ FetchFails(s) \/ StorePulled(s)
  \/ ExecuteLocal(s) \/ ExecuteRejected(s)
  \/ ExecuteBegins(s) \/ ExecuteEnds(s) \/ BackendFails(s)
  \/ WriteFails(s)
  \/ Drop(s)

WorkerNext ==
  \/ \E s \in Slots : Serve(s)
  \/ \E w \in Workers : Crash(w)

Next ==
  \/ WorkerNext
  \/ \E s \in Slots : Close(s) \/ \E request \in Request : Send(s, request)

Spec == Init /\ [][Next]_workerVars

-----------------------------------------------------------------------------
\* Types of the workers' state (server.py:98-113).
WorkersTypeOK ==
  /\ store \in [Workers -> [Ids -> Contents \cup {Missing, Split}]]
  /\ inFlight \in [Workers -> Int]
  /\ slots \in [Slots -> Handler \cup {Free}]

Running(w) ==
  {s \in Slots : At(s, "execute", "running") /\ slots[s].request.worker = w}

\* in_flight is the number of operators at their await, whatever requests
\* interleave, fail, are abandoned by their clients or die with the process: it
\* neither drifts nor goes negative, which would make /state fail its own
\* response model (server.py:59, 287-324).
InFlightIsExact == \A w \in Workers : inFlight[w] = Cardinality(Running(w))

\* What a worker holds under an ID it holds forever: neither a pull that awaited
\* its source while the ID was written, nor a late or repeated request, nor a
\* crash in the middle of an operator's outputs replaces or removes an artifact
\* (server.py:187-224, media.py:275-285).
StoresAreWriteOnce ==
  [][\A w \in Workers, id \in Ids : store[w][id] # Missing => store'[w][id] = store[w][id]]_workerVars

\* What a success names the worker holds with that content, for as long as the
\* response is on its way, whatever is put, fails or crashes meanwhile
\* (server.py:196-201, 219-224, 307-308).
AnswersAreTrue ==
  \A s \in Slots :
    slots[s] # Free /\ slots[s].result = "ok" =>
      \A k \in 1..Len(slots[s].writes) :
        store[slots[s].request.worker][slots[s].writes[k].id] = slots[s].writes[k].content
=============================================================================
