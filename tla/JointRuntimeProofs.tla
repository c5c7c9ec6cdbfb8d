-------------------------- MODULE JointRuntimeProofs --------------------------
(***************************************************************************)
(* One controller and its workers, for any number of workers, artifacts,    *)
(* tasks, actions, runs and requests at a time: the workers keep what they   *)
(* promise any client, and on that the controller's snapshots rest.         *)
(***************************************************************************)
EXTENDS JointRuntime, FiniteSetTheorems, TLAPS

-----------------------------------------------------------------------------
(* The workers, for any clients. *)

Files == [Ids -> Contents \cup {Missing, Split}]

\* Nothing is replaced or removed.
Keeps(old, new) == \A id \in Ids : old[id] # Missing => new[id] = old[id]

IInv == WorkersTypeOK /\ InFlightIsExact

-----------------------------------------------------------------------------
LEMMA WriteOfSequence ==
  ASSUME NEW writes \in Seq(Write), NEW k \in 1..Len(writes)
  PROVE  writes[k].id \in Ids /\ writes[k].content \in Contents
<1>1. writes[k] \in Write
  OBVIOUS
<1> QED BY <1>1 DEF Write

\* Stores: what the first writes of an operator leave.
LEMMA AfterFiles ==
  ASSUME NEW files \in Files, NEW writes \in Seq(Write), NEW n \in 0..Len(writes),
         Accepted(files, writes, n)
  PROVE  After(files, writes, n) \in Files /\ Keeps(files, After(files, writes, n))
<1>1. \A k \in 1..n : writes[k].id \in Ids /\ writes[k].content \in Contents
  BY WriteOfSequence
<1>2. ASSUME NEW id \in Ids
      PROVE  /\ After(files, writes, n)[id] \in Contents \cup {Missing, Split}
             /\ files[id] # Missing => After(files, writes, n)[id] = files[id]
  <2>1. CASE \E k \in 1..n : writes[k].id = id
    <3>1. PICK k \in 1..n : /\ writes[k].id = id
                            /\ After(files, writes, n)[id] = writes[k].content
      BY <2>1 DEF After
    <3>2. files[id] \in {Missing, writes[k].content}
      BY <3>1 DEF Accepted, Accepts
    <3> QED BY <3>1, <3>2, <1>1
  <2>2. CASE ~\E k \in 1..n : writes[k].id = id
    BY <2>2 DEF After, Files
  <2> QED BY <2>1, <2>2
<1>3. After(files, writes, n) = [id \in Ids |-> After(files, writes, n)[id]]
  BY DEF After
<1> QED BY <1>2, <1>3 DEF Files, Keeps

\* And what a crash or an error in the middle of them leaves.
LEMMA TornFiles ==
  ASSUME NEW files \in Files, NEW writes \in Seq(Write), NEW torn \in Torn(files, writes)
  PROVE  torn \in Files /\ Keeps(files, torn)
<1>1. CASE \E n \in 0..Len(writes) : Accepted(files, writes, n) /\ torn = After(files, writes, n)
  BY <1>1, AfterFiles
<1>2. CASE \E n \in 1..Len(writes) :
             /\ Accepted(files, writes, n) /\ files[writes[n].id] = Missing
             /\ torn = [After(files, writes, n - 1) EXCEPT ![writes[n].id] = Split]
  <2>1. PICK n \in 1..Len(writes) :
          /\ Accepted(files, writes, n) /\ files[writes[n].id] = Missing
          /\ torn = [After(files, writes, n - 1) EXCEPT ![writes[n].id] = Split]
    BY <1>2
  <2>2. n - 1 \in 0..Len(writes) /\ Accepted(files, writes, n - 1)
    BY <2>1 DEF Accepted
  <2>3. After(files, writes, n - 1) \in Files /\ Keeps(files, After(files, writes, n - 1))
    BY <2>2, AfterFiles
  <2>4. writes[n].id \in Ids
    BY WriteOfSequence
  <2> QED BY <2>1, <2>3, <2>4 DEF Files, Keeps
<1> QED BY <1>1, <1>2 DEF Torn

-----------------------------------------------------------------------------
LEMMA AnsweredHandler ==
  ASSUME NEW handler \in Handler, NEW result \in Results, NEW writes \in Seq(Write)
  PROVE  /\ Answered(handler, result, writes) \in Handler \cup {Free}
         /\ Answered(handler, result, writes) # Free =>
              Answered(handler, result, writes).stage = "answered"
<1>1. Answered(handler, result, writes) \in Handler \cup {Free}
  BY DEF Answered, Handler, Stages
<1>2. Answered(handler, result, writes) # Free =>
        Answered(handler, result, writes).stage = "answered"
  BY DEF Answered, Handler
<1> QED BY <1>1, <1>2

\* Slots: a response replaces one handler.
LEMMA AnswerSlot ==
  ASSUME WorkersTypeOK, NEW s \in Slots, slots[s] # Free,
         NEW result \in Results, NEW writes \in Seq(Write), Answer(s, result, writes)
  PROVE  /\ slots' \in [Slots -> Handler \cup {Free}]
         /\ \A t \in Slots \ {s} : slots'[t] = slots[t]
         /\ slots'[s] # Free => slots'[s].stage = "answered"
<1>1. slots[s] \in Handler /\ slots \in [Slots -> Handler \cup {Free}]
  BY DEF WorkersTypeOK
<1> QED BY <1>1, AnsweredHandler DEF Answer

\* What a handler is putting are writes of its request.
LEMMA HandlerWrites ==
  ASSUME WorkersTypeOK, NEW s \in Slots, slots[s] # Free
  PROVE  /\ slots[s].request.worker \in Workers
         /\ slots[s].request.call = "put" => slots[s].request.write \in Write
         /\ slots[s].request.call = "pull" =>
              slots[s].request.write \in Write /\ slots[s].request.source \in Workers
         /\ slots[s].request.call = "execute" => slots[s].request.action \in Actions
         /\ slots[s].writes \in Seq(Write)
         /\ slots[s].stage \in Stages
         /\ \A writes \in Putting(s) : writes \in Seq(Write)
<1>1. slots[s] \in Handler
  BY DEF WorkersTypeOK
<1>2. slots[s].request \in Request /\ slots[s].writes \in Seq(Write) /\ slots[s].stage \in Stages
  BY <1>1 DEF Handler
<1>3. /\ slots[s].request.worker \in Workers
      /\ slots[s].request.call = "put" => slots[s].request.write \in Write
      /\ slots[s].request.call = "pull" =>
           slots[s].request.write \in Write /\ slots[s].request.source \in Workers
      /\ slots[s].request.call = "execute" => slots[s].request.action \in Actions
  BY <1>2 DEF Request, PutRequest, PullRequest, ExecuteRequest
<1>4. ASSUME NEW writes \in Putting(s) PROVE writes \in Seq(Write)
  <2>1. slots[s].request.call = "put" => <<slots[s].request.write>> \in Seq(Write)
    BY <1>3
  <2>2. slots[s].request.call = "execute" => WritesOf[slots[s].request.action] \subseteq Seq(Write)
    BY <1>3, ActionsAssumption
  <2> QED BY <1>4, <1>2, <2>1, <2>2 DEF Putting, At
<1> QED BY <1>2, <1>3, <1>4

-----------------------------------------------------------------------------
\* A slot that holds an operator at its await.
IsRunning(h) == h # Free /\ h.request.call = "execute" /\ h.stage = "running"

LEMMA RunningSlots ==
  ASSUME NEW w \in Workers
  PROVE  /\ Running(w) = {t \in Slots : IsRunning(slots[t]) /\ slots[t].request.worker = w}
         /\ IsFiniteSet(Running(w))
<1>1. Running(w) = {t \in Slots : IsRunning(slots[t]) /\ slots[t].request.worker = w}
  BY DEF Running, At, IsRunning
<1> QED BY <1>1, SetsAssumption, FS_Subset

\* A step that touches no running operator leaves the counters exact.
LEMMA InFlightSame ==
  ASSUME WorkersTypeOK, InFlightIsExact, NEW s \in Slots, inFlight' = inFlight,
         \A t \in Slots \ {s} : slots'[t] = slots[t],
         ~IsRunning(slots[s]), ~IsRunning(slots'[s])
  PROVE  InFlightIsExact'
<1>1. ASSUME NEW w \in Workers PROVE Running(w)' = Running(w)
  <2>1. /\ Running(w) = {t \in Slots : IsRunning(slots[t]) /\ slots[t].request.worker = w}
        /\ Running(w)' = {t \in Slots : IsRunning(slots'[t]) /\ slots'[t].request.worker = w}
    BY DEF Running, At, IsRunning
  <2>2. \A t \in Slots : (IsRunning(slots[t]) /\ slots[t].request.worker = w) <=>
                         (IsRunning(slots'[t]) /\ slots'[t].request.worker = w)
    OBVIOUS
  <2> QED BY <2>1, <2>2
<1> QED BY <1>1 DEF InFlightIsExact

\* An operator that begins to wait.
LEMMA InFlightUp ==
  ASSUME WorkersTypeOK, InFlightIsExact, NEW s \in Slots, NEW v \in Workers,
         inFlight' = [inFlight EXCEPT ![v] = @ + 1],
         \A t \in Slots \ {s} : slots'[t] = slots[t],
         ~IsRunning(slots[s]), IsRunning(slots'[s]), slots'[s].request.worker = v
  PROVE  InFlightIsExact'
<1>1. ASSUME NEW w \in Workers PROVE inFlight'[w] = Cardinality(Running(w)')
  <2>1. /\ Running(w) = {t \in Slots : IsRunning(slots[t]) /\ slots[t].request.worker = w}
        /\ Running(w)' = {t \in Slots : IsRunning(slots'[t]) /\ slots'[t].request.worker = w}
    BY DEF Running, At, IsRunning
  <2>2. IsFiniteSet(Running(w)) /\ s \notin Running(w)
    BY RunningSlots, <2>1
  <2>3. CASE w = v
    <3>1. Running(w)' = Running(w) \cup {s}
      BY <2>1, <2>3
    <3>2. Cardinality(Running(w)') = Cardinality(Running(w)) + 1
      BY <2>2, <3>1, FS_AddElement
    <3> QED BY <2>3, <3>2 DEF InFlightIsExact, WorkersTypeOK
  <2>4. CASE w # v
    <3>1. Running(w)' = Running(w)
      BY <2>1, <2>4
    <3> QED BY <2>4, <3>1 DEF InFlightIsExact, WorkersTypeOK
  <2> QED BY <2>3, <2>4
<1> QED BY <1>1 DEF InFlightIsExact

\* An operator that has waited and returns or raises.
LEMMA InFlightDown ==
  ASSUME WorkersTypeOK, InFlightIsExact, NEW s \in Slots, NEW v \in Workers,
         inFlight' = [inFlight EXCEPT ![v] = @ - 1],
         \A t \in Slots \ {s} : slots'[t] = slots[t],
         IsRunning(slots[s]), slots[s].request.worker = v, ~IsRunning(slots'[s])
  PROVE  InFlightIsExact'
<1>1. ASSUME NEW w \in Workers PROVE inFlight'[w] = Cardinality(Running(w)')
  <2>1. /\ Running(w) = {t \in Slots : IsRunning(slots[t]) /\ slots[t].request.worker = w}
        /\ Running(w)' = {t \in Slots : IsRunning(slots'[t]) /\ slots'[t].request.worker = w}
    BY DEF Running, At, IsRunning
  <2>2. IsFiniteSet(Running(w))
    BY RunningSlots
  <2>3. CASE w = v
    <3>1. Running(w)' = Running(w) \ {s} /\ s \in Running(w)
      BY <2>1, <2>3
    <3>2. Cardinality(Running(w)') = Cardinality(Running(w)) - 1
      BY <2>2, <3>1, FS_RemoveElement
    <3> QED BY <2>3, <3>2 DEF InFlightIsExact, WorkersTypeOK
  <2>4. CASE w # v
    <3>1. Running(w)' = Running(w)
      BY <2>1, <2>4
    <3> QED BY <2>4, <3>1 DEF InFlightIsExact, WorkersTypeOK
  <2> QED BY <2>3, <2>4
<1> QED BY <1>1 DEF InFlightIsExact

-----------------------------------------------------------------------------
\* No worker's artifacts are replaced by a step.
Kept == \A w \in Workers : Keeps(store[w], store'[w])

\* What a step may do to the rest of the state.
Others(s) == \A t \in Slots \ {s} : slots'[t] = slots[t]

\* A handler that puts and returns.
LEMMA PutAllStep ==
  ASSUME WorkersTypeOK, NEW s \in Slots, slots[s] # Free,
         NEW writes \in Seq(Write), PutAll(s, writes)
  PROVE  /\ store' \in [Workers -> Files] /\ Kept
         /\ slots' \in [Slots -> Handler \cup {Free}]
         /\ Others(s)
         /\ slots'[s] # Free => slots'[s].stage = "answered"
<1> DEFINE w == slots[s].request.worker
<1>1. w \in Workers /\ store \in [Workers -> Files] /\ store[w] \in Files
  BY HandlerWrites DEF WorkersTypeOK, Files
<1>2. PICK n \in 0..Len(writes) :
        /\ Accepted(store[w], writes, n)
        /\ store' = [store EXCEPT ![w] = After(store[w], writes, n)]
        /\ Answer(s, IF n = Len(writes) THEN "ok" ELSE "refused", writes)
  BY DEF PutAll
<1>3. After(store[w], writes, n) \in Files /\ Keeps(store[w], After(store[w], writes, n))
  BY <1>1, <1>2, AfterFiles
<1>4. store' \in [Workers -> Files] /\ Kept
  BY <1>1, <1>2, <1>3 DEF Kept, Keeps
<1>5. (IF n = Len(writes) THEN "ok" ELSE "refused") \in Results
  BY DEF Results
<1> HIDE DEF w
<1> QED BY <1>2, <1>4, <1>5, AnswerSlot DEF Others

\* A handler that answers and writes nothing.
LEMMA AnswerStep ==
  ASSUME IInv, NEW s \in Slots, slots[s] # Free, slots[s].stage # "running",
         NEW result \in Results, NEW writes \in Seq(Write),
         Answer(s, result, writes), UNCHANGED <<store, inFlight>>
  PROVE  IInv' /\ Kept
<1>1. /\ slots' \in [Slots -> Handler \cup {Free}]
      /\ \A t \in Slots \ {s} : slots'[t] = slots[t]
      /\ slots'[s] # Free => slots'[s].stage = "answered"
  BY AnswerSlot DEF IInv
<1>2. ~IsRunning(slots[s]) /\ ~IsRunning(slots'[s])
  BY <1>1 DEF IsRunning
<1>3. InFlightIsExact'
  BY <1>1, <1>2, InFlightSame DEF IInv
<1> QED BY <1>1, <1>3 DEF IInv, WorkersTypeOK, Kept, Keeps

\* A handler without an await that puts and answers.
LEMMA PutStep ==
  ASSUME IInv, NEW s \in Slots, slots[s] # Free, slots[s].stage # "running",
         NEW writes \in Seq(Write), PutAll(s, writes), UNCHANGED inFlight
  PROVE  IInv' /\ Kept
<1>1. /\ store' \in [Workers -> Files] /\ Kept
      /\ slots' \in [Slots -> Handler \cup {Free}]
      /\ Others(s)
      /\ slots'[s] # Free => slots'[s].stage = "answered"
  BY PutAllStep DEF IInv
<1>2. ~IsRunning(slots[s]) /\ ~IsRunning(slots'[s])
  BY <1>1 DEF IsRunning
<1>3. InFlightIsExact'
  BY <1>1, <1>2, InFlightSame DEF IInv, Others
<1> QED BY <1>1, <1>3 DEF IInv, WorkersTypeOK, Files

\* Every step of a handler.
LEMMA ServeStep ==
  ASSUME IInv, NEW s \in Slots, Serve(s)
  PROVE  IInv' /\ Kept
<1>0. slots \in [Slots -> Handler \cup {Free}] /\ store \in [Workers -> Files]
      /\ inFlight \in [Workers -> Int]
  BY DEF IInv, WorkersTypeOK, Files
<1>a. <<>> \in Seq(Write) /\ {"missing", "mismatch"} \subseteq Results
  BY DEF Results
<1>1. CASE PutArtifact(s)
  <2>1. slots[s] # Free /\ slots[s].stage = "sent" /\ <<slots[s].request.write>> \in Seq(Write)
    BY <1>1, HandlerWrites DEF IInv, PutArtifact, At
  <2>2. CASE PutAll(s, <<slots[s].request.write>>)
    BY <1>1, <2>1, <2>2, PutStep DEF PutArtifact
  <2>3. CASE Answer(s, "mismatch", <<>>) /\ UNCHANGED store
    BY <1>1, <2>1, <2>3, <1>a, AnswerStep DEF PutArtifact
  <2>4. CASE Answer(s, "missing", <<>>) /\ UNCHANGED store
    BY <1>1, <2>1, <2>4, <1>a, AnswerStep DEF PutArtifact
  <2> QED BY <1>1, <2>2, <2>3, <2>4 DEF PutArtifact
<1>2. CASE FetchArtifact(s)
  <2> DEFINE source == slots[s].request.source
             id == slots[s].request.write.id
             fetched == [slots EXCEPT ![s].stage = "fetched",
                                      ![s].writes = <<[id |-> id, content |-> store[source][id]]>>]
  <2>1. /\ slots[s] # Free /\ slots[s].stage = "sent" /\ slots[s].request.call = "pull"
        /\ UNCHANGED <<store, inFlight>>
    BY <1>2 DEF FetchArtifact, At
  <2>2. CASE Answer(s, "missing", <<>>)
    BY <2>1, <2>2, <1>a, AnswerStep
  <2>3. CASE id \in Listed(source) /\ slots' = fetched
    <3>1. store[source][id] \in Contents /\ id \in Ids
      BY <2>3 DEF Listed
    <3>2. <<[id |-> id, content |-> store[source][id]]>> \in Seq(Write)
      BY <3>1 DEF Write
    <3>3. slots[s] \in Handler
      BY <1>0, <2>1
    <3>4. slots'[s] = [slots[s] EXCEPT !.stage = "fetched",
                                       !.writes = <<[id |-> id, content |-> store[source][id]]>>]
      BY <1>0, <2>3
    <3> HIDE DEF source, id
    <3>5. slots'[s] \in Handler /\ slots'[s].stage = "fetched"
      BY <3>2, <3>3, <3>4 DEF Handler, Stages
    <3>6. slots' \in [Slots -> Handler \cup {Free}] /\ \A t \in Slots \ {s} : slots'[t] = slots[t]
      BY <1>0, <2>3, <3>5
    <3>7. ~IsRunning(slots[s]) /\ ~IsRunning(slots'[s])
      BY <2>1, <3>5 DEF IsRunning
    <3>8. InFlightIsExact'
      BY <2>1, <3>6, <3>7, InFlightSame DEF IInv
    <3> QED BY <2>1, <3>6, <3>8 DEF IInv, WorkersTypeOK, Kept, Keeps
  <2> QED BY <1>2, <2>2, <2>3 DEF FetchArtifact
<1>3. CASE FetchFails(s)
  <2>1. slots[s] # Free /\ slots[s].stage # "running" /\ <<>> \in Seq(Write)
    BY <1>3 DEF FetchFails, At
  <2> QED BY <1>3, <2>1, AnswerStep DEF FetchFails, Results
<1>4. CASE StorePulled(s)
  <2>1. slots[s] # Free /\ slots[s].stage = "fetched" /\ slots[s].writes \in Seq(Write)
    BY <1>4, HandlerWrites DEF IInv, StorePulled, At
  <2>2. CASE PutAll(s, slots[s].writes)
    BY <1>4, <2>1, <2>2, PutStep DEF StorePulled
  <2>3. CASE Answer(s, "mismatch", <<>>) /\ UNCHANGED store
    BY <1>4, <2>1, <2>3, <1>a, AnswerStep DEF StorePulled
  <2> QED BY <1>4, <2>2, <2>3 DEF StorePulled
<1>5. CASE ExecuteLocal(s)
  <2>1. slots[s] # Free /\ slots[s].stage = "sent" /\ slots[s].request.action \in Actions
    BY <1>5, HandlerWrites DEF IInv, ExecuteLocal, At
  <2>2. PICK writes \in WritesOf[slots[s].request.action] : PutAll(s, writes)
    BY <1>5 DEF ExecuteLocal
  <2>3. writes \in Seq(Write)
    BY <2>1, ActionsAssumption
  <2> QED BY <1>5, <2>1, <2>2, <2>3, PutStep DEF ExecuteLocal
<1>6. CASE ExecuteRejected(s)
  <2>1. slots[s] # Free /\ slots[s].stage # "running" /\ <<>> \in Seq(Write)
    BY <1>6 DEF ExecuteRejected, At
  <2> QED BY <1>6, <2>1, AnswerStep DEF ExecuteRejected, Results
<1>7. CASE ExecuteBegins(s)
  <2>1. /\ slots[s] # Free /\ slots[s].request.call = "execute" /\ slots[s].stage = "sent"
        /\ slots' = [slots EXCEPT ![s].stage = "running"]
        /\ inFlight' = [inFlight EXCEPT ![slots[s].request.worker] = @ + 1]
        /\ UNCHANGED store /\ slots[s].request.worker \in Workers
    BY <1>7, HandlerWrites DEF IInv, ExecuteBegins, At
  <2>2. slots[s] \in Handler
    BY <1>0, <2>1
  <2>3. slots'[s] = [slots[s] EXCEPT !.stage = "running"]
    BY <1>0, <2>1
  <2>4. /\ slots'[s] \in Handler /\ slots'[s].stage = "running"
        /\ slots'[s].request = slots[s].request
    BY <2>2, <2>3 DEF Handler, Stages
  <2>5. slots' \in [Slots -> Handler \cup {Free}] /\ \A t \in Slots \ {s} : slots'[t] = slots[t]
    BY <1>0, <2>1, <2>4
  <2>6. ~IsRunning(slots[s]) /\ IsRunning(slots'[s])
    BY <2>1, <2>4, FreeIsNoHandler DEF IsRunning
  <2>7. InFlightIsExact'
    BY <2>1, <2>4, <2>5, <2>6, InFlightUp DEF IInv
  <2>8. inFlight' \in [Workers -> Int]
    BY <1>0, <2>1
  <2> QED BY <2>1, <2>5, <2>7, <2>8 DEF IInv, WorkersTypeOK, Kept, Keeps
<1>8. CASE ExecuteEnds(s)
  <2>1. /\ slots[s] # Free /\ slots[s].request.call = "execute" /\ slots[s].stage = "running"
        /\ inFlight' = [inFlight EXCEPT ![slots[s].request.worker] = @ - 1]
        /\ slots[s].request.worker \in Workers /\ slots[s].request.action \in Actions
    BY <1>8, HandlerWrites DEF IInv, ExecuteEnds, At
  <2>2. PICK writes \in WritesOf[slots[s].request.action] : PutAll(s, writes)
    BY <1>8 DEF ExecuteEnds
  <2>3. writes \in Seq(Write)
    BY <2>1, ActionsAssumption
  <2>4. /\ store' \in [Workers -> Files] /\ Kept
        /\ slots' \in [Slots -> Handler \cup {Free}]
        /\ Others(s)
        /\ slots'[s] # Free => slots'[s].stage = "answered"
    BY <2>1, <2>2, <2>3, PutAllStep DEF IInv
  <2>5. IsRunning(slots[s]) /\ ~IsRunning(slots'[s])
    BY <2>1, <2>4 DEF IsRunning
  <2>6. InFlightIsExact'
    BY <2>1, <2>4, <2>5, InFlightDown DEF IInv, Others
  <2>7. inFlight' \in [Workers -> Int]
    BY <1>0, <2>1
  <2> QED BY <2>4, <2>6, <2>7 DEF IInv, WorkersTypeOK, Files
<1>9. CASE BackendFails(s)
  <2>1. /\ slots[s] # Free /\ slots[s].request.call = "execute" /\ slots[s].stage = "running"
        /\ inFlight' = [inFlight EXCEPT ![slots[s].request.worker] = @ - 1]
        /\ slots[s].request.worker \in Workers /\ UNCHANGED store
        /\ Answer(s, "error", <<>>) /\ <<>> \in Seq(Write) /\ "error" \in Results
    BY <1>9, HandlerWrites DEF IInv, BackendFails, At, Results
  <2>2. /\ slots' \in [Slots -> Handler \cup {Free}]
        /\ \A t \in Slots \ {s} : slots'[t] = slots[t]
        /\ slots'[s] # Free => slots'[s].stage = "answered"
    BY <2>1, AnswerSlot DEF IInv
  <2>3. IsRunning(slots[s]) /\ ~IsRunning(slots'[s])
    BY <2>1, <2>2 DEF IsRunning
  <2>4. InFlightIsExact'
    BY <2>1, <2>2, <2>3, InFlightDown DEF IInv
  <2>5. inFlight' \in [Workers -> Int]
    BY <1>0, <2>1
  <2> QED BY <2>1, <2>2, <2>4, <2>5 DEF IInv, WorkersTypeOK, Kept, Keeps
<1>10. CASE WriteFails(s)
  <2> DEFINE w == slots[s].request.worker
  <2>0. PICK writes \in Putting(s) :
          \E files \in Torn(store[w], writes) : store' = [store EXCEPT ![w] = files]
    BY <1>10 DEF WriteFails
  <2>1. PICK files \in Torn(store[w], writes) : store' = [store EXCEPT ![w] = files]
    BY <2>0
  <2>2. /\ slots[s] # Free /\ Answer(s, "error", <<>>) /\ <<>> \in Seq(Write)
        /\ "error" \in Results
        /\ slots[s].stage = "running" => slots[s].request.call = "execute"
    BY <2>0, <1>10 DEF WriteFails, Putting, At, Results
  <2>3. w \in Workers /\ writes \in Seq(Write) /\ store[w] \in Files
    BY <1>0, <2>2, HandlerWrites DEF IInv
  <2>4. files \in Files /\ Keeps(store[w], files)
    BY <2>3, TornFiles
  <2>5. store' \in [Workers -> Files] /\ Kept
    BY <1>0, <2>1, <2>3, <2>4 DEF Kept, Keeps
  <2>6. /\ slots' \in [Slots -> Handler \cup {Free}]
        /\ \A t \in Slots \ {s} : slots'[t] = slots[t]
        /\ slots'[s] # Free => slots'[s].stage = "answered"
    BY <2>2, AnswerSlot DEF IInv
  <2>7. ~IsRunning(slots'[s])
    BY <2>6 DEF IsRunning
  <2>8. CASE slots[s].stage = "running"
    <3>1. inFlight' = [inFlight EXCEPT ![w] = @ - 1] /\ IsRunning(slots[s])
      BY <1>10, <2>2, <2>8 DEF WriteFails, IsRunning
    <3>2. InFlightIsExact'
      BY <2>3, <2>6, <2>7, <3>1, InFlightDown DEF IInv
    <3>3. inFlight' \in [Workers -> Int]
      BY <1>0, <2>3, <3>1
    <3> QED BY <2>5, <2>6, <3>2, <3>3 DEF IInv, WorkersTypeOK, Files
  <2>9. CASE slots[s].stage # "running"
    <3>1. inFlight' = inFlight /\ ~IsRunning(slots[s])
      BY <1>10, <2>9 DEF WriteFails, IsRunning
    <3>2. InFlightIsExact'
      BY <2>6, <2>7, <3>1, InFlightSame DEF IInv
    <3> QED BY <2>5, <2>6, <3>1, <3>2 DEF IInv, WorkersTypeOK, Files
  <2> QED BY <2>8, <2>9
<1>11. CASE Drop(s)
  <2>1. /\ slots[s] # Free /\ slots[s].stage = "sent" /\ UNCHANGED <<store, inFlight>>
        /\ slots' = [slots EXCEPT ![s] = Free]
    BY <1>11 DEF Drop
  <2>2. /\ slots' \in [Slots -> Handler \cup {Free}]
        /\ \A t \in Slots \ {s} : slots'[t] = slots[t]
        /\ ~IsRunning(slots[s]) /\ ~IsRunning(slots'[s])
    BY <1>0, <2>1 DEF IsRunning
  <2>3. InFlightIsExact'
    BY <2>1, <2>2, InFlightSame DEF IInv
  <2> QED BY <2>1, <2>2, <2>3 DEF IInv, WorkersTypeOK, Kept, Keeps
<1> QED BY <1>1, <1>2, <1>3, <1>4, <1>5, <1>6, <1>7, <1>8, <1>9, <1>10, <1>11 DEF Serve

\* The workers' state at the start.
LEMMA InitInvariant == Init => IInv
<1> SUFFICES ASSUME Init PROVE IInv
  OBVIOUS
<1>1. ASSUME NEW w \in Workers PROVE inFlight[w] = Cardinality(Running(w))
  <2>1. Running(w) = {}
    BY DEF Init, Running, At
  <2> QED BY <2>1, FS_EmptySet DEF Init
<1> QED BY <1>1 DEF Init, IInv, WorkersTypeOK, InFlightIsExact

\* A client that sends a request, reads its response or goes away.
LEMMA ClientStep ==
  ASSUME IInv, NEW s \in Slots,
         Close(s) \/ \E request \in Request : Send(s, request)
  PROVE  IInv' /\ Kept
<1>0. slots \in [Slots -> Handler \cup {Free}] /\ UNCHANGED <<store, inFlight>>
  BY DEF IInv, WorkersTypeOK, Close, Send
<1>1. CASE Close(s)
  <2>1. slots[s] \in Handler /\ slots[s] # Free
    BY <1>0, <1>1 DEF Close
  <2>2. [slots[s] EXCEPT !.open = FALSE] \in Handler
    BY <2>1 DEF Handler
  <2>3. slots' \in [Slots -> Handler \cup {Free}] /\ \A t \in Slots \ {s} : slots'[t] = slots[t]
    BY <1>0, <1>1, <2>2 DEF Close
  <2>4. CASE slots[s].stage = "answered"
    <3>1. ~IsRunning(slots[s]) /\ ~IsRunning(slots'[s])
      BY <1>0, <1>1, <2>4 DEF Close, IsRunning
    <3>2. InFlightIsExact'
      BY <1>0, <2>3, <3>1, InFlightSame DEF IInv
    <3> QED BY <1>0, <2>3, <3>2 DEF IInv, WorkersTypeOK, Kept, Keeps
  <2>5. CASE slots[s].stage # "answered"
    <3>1. slots'[s] = [slots[s] EXCEPT !.open = FALSE]
      BY <1>0, <1>1, <2>5 DEF Close
    <3>2. /\ slots'[s].request = slots[s].request /\ slots'[s].stage = slots[s].stage
          /\ slots'[s] # Free
      BY <2>1, <2>2, <3>1, FreeIsNoHandler DEF Handler
    <3>3. ASSUME NEW w \in Workers PROVE Running(w)' = Running(w)
      BY <2>1, <2>3, <3>2 DEF Running, At
    <3>4. InFlightIsExact'
      BY <1>0, <3>3 DEF IInv, InFlightIsExact
    <3> QED BY <1>0, <2>3, <3>4 DEF IInv, WorkersTypeOK, Kept, Keeps
  <2> QED BY <2>4, <2>5
<1>2. CASE \E request \in Request : Send(s, request)
  <2>1. PICK request \in Request : Send(s, request)
    BY <1>2
  <2> DEFINE new == [request |-> request, stage |-> "sent", open |-> TRUE,
                     writes |-> <<>>, result |-> "none"]
  <2>2. slots[s] = Free /\ slots' = [slots EXCEPT ![s] = new]
    BY <2>1 DEF Send
  <2>3. new \in Handler /\ new.stage = "sent"
    BY DEF Handler, Stages, Results
  <2> HIDE DEF new
  <2>4. /\ slots' \in [Slots -> Handler \cup {Free}]
        /\ \A t \in Slots \ {s} : slots'[t] = slots[t]
        /\ ~IsRunning(slots[s]) /\ ~IsRunning(slots'[s])
    BY <1>0, <2>2, <2>3 DEF IsRunning
  <2>5. InFlightIsExact'
    BY <1>0, <2>4, InFlightSame DEF IInv
  <2> QED BY <1>0, <2>4, <2>5 DEF IInv, WorkersTypeOK, Kept, Keeps
<1> QED BY <1>1, <1>2

\* A worker that dies and restarts serves nothing and counts from zero.
LEMMA CrashStep ==
  ASSUME IInv, NEW w \in Workers, Crash(w)
  PROVE  IInv' /\ Kept
<1>0. slots \in [Slots -> Handler \cup {Free}] /\ store \in [Workers -> Files]
      /\ inFlight \in [Workers -> Int]
  BY DEF IInv, WorkersTypeOK, Files
<1>1. store' \in [Workers -> Files] /\ Kept
  <2>1. CASE store' = store
    BY <1>0, <2>1 DEF Kept, Keeps
  <2>2. CASE store' # store
    <3>1. PICK s \in Served(w) : \E writes \in Putting(s) : \E files \in Torn(store[w], writes) :
                 store' = [store EXCEPT ![w] = files]
      BY <2>2 DEF Crash
    <3>2. PICK writes \in Putting(s) : \E files \in Torn(store[w], writes) :
                 store' = [store EXCEPT ![w] = files]
      BY <3>1
    <3>3. PICK files \in Torn(store[w], writes) : store' = [store EXCEPT ![w] = files]
      BY <3>2
    <3>4. writes \in Seq(Write) /\ store[w] \in Files
      BY <1>0, HandlerWrites DEF IInv, Served
    <3>5. files \in Files /\ Keeps(store[w], files)
      BY <3>4, TornFiles
    <3> QED BY <1>0, <3>3, <3>5 DEF Kept, Keeps
  <2> QED BY <2>1, <2>2
<1>2. ASSUME NEW s \in Slots
      PROVE  /\ slots'[s] \in Handler \cup {Free}
             /\ s \in Served(w) /\ slots'[s] # Free => slots'[s].stage = "answered"
             /\ s \notin Served(w) => slots'[s] = slots[s]
  <2>1. CASE s \in Served(w)
    <3>1. slots[s] \in Handler /\ slots'[s] = Answered(slots[s], "error", <<>>)
      BY <1>0, <2>1 DEF Served, Crash
    <3>2. <<>> \in Seq(Write) /\ "error" \in Results
      BY DEF Results
    <3> QED BY <2>1, <3>1, <3>2, AnsweredHandler
  <2>2. CASE s \notin Served(w)
    BY <1>0, <2>2 DEF Crash
  <2> QED BY <2>1, <2>2
<1>3. slots' \in [Slots -> Handler \cup {Free}]
  BY <1>2 DEF Crash
<1>4. inFlight' = [inFlight EXCEPT ![w] = 0] /\ inFlight' \in [Workers -> Int]
  BY <1>0 DEF Crash
<1>5. Running(w)' = {}
  <2>1. ASSUME NEW s \in Running(w)' PROVE FALSE
    <3>1. s \in Slots /\ slots'[s] # Free /\ slots'[s].stage = "running"
          /\ slots'[s].request.worker = w
      BY <2>1 DEF Running, At
    <3>2. s \notin Served(w) /\ slots'[s] = slots[s]
      BY <1>2, <3>1
    <3> QED BY <3>1, <3>2 DEF Served
  <2> QED BY <2>1
<1>6. ASSUME NEW v \in Workers, v # w PROVE Running(v)' = Running(v)
  <2>1. ASSUME NEW s \in Slots, s \in Served(w) PROVE s \notin Running(v) /\ s \notin Running(v)'
    <3>1. slots'[s] = Free \/ slots'[s].stage = "answered"
      BY <1>2, <2>1
    <3>2. slots[s].request.worker = w
      BY <2>1 DEF Served
    <3> QED BY <1>6, <3>1, <3>2 DEF Running, At
  <2>2. ASSUME NEW s \in Slots, s \notin Served(w) PROVE slots'[s] = slots[s]
    BY <1>2, <2>2
  <2> QED BY <2>1, <2>2 DEF Running, At
<1>7. InFlightIsExact'
  <2>1. ASSUME NEW v \in Workers PROVE inFlight'[v] = Cardinality(Running(v)')
    <3>1. CASE v = w
      BY <1>0, <1>4, <1>5, <3>1, FS_EmptySet
    <3>2. CASE v # w
      BY <1>0, <1>4, <1>6, <3>2 DEF IInv, InFlightIsExact
    <3> QED BY <3>1, <3>2
  <2> QED BY <2>1 DEF InFlightIsExact
<1> QED BY <1>1, <1>3, <1>4, <1>7 DEF IInv, WorkersTypeOK, Files

LEMMA StepInvariant == IInv /\ [Next]_workerVars => IInv' /\ Kept
<1> SUFFICES ASSUME IInv, [Next]_workerVars PROVE IInv' /\ Kept
  OBVIOUS
<1>1. CASE UNCHANGED workerVars
  BY <1>1 DEF workerVars, IInv, WorkersTypeOK, InFlightIsExact, Running, At, Kept, Keeps
<1> QED BY <1>1, ServeStep, ClientStep, CrashStep DEF Next, WorkerNext

\* The inductive invariant behind the theorems below.
THEOREM Invariance == Spec => []IInv
BY InitInvariant, StepInvariant, PTL DEF Spec

-----------------------------------------------------------------------------
\* Types of the workers' state, for any clients (server.py:98-113).
THEOREM TypeCorrect == Spec => []WorkersTypeOK
BY Invariance, PTL DEF IInv

\* in_flight counts the operators at their await, whatever fails, is abandoned or
\* dies (server.py:287-324).
THEOREM InFlightExact == Spec => []InFlightIsExact
BY Invariance, PTL DEF IInv

\* No artifact is ever replaced or removed (server.py:187-224, media.py:275-285).
THEOREM WriteOnce == Spec => StoresAreWriteOnce
<1>1. IInv /\ [Next]_workerVars =>
        [\A w \in Workers, id \in Ids : store[w][id] # Missing => store'[w][id] = store[w][id]]_workerVars
  BY StepInvariant DEF Kept, Keeps
<1> QED BY <1>1, Invariance, PTL DEF Spec, StoresAreWriteOnce

-----------------------------------------------------------------------------
\* What a response that is on its way says is so.
AckHolds(handler, files) ==
  handler # Free =>
    /\ handler.stage # "answered" => handler.result = "none"
    /\ handler.result = "ok" =>
         /\ handler.request.call = "pull" => handler.writes = <<handler.request.write>>
         /\ \A k \in 1..Len(handler.writes) :
              files[handler.request.worker][handler.writes[k].id] = handler.writes[k].content

AcksHold == \A s \in Slots : AckHolds(slots[s], store)

\* It stays so, as nothing is replaced.
LEMMA AckKept ==
  ASSUME WorkersTypeOK, NEW handler \in Handler \cup {Free}, AckHolds(handler, store), Kept
  PROVE  AckHolds(handler, store')
<1>1. CASE handler = Free
  BY <1>1 DEF AckHolds
<1>2. CASE handler # Free
  <2>1. handler.writes \in Seq(Write) /\ handler.request.worker \in Workers
    BY <1>2 DEF Handler, Request, PutRequest, PullRequest, ExecuteRequest
  <2>2. ASSUME NEW k \in 1..Len(handler.writes),
               store[handler.request.worker][handler.writes[k].id] = handler.writes[k].content
        PROVE  store'[handler.request.worker][handler.writes[k].id] = handler.writes[k].content
    <3>1. handler.writes[k].id \in Ids /\ handler.writes[k].content \in Contents
      BY <2>1, WriteOfSequence
    <3> QED BY <2>1, <2>2, <3>1, MissingAssumption DEF Kept, Keeps
  <2> QED BY <1>2, <2>2 DEF AckHolds
<1> QED BY <1>1, <1>2

LEMMA OthersAcked ==
  ASSUME WorkersTypeOK, AcksHold, Kept, NEW s \in Slots, Others(s), AckHolds(slots'[s], store')
  PROVE  AcksHold'
<1>1. ASSUME NEW t \in Slots PROVE AckHolds(slots'[t], store')
  <2>1. CASE t = s
    BY <2>1
  <2>2. CASE t # s
    <3>1. slots[t] \in Handler \cup {Free} /\ AckHolds(slots[t], store) /\ slots'[t] = slots[t]
      BY <2>2 DEF AcksHold, Others, WorkersTypeOK
    <3> QED BY <3>1, AckKept
  <2> QED BY <2>1, <2>2
<1> QED BY <1>1 DEF AcksHold

\* A failure says nothing of the store.
LEMMA FailureAcked ==
  ASSUME WorkersTypeOK, NEW s \in Slots, slots[s] # Free,
         NEW result \in Results \ {"ok"}, NEW writes, Answer(s, result, writes)
  PROVE  AckHolds(slots'[s], store') /\ Others(s)
<1>1. slots[s] \in Handler /\ slots \in [Slots -> Handler \cup {Free}]
  BY DEF WorkersTypeOK
<1>2. slots'[s] = Answered(slots[s], result, writes) /\ Others(s)
  BY <1>1 DEF Answer, Others
<1>3. slots'[s] # Free => slots'[s].stage = "answered" /\ slots'[s].result = result
  BY <1>1, <1>2 DEF Answered, Handler
<1> QED BY <1>2, <1>3 DEF AckHolds

\* After all puts of a handler the store holds each of them.
LEMMA PutAllAcked ==
  ASSUME WorkersTypeOK, NEW s \in Slots, slots[s] # Free, NEW writes \in Seq(Write),
         \A j, k \in 1..Len(writes) : writes[j].id = writes[k].id => j = k,
         slots[s].request.call = "pull" => writes = <<slots[s].request.write>>,
         PutAll(s, writes)
  PROVE  AckHolds(slots'[s], store')
<1> DEFINE w == slots[s].request.worker
<1>1. /\ slots[s] \in Handler /\ slots \in [Slots -> Handler \cup {Free}]
      /\ store \in [Workers -> Files] /\ w \in Workers
  BY HandlerWrites DEF WorkersTypeOK, Files
<1>2. PICK n \in 0..Len(writes) :
        /\ store' = [store EXCEPT ![w] = After(store[w], writes, n)]
        /\ Answer(s, IF n = Len(writes) THEN "ok" ELSE "refused", writes)
  BY DEF PutAll
<1>3. slots'[s] = Answered(slots[s], IF n = Len(writes) THEN "ok" ELSE "refused", writes)
  BY <1>1, <1>2 DEF Answer
<1>4. slots'[s] # Free =>
        /\ slots'[s].stage = "answered" /\ slots'[s].writes = writes
        /\ slots'[s].request = slots[s].request
        /\ slots'[s].result = "ok" => n = Len(writes)
  BY <1>1, <1>3 DEF Answered, Handler
<1>5. ASSUME n = Len(writes), NEW k \in 1..Len(writes)
      PROVE  store'[w][writes[k].id] = writes[k].content
  <2>1. writes[k].id \in Ids
    BY WriteOfSequence
  <2>2. store'[w][writes[k].id] = After(store[w], writes, n)[writes[k].id]
    BY <1>1, <1>2
  <2>3. PICK j \in 1..n : /\ writes[j].id = writes[k].id
                         /\ After(store[w], writes, n)[writes[k].id] = writes[j].content
    BY <1>5, <2>1 DEF After
  <2> QED BY <1>5, <2>2, <2>3
<1> HIDE DEF w
<1> QED BY <1>4, <1>5 DEF AckHolds, w

LEMMA AcksStep ==
  ASSUME IInv, AcksHold, [Next]_workerVars
  PROVE  AcksHold'
<1>0. /\ WorkersTypeOK /\ Kept /\ slots \in [Slots -> Handler \cup {Free}]
  BY StepInvariant DEF IInv, WorkersTypeOK
<1>a. {"missing", "mismatch", "error"} \subseteq Results \ {"ok"}
  BY DEF Results
<1>b. ASSUME NEW write PROVE \A j, k \in 1..Len(<<write>>) : <<write>>[j].id = <<write>>[k].id => j = k
  OBVIOUS
<1>1. ASSUME NEW s \in Slots, slots[s] # Free,
             NEW result \in Results \ {"ok"}, NEW writes, Answer(s, result, writes)
      PROVE  AcksHold'
  BY <1>0, <1>1, FailureAcked, OthersAcked
<1>2. ASSUME NEW s \in Slots, slots[s] # Free, NEW writes \in Seq(Write),
             \A j, k \in 1..Len(writes) : writes[j].id = writes[k].id => j = k,
             slots[s].request.call = "pull" => writes = <<slots[s].request.write>>,
             PutAll(s, writes)
      PROVE  AcksHold'
  BY <1>0, <1>2, PutAllAcked, PutAllStep, OthersAcked
<1>3. ASSUME NEW s \in Slots, Serve(s) PROVE AcksHold'
  <2>1. CASE PutArtifact(s)
    <3>1. /\ slots[s] # Free /\ slots[s].request.call = "put"
          /\ <<slots[s].request.write>> \in Seq(Write)
      BY <1>0, <2>1, HandlerWrites DEF PutArtifact, At
    <3>2. CASE PutAll(s, <<slots[s].request.write>>)
      BY <1>2, <1>b, <3>1, <3>2
    <3>3. CASE Answer(s, "mismatch", <<>>) \/ Answer(s, "missing", <<>>)
      BY <1>1, <1>a, <3>1, <3>3
    <3> QED BY <2>1, <3>2, <3>3 DEF PutArtifact
  <2>2. CASE FetchArtifact(s)
    <3>1. slots[s] # Free /\ slots[s].stage = "sent"
      BY <2>2 DEF FetchArtifact, At
    <3>2. CASE Answer(s, "missing", <<>>)
      BY <1>1, <1>a, <3>1, <3>2
    <3>3. CASE ~Answer(s, "missing", <<>>)
      <4>1. PICK fetched : slots' = [slots EXCEPT ![s].stage = "fetched", ![s].writes = fetched]
        BY <2>2, <3>3 DEF FetchArtifact
      <4>2. slots'[s] = [slots[s] EXCEPT !.stage = "fetched", !.writes = fetched] /\ Others(s)
        BY <1>0, <4>1 DEF Others
      <4>3. slots[s] \in Handler /\ slots[s].result = "none"
        BY <1>0, <3>1 DEF AcksHold, AckHolds
      <4>4. slots'[s].result = "none"
        BY <4>2, <4>3 DEF Handler
      <4> QED BY <1>0, <4>2, <4>4, OthersAcked DEF AckHolds
    <3> QED BY <3>2, <3>3
  <2>3. CASE FetchFails(s) \/ ExecuteRejected(s) \/ BackendFails(s) \/ WriteFails(s)
    <3>1. slots[s] # Free
      BY <2>3 DEF FetchFails, ExecuteRejected, BackendFails, WriteFails, Putting, At
    <3>2. Answer(s, "error", <<>>) \/ Answer(s, "missing", <<>>)
      BY <2>3 DEF FetchFails, ExecuteRejected, BackendFails, WriteFails
    <3> QED BY <1>1, <1>a, <3>1, <3>2
  <2>4. CASE StorePulled(s)
    <3>1. slots[s] # Free /\ slots[s].writes \in Seq(Write)
      BY <1>0, <2>4, HandlerWrites DEF StorePulled, At
    <3>2. CASE slots[s].writes = <<slots[s].request.write>> /\ PutAll(s, slots[s].writes)
      <4>1. \A j, k \in 1..Len(slots[s].writes) :
              slots[s].writes[j].id = slots[s].writes[k].id => j = k
        BY <1>b, <3>2
      <4> QED BY <1>2, <3>1, <3>2, <4>1
    <3>3. CASE Answer(s, "mismatch", <<>>)
      BY <1>1, <1>a, <3>1, <3>3
    <3> QED BY <2>4, <3>2, <3>3 DEF StorePulled
  <2>5. CASE ExecuteLocal(s) \/ ExecuteEnds(s)
    <3>1. /\ slots[s] # Free /\ slots[s].request.call = "execute"
          /\ slots[s].request.action \in Actions
      BY <1>0, <2>5, HandlerWrites DEF ExecuteLocal, ExecuteEnds, At
    <3>2. PICK writes \in WritesOf[slots[s].request.action] : PutAll(s, writes)
      BY <2>5 DEF ExecuteLocal, ExecuteEnds
    <3>3. writes \in Seq(Write)
      BY <3>1, ActionsAssumption
    <3>4. \A j, k \in 1..Len(writes) : writes[j].id = writes[k].id => j = k
      BY <3>1, WritesAreDistinct
    <3> QED BY <1>2, <3>1, <3>2, <3>3, <3>4
  <2>6. CASE ExecuteBegins(s)
    <3>1. /\ slots[s] # Free /\ slots[s].stage = "sent"
          /\ slots' = [slots EXCEPT ![s].stage = "running"]
      BY <2>6 DEF ExecuteBegins, At
    <3>2. slots'[s] = [slots[s] EXCEPT !.stage = "running"] /\ Others(s)
      BY <1>0, <3>1 DEF Others
    <3>3. slots[s] \in Handler /\ slots[s].result = "none"
      BY <1>0, <3>1 DEF AcksHold, AckHolds
    <3>4. slots'[s].result = "none"
      BY <3>2, <3>3 DEF Handler
    <3> QED BY <1>0, <3>2, <3>4, OthersAcked DEF AckHolds
  <2>7. CASE Drop(s)
    <3>1. slots'[s] = Free /\ Others(s)
      BY <1>0, <2>7 DEF Drop, Others
    <3> QED BY <1>0, <3>1, OthersAcked DEF AckHolds
  <2> QED BY <1>3, <2>1, <2>2, <2>3, <2>4, <2>5, <2>6, <2>7 DEF Serve
<1>4. ASSUME NEW s \in Slots, Close(s) PROVE AcksHold'
  <2>1. slots[s] \in Handler /\ slots[s] # Free /\ Others(s) /\ UNCHANGED store
    BY <1>0, <1>4 DEF Close, Others
  <2>2. slots'[s] = Free \/ slots'[s] = [slots[s] EXCEPT !.open = FALSE]
    BY <1>0, <1>4 DEF Close
  <2>3. CASE slots'[s] = Free
    BY <1>0, <2>1, <2>3, OthersAcked DEF AckHolds
  <2>4. CASE slots'[s] = [slots[s] EXCEPT !.open = FALSE]
    <3>1. /\ slots'[s].stage = slots[s].stage /\ slots'[s].result = slots[s].result
          /\ slots'[s].writes = slots[s].writes /\ slots'[s].request = slots[s].request
      BY <2>1, <2>4 DEF Handler
    <3>2. AckHolds(slots[s], store)
      BY DEF AcksHold
    <3>3. AckHolds(slots'[s], store')
      BY <2>1, <3>1, <3>2 DEF AckHolds
    <3> QED BY <1>0, <2>1, <3>3, OthersAcked
  <2> QED BY <2>2, <2>3, <2>4
<1>5. ASSUME NEW s \in Slots, NEW request \in Request, Send(s, request) PROVE AcksHold'
  <2>1. slots'[s].result = "none" /\ Others(s)
    BY <1>0, <1>5 DEF Send, Others
  <2> QED BY <1>0, <2>1, OthersAcked DEF AckHolds
<1>6. ASSUME NEW w \in Workers, Crash(w) PROVE AcksHold'
  <2>1. ASSUME NEW s \in Slots PROVE AckHolds(slots'[s], store')
    <3>1. CASE s \in Served(w)
      <4>1. slots[s] \in Handler /\ slots'[s] = Answered(slots[s], "error", <<>>)
        BY <1>0, <1>6, <3>1 DEF Served, Crash
      <4>2. slots'[s] # Free => slots'[s].stage = "answered" /\ slots'[s].result = "error"
        BY <4>1 DEF Answered, Handler
      <4> QED BY <4>2 DEF AckHolds
    <3>2. CASE s \notin Served(w)
      <4>1. slots'[s] = slots[s] /\ slots[s] \in Handler \cup {Free} /\ AckHolds(slots[s], store)
        BY <1>0, <1>6, <3>2 DEF Crash, AcksHold
      <4> QED BY <1>0, <4>1, AckKept
    <3> QED BY <3>1, <3>2
  <2> QED BY <2>1 DEF AcksHold
<1>7. CASE UNCHANGED workerVars
  BY <1>7 DEF workerVars, AcksHold
<1> QED BY <1>3, <1>4, <1>5, <1>6, <1>7 DEF Next, WorkerNext

\* A worker that answers "ok" holds what the answer names, with that content, for
\* as long as the answer is on its way (server.py:196-201, 219-224, 307-308).
THEOREM Acknowledged == Spec => []AnswersAreTrue
<1>1. Init => AcksHold
  BY DEF Init, AcksHold, AckHolds
<1>2. AcksHold => AnswersAreTrue
  BY DEF AcksHold, AckHolds, AnswersAreTrue
<1> QED BY <1>1, <1>2, AcksStep, Invariance, PTL DEF Spec

\* The workers never lose a request whose client waits.
LEMMA OpenKept ==
  ASSUME WorkersTypeOK, WorkerNext, NEW t \in Slots, slots[t] # Free, slots[t].open
  PROVE  slots'[t] # Free /\ slots'[t].open /\ slots'[t].request = slots[t].request
<1>0. slots \in [Slots -> Handler \cup {Free}] /\ slots[t] \in Handler
  BY DEF WorkersTypeOK
<1>a. <<>> \in Seq(Write) /\ {"missing", "mismatch", "error", "ok", "refused"} \subseteq Results
  BY DEF Results
<1>1. ASSUME NEW result \in Results, NEW writes \in Seq(Write)
      PROVE  LET answer == Answered(slots[t], result, writes)
             IN answer # Free /\ answer.open /\ answer.request = slots[t].request
  <2>1. Answered(slots[t], result, writes) =
          [slots[t] EXCEPT !.stage = "answered", !.result = result, !.writes = writes]
    BY DEF Answered
  <2>2. [slots[t] EXCEPT !.stage = "answered", !.result = result, !.writes = writes] \in Handler
    BY <1>0 DEF Handler, Stages
  <2> QED BY <1>0, <2>1, <2>2, FreeIsNoHandler DEF Handler
<1>2. ASSUME NEW s \in Slots, Serve(s)
      PROVE  slots'[t] # Free /\ slots'[t].open /\ slots'[t].request = slots[t].request
  <2>1. CASE s # t
    <3>1. slots'[t] = slots[t]
      BY <1>0, <1>2, <2>1 DEF Serve, PutArtifact, FetchArtifact, FetchFails, StorePulled, ExecuteLocal,
         ExecuteRejected, ExecuteBegins, ExecuteEnds, BackendFails, WriteFails, Drop, PutAll, Answer
    <3> QED BY <3>1
  <2>2. CASE s = t
    <3>1. CASE \E result \in Results, writes \in Seq(Write) : Answer(t, result, writes)
      BY <1>0, <1>1, <3>1 DEF Answer
    <3>2. CASE \E stage \in Stages, writes \in Seq(Write) :
                 slots'[t] = [slots[t] EXCEPT !.stage = stage, !.writes = writes]
      <4>1. PICK stage \in Stages, writes \in Seq(Write) :
                 slots'[t] = [slots[t] EXCEPT !.stage = stage, !.writes = writes]
        BY <3>2
      <4>2. slots'[t] \in Handler
        BY <1>0, <4>1 DEF Handler
      <4> QED BY <1>0, <4>1, <4>2, FreeIsNoHandler DEF Handler
    <3>3. \/ \E result \in Results, writes \in Seq(Write) : Answer(t, result, writes)
          \/ FetchArtifact(t) \/ ExecuteBegins(t)
      <4>1. CASE PutArtifact(t) \/ StorePulled(t)
        <5>1. <<slots[t].request.write>> \in Seq(Write)
          BY <4>1, HandlerWrites DEF PutArtifact, StorePulled, At
        <5> QED BY <1>a, <4>1, <5>1 DEF PutArtifact, StorePulled, PutAll
      <4>2. CASE FetchFails(t) \/ ExecuteRejected(t) \/ BackendFails(t) \/ WriteFails(t)
        BY <1>a, <4>2 DEF FetchFails, ExecuteRejected, BackendFails, WriteFails
      <4>3. CASE ExecuteLocal(t) \/ ExecuteEnds(t)
        <5>1. slots[t].request.action \in Actions
          BY <4>3, HandlerWrites DEF ExecuteLocal, ExecuteEnds, At
        <5>2. PICK writes \in WritesOf[slots[t].request.action] : PutAll(t, writes)
          BY <4>3 DEF ExecuteLocal, ExecuteEnds
        <5>3. writes \in Seq(Write)
          BY <5>1, ActionsAssumption
        <5> QED BY <1>a, <5>2, <5>3 DEF PutAll
      <4>4. ~Drop(t)
        BY DEF Drop
      <4> QED BY <1>2, <2>2, <4>1, <4>2, <4>3, <4>4 DEF Serve
    <3>4. CASE FetchArtifact(t)
      <4>1. CASE Answer(t, "missing", <<>>)
        BY <1>a, <3>1, <4>1
      <4>2. CASE ~Answer(t, "missing", <<>>)
        <5> DEFINE id == slots[t].request.write.id
                   source == slots[t].request.source
        <5>1. /\ id \in Listed(source)
              /\ slots' = [slots EXCEPT ![t].stage = "fetched",
                                        ![t].writes = <<[id |-> id, content |-> store[source][id]]>>]
          BY <3>4, <4>2 DEF FetchArtifact
        <5>2. <<[id |-> id, content |-> store[source][id]]>> \in Seq(Write)
          BY <5>1 DEF Listed, Write
        <5>3. slots'[t] = [slots[t] EXCEPT !.stage = "fetched",
                                           !.writes = <<[id |-> id, content |-> store[source][id]]>>]
          BY <1>0, <5>1
        <5> QED BY <3>2, <5>2, <5>3 DEF Stages
      <4> QED BY <4>1, <4>2
    <3>5. CASE ExecuteBegins(t)
      <4>1. slots'[t] = [slots[t] EXCEPT !.stage = "running"]
        BY <1>0, <3>5 DEF ExecuteBegins
      <4>2. slots'[t] \in Handler
        BY <1>0, <4>1 DEF Handler, Stages
      <4> QED BY <1>0, <4>1, <4>2, FreeIsNoHandler DEF Handler
    <3> QED BY <3>1, <3>3, <3>4, <3>5
  <2> QED BY <2>1, <2>2
<1>3. ASSUME NEW w \in Workers, Crash(w)
      PROVE  slots'[t] # Free /\ slots'[t].open /\ slots'[t].request = slots[t].request
  <2>1. slots'[t] = slots[t] \/ slots'[t] = Answered(slots[t], "error", <<>>)
    BY <1>3 DEF Crash
  <2> QED BY <1>1, <1>a, <2>1
<1> QED BY <1>2, <1>3 DEF WorkerNext

-----------------------------------------------------------------------------
(* The controller, whose requests are the ones that the workers get. *)

\* The awaited request is at the workers, and its connection is open.
WaitIsServed == waiting # NoRequest => slots[waiting] # Free /\ slots[waiting].open

\* What each phase has of the controller's state.
PhaseControl ==
  /\ phase \in {"idle", "materialize"} => \A w \in Workers : reports[w] = Unprobed
  /\ phase \in {"idle", "observe", "plan"} => waiting = NoRequest
  /\ phase = "materialize" /\ waiting # NoRequest => todo # <<>>
  /\ phase \in {"localize", "execute"} =>
       /\ job \in Job
       /\ job.pulls \subseteq 1..Len(InputsOf[job.action])
       /\ \A k \in 1..Len(InputsOf[job.action]) : Locations(InputsOf[job.action][k]) # {}
  /\ phase = "execute" => job.pulls = {}

\* The pull that is awaited is the next one.
PullMatches ==
  phase = "localize" /\ waiting # NoRequest =>
    \E k \in job.pulls :
      LET request == slots[waiting].request
          id == InputsOf[job.action][k]
      IN /\ IsNext(k)
         /\ request.call = "pull" /\ request.worker = job.target
         /\ request.write = [id |-> id, content |-> Digest(id)]

\* The inputs that are not to be pulled any more are at the target.
Localized ==
  phase \in {"localize", "execute"} =>
    \A k \in 1..Len(InputsOf[job.action]) :
      k \notin job.pulls =>
        store[job.target][InputsOf[job.action][k]] = Digest(InputsOf[job.action][k])

ToldIsStored == \A fact \in told : store[fact.worker][fact.write.id] = fact.write.content

\* While nothing is executed, the snapshot shows what the run was told.
ToldIsReported ==
  phase \in {"idle", "materialize", "observe", "plan"} =>
    \A fact \in told : fact.worker \in Reachable =>
      reports[fact.worker].artifacts[fact.write.id] = fact.write.content

\* What the run was told agrees with the snapshot it plans and executes with.
ToldAgrees ==
  phase \in {"plan", "localize", "execute"} =>
    /\ Consistent
    /\ \A fact \in told : fact.worker \in Reachable =>
         Locations(fact.write.id) # {} /\ Digest(fact.write.id) = fact.write.content

RunTypes ==
  /\ phase \in Phases
  /\ waiting \in Slots \cup {NoRequest}
  /\ todo \in Seq(Placement)
  /\ reports \in [Workers -> Report \cup {Unprobed, Unreachable}]
  /\ job \in Job \cup {NoJob}
  /\ told \subseteq Placement
  /\ runs \in 0..MaxRuns /\ actions \in 0..MaxActions

WorkersInv == IInv /\ AcksHold
RunInv ==
  /\ RunTypes /\ WaitIsServed /\ PhaseControl /\ PullMatches
  /\ SnapshotHolds /\ Localized /\ ToldIsStored /\ ToldIsReported /\ ToldAgrees
JInv == WorkersInv /\ RunInv

-----------------------------------------------------------------------------
\* Snapshots.
LEMMA SnapshotValues ==
  ASSUME RunTypes, NEW w \in Reachable
  PROVE  /\ w \in Workers /\ reports[w] \in Report
         /\ reports[w].artifacts \in [Ids -> Contents \cup {Missing}]
BY DEF RunTypes, Reachable, Report

LEMMA DigestValue ==
  ASSUME RunTypes, NEW id \in Ids, Locations(id) # {}
  PROVE  Digest(id) \in Contents
<1>1. PICK w \in Locations(id) : Digest(id) = reports[w].artifacts[id]
  BY DEF Digest
<1>2. w \in Reachable /\ reports[w].artifacts[id] # Missing
  BY <1>1 DEF Locations
<1> QED BY <1>1, <1>2, SnapshotValues

LEMMA ConsistentDigest ==
  ASSUME Consistent, NEW id \in Ids, NEW w \in Locations(id)
  PROVE  reports[w].artifacts[id] = Digest(id)
<1>1. PICK v \in Locations(id) : Digest(id) = reports[v].artifacts[id]
  BY DEF Digest
<1> QED BY <1>1 DEF Consistent

\* The definitions that only the reports decide.
LEMMA SameReports ==
  ASSUME UNCHANGED reports
  PROVE  /\ Reachable' = Reachable /\ Consistent' = Consistent
         /\ \A id : Locations(id)' = Locations(id) /\ Digest(id)' = Digest(id)
BY DEF Reachable, Consistent, Locations, Digest

-----------------------------------------------------------------------------
\* Facts of an input of an action.
LEMMA InputId ==
  ASSUME NEW a \in Actions, NEW k \in 1..Len(InputsOf[a])
  PROVE  InputsOf[a][k] \in Ids
<1>1. InputsOf[a] \in Seq(Ids)
  BY ActionsAssumption
<1> QED BY <1>1

\* What is stored stays stored.
LEMMA StoredStays ==
  ASSUME Kept, NEW w \in Workers, NEW id \in Ids, NEW content \in Contents,
         store[w][id] = content
  PROVE  store'[w][id] = content
BY MissingAssumption DEF Kept, Keeps

LEMMA SnapshotFrame ==
  ASSUME RunTypes, SnapshotHolds, Kept, UNCHANGED reports
  PROVE  SnapshotHolds'
<1>1. ASSUME NEW w \in Reachable, NEW id \in Ids, reports[w].artifacts[id] # Missing
      PROVE  store'[w][id] = reports[w].artifacts[id]
  <2>1. reports[w].artifacts[id] \in Contents /\ w \in Workers
    BY <1>1, SnapshotValues
  <2>2. store[w][id] = reports[w].artifacts[id]
    BY <1>1 DEF SnapshotHolds
  <2> QED BY <2>1, <2>2, StoredStays
<1>2. Reachable' = Reachable
  BY SameReports
<1> QED BY <1>1, <1>2 DEF SnapshotHolds

LEMMA SnapshotReset ==
  ASSUME \A w \in Workers : reports'[w] = Unprobed
  PROVE  SnapshotHolds' /\ Reachable' = {}
BY DEF SnapshotHolds, Reachable

LEMMA ToldStays ==
  ASSUME RunTypes, ToldIsStored, Kept, NEW fact \in told
  PROVE  store'[fact.worker][fact.write.id] = fact.write.content
<1>1. fact \in Placement
  BY DEF RunTypes
<1>2. fact.worker \in Workers /\ fact.write.id \in Ids /\ fact.write.content \in Contents
  BY <1>1 DEF Placement, Write
<1> QED BY <1>2, StoredStays DEF ToldIsStored

\* What the awaited response tells the run is so.
LEMMA ToldByResponse ==
  ASSUME WorkersInv, RunTypes, waiting # NoRequest,
         slots[waiting].stage = "answered", slots[waiting].result = "ok", slots[waiting] # Free,
         NEW fact \in Told
  PROVE  /\ fact \in Placement
         /\ store[fact.worker][fact.write.id] = fact.write.content
<1>1. waiting \in Slots
  BY DEF RunTypes
<1>2. slots[waiting].request.worker \in Workers /\ slots[waiting].writes \in Seq(Write)
  BY <1>1, HandlerWrites DEF WorkersInv, IInv
<1>3. PICK k \in 1..Len(slots[waiting].writes) :
        fact = [worker |-> slots[waiting].request.worker, write |-> slots[waiting].writes[k]]
  BY DEF Told
<1>4. slots[waiting].writes[k] \in Write
  BY <1>2
<1>5. AckHolds(slots[waiting], store)
  BY <1>1 DEF WorkersInv, AcksHold
<1> QED BY <1>2, <1>3, <1>4, <1>5 DEF AckHolds, Placement

\* A localized input stays localized.
LEMMA LocalizedStays ==
  ASSUME RunTypes, PhaseControl, Localized, Kept, UNCHANGED reports,
         phase \in {"localize", "execute"},
         NEW k \in 1..Len(InputsOf[job.action]), k \notin job.pulls
  PROVE  store'[job.target][InputsOf[job.action][k]] = Digest(InputsOf[job.action][k])
<1> DEFINE id == InputsOf[job.action][k]
<1>1. job.action \in Actions /\ job.target \in Workers /\ Locations(id) # {}
  BY DEF PhaseControl, Job
<1>2. id \in Ids
  BY <1>1, InputId
<1>3. Digest(id) \in Contents
  BY <1>1, <1>2, DigestValue
<1>4. store[job.target][id] = Digest(id)
  BY DEF Localized
<1> QED BY <1>1, <1>2, <1>3, <1>4, StoredStays

\* If the controller's state is as it was, so is what it says, as long as the
\* awaited request is served.
LEMMA WorkersOnly ==
  ASSUME RunInv, Kept, UNCHANGED runVars,
         waiting # NoRequest => /\ slots'[waiting] # Free /\ slots'[waiting].open
                                /\ slots'[waiting].request = slots[waiting].request
  PROVE  RunInv'
<1>0. /\ UNCHANGED <<phase, waiting, todo, reports, job, told, runs, actions>>
      /\ RunTypes /\ SnapshotHolds /\ Localized /\ PhaseControl /\ ToldIsStored
  BY DEF RunInv, runVars
<1>a. /\ Reachable' = Reachable /\ Consistent' = Consistent
      /\ \A id : Locations(id)' = Locations(id) /\ Digest(id)' = Digest(id)
  BY <1>0, SameReports
<1>1. RunTypes'
  BY <1>0 DEF RunTypes
<1>2. WaitIsServed'
  BY <1>0 DEF WaitIsServed
<1>3. PhaseControl'
  BY <1>0, <1>a DEF PhaseControl
<1>4. PullMatches'
  BY <1>0, <1>a DEF RunInv, PullMatches, IsNext
<1>5. SnapshotHolds'
  BY <1>0, SnapshotFrame
<1>6. Localized'
  BY <1>0, <1>a, LocalizedStays DEF Localized
<1>7. ToldIsStored'
  BY <1>0, ToldStays DEF ToldIsStored
<1>8. ToldIsReported'
  BY <1>0, <1>a DEF RunInv, ToldIsReported
<1>9. ToldAgrees'
  BY <1>0, <1>a DEF RunInv, ToldAgrees
<1> QED BY <1>1, <1>2, <1>3, <1>4, <1>5, <1>6, <1>7, <1>8, <1>9 DEF RunInv

-----------------------------------------------------------------------------
\* A step of the run is a step of the workers' clients.
LEMMA AskStep ==
  ASSUME WorkersInv, NEW request \in Request, Ask(request)
  PROVE  /\ Next /\ UNCHANGED store
         /\ waiting = NoRequest /\ waiting' \in Slots
         /\ slots'[waiting'] # Free /\ slots'[waiting'].open
         /\ slots'[waiting'].request = request
<1>1. PICK s \in Slots : Send(s, request) /\ waiting' = s /\ waiting = NoRequest
  BY DEF Ask
<1> DEFINE new == [request |-> request, stage |-> "sent", open |-> TRUE,
                   writes |-> <<>>, result |-> "none"]
<1>2. new \in Handler /\ new.open /\ new.request = request
  BY DEF Handler, Stages, Results
<1>3. slots' = [slots EXCEPT ![s] = new] /\ UNCHANGED store
  BY <1>1 DEF Send
<1>4. slots \in [Slots -> Handler \cup {Free}]
  BY DEF WorkersInv, IInv, WorkersTypeOK
<1>5. Next
  BY <1>1 DEF Next
<1> HIDE DEF new
<1> QED BY <1>1, <1>2, <1>3, <1>4, <1>5, FreeIsNoHandler

LEMMA ReturnedStep ==
  ASSUME WorkersInv, RunInv, Returned
  PROVE  /\ Next /\ UNCHANGED store
         /\ waiting # NoRequest /\ waiting' = NoRequest
         /\ slots[waiting].result = "ok"
         /\ told' = told \cup Told /\ told' \subseteq Placement
         /\ ToldIsStored'
<1>1. /\ waiting # NoRequest /\ waiting \in Slots /\ slots[waiting] # Free
      /\ slots[waiting].stage = "answered" /\ slots[waiting].result = "ok"
  BY DEF Returned, RunInv, RunTypes, WaitIsServed
<1>2. Next /\ UNCHANGED store
  BY <1>1 DEF Returned, Close, Next
<1>3. told' = told \cup Told /\ waiting' = NoRequest
  BY DEF Returned
<1>4. \A fact \in Told : /\ fact \in Placement
                        /\ store[fact.worker][fact.write.id] = fact.write.content
  BY <1>1, ToldByResponse DEF RunInv
<1>5. told \subseteq Placement /\ ToldIsStored
  BY DEF RunInv, RunTypes
<1> QED BY <1>1, <1>2, <1>3, <1>4, <1>5 DEF ToldIsStored

\* A run that is over, or has not begun, says nothing.
LEMMA IdleRun ==
  ASSUME RunTypes', phase' \in {"idle", "materialize"}, told' = {},
         \A w \in Workers : reports'[w] = Unprobed,
         waiting' = NoRequest
  PROVE  RunInv'
<1>1. WaitIsServed' /\ PhaseControl' /\ PullMatches' /\ Localized'
  BY DEF WaitIsServed, PhaseControl, PullMatches, Localized
<1>2. SnapshotHolds' /\ Reachable' = {}
  BY SnapshotReset
<1>3. ToldIsStored' /\ ToldIsReported' /\ ToldAgrees'
  BY DEF ToldIsStored, ToldIsReported, ToldAgrees
<1> QED BY <1>1, <1>2, <1>3 DEF RunInv

LEMMA StartStep ==
  ASSUME JInv, NEW task \in Tasks, Start(task)
  PROVE  UNCHANGED workerVars /\ RunInv'
<1>1. /\ UNCHANGED workerVars /\ phase = "idle" /\ phase' = "materialize" /\ todo' = task
      /\ told' = {} /\ runs < MaxRuns /\ runs' = runs + 1 /\ actions' = 0
      /\ UNCHANGED <<waiting, reports, job>>
  BY DEF Start
<1>2. RunTypes /\ waiting = NoRequest /\ \A w \in Workers : reports[w] = Unprobed
  BY <1>1 DEF JInv, RunInv, PhaseControl
<1>3. todo' \in Seq(Placement) /\ runs' \in 0..MaxRuns /\ actions' \in 0..MaxActions
  BY <1>1, <1>2, TasksAssumption, BoundsAssumption DEF RunTypes
<1>4. RunTypes'
  BY <1>1, <1>2, <1>3 DEF RunTypes, Phases
<1> QED BY <1>1, <1>2, <1>4, IdleRun

LEMMA EndStep ==
  ASSUME JInv, End
  PROVE  [Next]_workerVars /\ RunInv'
<1>1. /\ phase' = "idle" /\ waiting' = NoRequest /\ todo' = <<>>
      /\ reports' = [w \in Workers |-> Unprobed] /\ job' = NoJob /\ told' = {}
      /\ UNCHANGED <<runs, actions>>
  BY DEF End
<1>2. RunTypes
  BY DEF JInv, RunInv
<1>3. RunTypes'
  BY <1>1, <1>2 DEF RunTypes, Phases
<1>4. [Next]_workerVars
  BY <1>2 DEF End, RunTypes, Next
<1> QED BY <1>1, <1>3, <1>4, IdleRun

LEMMA PlacementFacts ==
  ASSUME RunTypes, todo # <<>>
  PROVE  /\ Head(todo).worker \in Workers /\ Head(todo).write \in Write
         /\ Tail(todo) \in Seq(Placement)
<1>1. Head(todo) \in Placement /\ Tail(todo) \in Seq(Placement)
  BY DEF RunTypes
<1> QED BY <1>1 DEF Placement

LEMMA SendPlacementStep ==
  ASSUME JInv, SendPlacement
  PROVE  Next /\ RunInv'
<1> DEFINE request == [call |-> "put", worker |-> Head(todo).worker, write |-> Head(todo).write]
<1>1. /\ phase = "materialize" /\ todo # <<>> /\ Ask(request)
      /\ UNCHANGED <<phase, todo, reports, job, told, runs, actions>>
  BY DEF SendPlacement
<1>2. RunInv /\ RunTypes /\ WorkersInv
  BY DEF JInv, RunInv
<1>3. request \in Request
  BY <1>1, <1>2, PlacementFacts DEF Request, PutRequest
<1>4. /\ Next /\ UNCHANGED store /\ waiting' \in Slots
      /\ slots'[waiting'] # Free /\ slots'[waiting'].open
  BY <1>1, <1>2, <1>3, AskStep
<1>5. RunTypes' /\ WaitIsServed' /\ PhaseControl' /\ PullMatches' /\ Localized'
  BY <1>1, <1>2, <1>4 DEF RunInv, RunTypes, WaitIsServed, PhaseControl, PullMatches, Localized
<1>6. \A w \in Workers : reports'[w] = Unprobed
  BY <1>1, <1>2 DEF RunInv, PhaseControl
<1>7. SnapshotHolds' /\ ToldIsReported' /\ ToldAgrees'
  BY <1>1, <1>6, SnapshotReset DEF ToldIsReported, ToldAgrees
<1>8. ToldIsStored'
  BY <1>1, <1>2, <1>4 DEF RunInv, ToldIsStored
<1> QED BY <1>4, <1>5, <1>7, <1>8 DEF RunInv

LEMMA PlacementReturnedStep ==
  ASSUME JInv, PlacementReturned
  PROVE  Next /\ RunInv'
<1>1. /\ phase = "materialize" /\ Returned /\ todo' = Tail(todo)
      /\ UNCHANGED <<phase, reports, job, runs, actions>>
  BY DEF PlacementReturned
<1>2. RunInv /\ RunTypes /\ WorkersInv
  BY DEF JInv, RunInv
<1>3. Next /\ waiting' = NoRequest /\ told' \subseteq Placement /\ ToldIsStored'
  BY <1>1, <1>2, ReturnedStep
<1>4. Tail(todo) \in Seq(Placement)
  <2>1. todo # <<>>
    BY <1>1, <1>2, ReturnedStep DEF RunInv, PhaseControl
  <2> QED BY <1>2, <2>1, PlacementFacts
<1>5. RunTypes' /\ WaitIsServed' /\ PhaseControl' /\ PullMatches' /\ Localized'
  BY <1>1, <1>2, <1>3, <1>4 DEF RunInv, RunTypes, WaitIsServed, PhaseControl, PullMatches, Localized
<1>6. \A w \in Workers : reports'[w] = Unprobed
  BY <1>1, <1>2 DEF RunInv, PhaseControl
<1>7. SnapshotHolds' /\ ToldIsReported' /\ ToldAgrees'
  BY <1>1, <1>6, SnapshotReset DEF ToldIsReported, ToldAgrees
<1> QED BY <1>3, <1>5, <1>7 DEF RunInv

LEMMA MaterializedStep ==
  ASSUME JInv, Materialized
  PROVE  UNCHANGED workerVars /\ RunInv'
<1>1. /\ phase = "materialize" /\ todo = <<>> /\ phase' = "observe" /\ UNCHANGED workerVars
      /\ UNCHANGED <<waiting, todo, reports, job, told, runs, actions>>
  BY DEF Materialized
<1>2. RunInv /\ RunTypes /\ waiting = NoRequest /\ \A w \in Workers : reports[w] = Unprobed
  BY <1>1 DEF JInv, RunInv, PhaseControl
<1>3. RunTypes' /\ WaitIsServed' /\ PhaseControl' /\ PullMatches' /\ Localized'
  BY <1>1, <1>2 DEF RunTypes, Phases, WaitIsServed, PhaseControl, PullMatches, Localized
<1>4. SnapshotHolds' /\ ToldIsReported' /\ ToldAgrees'
  BY <1>1, <1>2, SnapshotReset DEF ToldIsReported, ToldAgrees
<1>5. ToldIsStored'
  BY <1>1, <1>2 DEF RunInv, ToldIsStored, workerVars
<1> QED BY <1>1, <1>3, <1>4, <1>5 DEF RunInv

\* What /state replies is a report.
LEMMA RepliesAreReports ==
  ASSUME WorkersTypeOK, InFlightIsExact, NEW w \in Workers
  PROVE  [artifacts |-> [id \in Ids |-> IF id \in Listed(w) THEN store[w][id] ELSE Missing],
          inFlight |-> inFlight[w]] \in Report
<1>1. IsFiniteSet(Running(w)) /\ inFlight[w] = Cardinality(Running(w))
  BY RunningSlots DEF InFlightIsExact
<1>2. inFlight[w] \in Nat
  BY <1>1, FS_CardinalityType
<1>3. \A id \in Ids : id \in Listed(w) => store[w][id] \in Contents
  BY DEF Listed
<1> QED BY <1>2, <1>3 DEF Report

\* A worker replies to a probe, or does not.
LEMMA ProbeStep ==
  ASSUME JInv, NEW w \in Workers, Probe(w)
  PROVE  UNCHANGED workerVars /\ RunInv'
<1> DEFINE report == [artifacts |-> [id \in Ids |-> IF id \in Listed(w) THEN store[w][id] ELSE Missing],
                      inFlight |-> inFlight[w]]
<1>1. /\ phase = "observe" /\ UNCHANGED workerVars
      /\ UNCHANGED <<phase, waiting, todo, job, told, runs, actions>>
      /\ \/ reports' = [reports EXCEPT ![w] = Unreachable]
         \/ reports' = [reports EXCEPT ![w] = report]
  BY DEF Probe
<1>2. /\ RunInv /\ RunTypes /\ WorkersTypeOK /\ InFlightIsExact
      /\ reports \in [Workers -> Report \cup {Unprobed, Unreachable}]
  BY DEF JInv, RunInv, RunTypes, WorkersInv, IInv
<1>3. report \in Report
  BY <1>2, RepliesAreReports
<1>4. /\ report.artifacts = [id \in Ids |-> IF id \in Listed(w) THEN store[w][id] ELSE Missing]
      /\ reports' \in [Workers -> Report \cup {Unprobed, Unreachable}]
      /\ \A v \in Workers \ {w} : reports'[v] = reports[v]
      /\ reports'[w] \in {report, Unreachable}
  BY <1>1, <1>2, <1>3
<1>5. RunTypes' /\ WaitIsServed' /\ PhaseControl' /\ PullMatches' /\ Localized' /\ ToldIsStored'
  BY <1>1, <1>2, <1>4
     DEF RunInv, RunTypes, WaitIsServed, PhaseControl, PullMatches, Localized, ToldIsStored, workerVars
<1> HIDE DEF report
<1>6. ASSUME NEW v \in Reachable', NEW id \in Ids
      PROVE  /\ reports'[v].artifacts[id] # Missing => store[v][id] = reports'[v].artifacts[id]
             /\ store[v][id] \in Contents => reports'[v].artifacts[id] = store[v][id]
                                           \/ (v # w /\ v \in Reachable)
  <2>1. v \in Workers
    BY DEF Reachable
  <2>2. CASE v = w
    <3>1. reports'[v] = report
      BY <1>4, <2>2 DEF Reachable
    <3> QED BY <1>4, <2>2, <3>1, MissingAssumption DEF Listed
  <2>3. CASE v # w
    <3>1. reports'[v] = reports[v] /\ v \in Reachable
      BY <1>4, <2>1, <2>3 DEF Reachable
    <3> QED BY <1>2, <2>3, <3>1 DEF RunInv, SnapshotHolds
  <2> QED BY <2>2, <2>3
<1>7. SnapshotHolds'
  BY <1>1, <1>6 DEF SnapshotHolds, workerVars
<1>8. ToldIsReported'
  <2>1. ASSUME NEW fact \in told, fact.worker \in Reachable'
        PROVE  reports'[fact.worker].artifacts[fact.write.id] = fact.write.content
    <3>1. fact.worker \in Workers /\ fact.write.id \in Ids /\ fact.write.content \in Contents
      BY <1>2 DEF RunTypes, Placement, Write
    <3>2. store[fact.worker][fact.write.id] = fact.write.content
      BY <1>2 DEF RunInv, ToldIsStored
    <3>3. CASE fact.worker # w /\ fact.worker \in Reachable
      <4>1. reports[fact.worker].artifacts[fact.write.id] = fact.write.content
        BY <1>1, <1>2, <3>3 DEF RunInv, ToldIsReported
      <4> QED BY <1>4, <3>1, <3>3, <4>1
    <3> QED BY <1>6, <2>1, <3>1, <3>2, <3>3
  <2> QED BY <1>1, <2>1 DEF ToldIsReported
<1>9. ToldAgrees'
  BY <1>1 DEF ToldAgrees
<1> QED BY <1>1, <1>5, <1>7, <1>8, <1>9 DEF RunInv

LEMMA ObservedStep ==
  ASSUME JInv, Observed
  PROVE  UNCHANGED workerVars /\ RunInv'
<1>1. /\ phase = "observe" /\ phase' = "plan" /\ Consistent /\ UNCHANGED workerVars
      /\ UNCHANGED <<waiting, todo, reports, job, told, runs, actions>>
  BY DEF Observed
<1>2. RunInv /\ RunTypes
  BY DEF JInv, RunInv
<1>a. /\ Reachable' = Reachable /\ Consistent' = Consistent
      /\ \A id : Locations(id)' = Locations(id) /\ Digest(id)' = Digest(id)
  BY <1>1, SameReports
<1>3. RunTypes' /\ WaitIsServed' /\ PhaseControl' /\ PullMatches' /\ Localized'
  BY <1>1, <1>2 DEF RunInv, RunTypes, Phases, WaitIsServed, PhaseControl, PullMatches, Localized, workerVars
<1>4. SnapshotHolds' /\ ToldIsStored' /\ ToldIsReported'
  BY <1>1, <1>2, <1>a DEF RunInv, SnapshotHolds, ToldIsStored, ToldIsReported, workerVars
<1>5. ASSUME NEW fact \in told, fact.worker \in Reachable
      PROVE  Locations(fact.write.id) # {} /\ Digest(fact.write.id) = fact.write.content
  <2>1. fact.write.id \in Ids /\ fact.write.content \in Contents
    BY <1>2 DEF RunTypes, Placement, Write
  <2>2. reports[fact.worker].artifacts[fact.write.id] = fact.write.content
    BY <1>1, <1>2, <1>5 DEF RunInv, ToldIsReported
  <2>3. fact.worker \in Locations(fact.write.id)
    BY <1>5, <2>1, <2>2, MissingAssumption DEF Locations
  <2> QED BY <1>1, <2>1, <2>2, <2>3, ConsistentDigest
<1>6. ToldAgrees'
  BY <1>1, <1>5, <1>a DEF ToldAgrees
<1> QED BY <1>1, <1>3, <1>4, <1>6 DEF RunInv

\* An action is bound: what is not to be pulled is at its agent already.
LEMMA ProposeStep ==
  ASSUME JInv, NEW a \in Actions, NEW w \in Workers, Propose(a, w)
  PROVE  UNCHANGED workerVars /\ RunInv'
<1>1. /\ phase = "plan" /\ phase' = "localize" /\ w \in Reachable /\ UNCHANGED workerVars
      /\ \A id \in ToSet(InputsOf[a]) : Locations(id) # {}
      /\ job' = [action |-> a, target |-> w, pulls |-> ToPull(a, w)]
      /\ actions < MaxActions /\ actions' = actions + 1
      /\ UNCHANGED <<waiting, todo, reports, told, runs>>
  BY DEF Propose
<1>2. RunInv /\ RunTypes /\ waiting = NoRequest /\ Consistent
  BY <1>1 DEF JInv, RunInv, PhaseControl, ToldAgrees
<1>a. /\ Reachable' = Reachable /\ Consistent' = Consistent
      /\ \A id : Locations(id)' = Locations(id) /\ Digest(id)' = Digest(id)
  BY <1>1, SameReports
<1>3. /\ job' \in Job /\ job'.action = a /\ job'.target = w /\ job'.pulls = ToPull(a, w)
      /\ ToPull(a, w) \subseteq 1..Len(InputsOf[a])
  BY <1>1 DEF Job, ToPull
<1>4. \A k \in 1..Len(InputsOf[a]) : InputsOf[a][k] \in Ids /\ Locations(InputsOf[a][k]) # {}
  <2>1. ASSUME NEW k \in 1..Len(InputsOf[a]) PROVE InputsOf[a][k] \in ToSet(InputsOf[a])
    <3>1. InputsOf[a] \in Seq(Ids)
      BY ActionsAssumption
    <3> QED BY <3>1 DEF ToSet
  <2> QED BY <1>1, <2>1, InputId
<1>5. actions' \in 0..MaxActions
  BY <1>1, <1>2, BoundsAssumption DEF RunTypes
<1>6. RunTypes' /\ WaitIsServed' /\ PullMatches'
  BY <1>1, <1>2, <1>3, <1>5 DEF RunTypes, Phases, WaitIsServed, PullMatches
<1>7. PhaseControl'
  BY <1>1, <1>2, <1>3, <1>4, <1>a DEF PhaseControl
<1>8. SnapshotHolds' /\ ToldIsStored' /\ ToldIsReported' /\ ToldAgrees'
  BY <1>1, <1>2, <1>a DEF RunInv, SnapshotHolds, ToldIsStored, ToldIsReported, ToldAgrees, workerVars
<1>9. Localized'
  <2>1. ASSUME NEW k \in 1..Len(InputsOf[a]), k \notin ToPull(a, w)
        PROVE  store[w][InputsOf[a][k]] = Digest(InputsOf[a][k])
    <3>1. w \in Locations(InputsOf[a][k])
      BY <2>1 DEF ToPull
    <3>2. reports[w].artifacts[InputsOf[a][k]] = Digest(InputsOf[a][k])
      BY <1>2, <1>4, <3>1, ConsistentDigest
    <3> QED BY <1>2, <1>4, <3>1, <3>2 DEF RunInv, SnapshotHolds, Locations
  <2> QED BY <1>1, <1>3, <1>a, <2>1 DEF Localized, workerVars
<1> QED BY <1>1, <1>6, <1>7, <1>8, <1>9 DEF RunInv

\* Waiting for a call, or having sent one, changes nothing of what is known.
LEMMA KnowledgeFrame ==
  ASSUME RunInv, UNCHANGED <<phase, reports, told, store>>
  PROVE  SnapshotHolds' /\ ToldIsStored' /\ ToldIsReported' /\ ToldAgrees'
<1>1. /\ Reachable' = Reachable /\ Consistent' = Consistent
      /\ \A id : Locations(id)' = Locations(id) /\ Digest(id)' = Digest(id)
  BY SameReports
<1> QED BY <1>1 DEF RunInv, SnapshotHolds, ToldIsStored, ToldIsReported, ToldAgrees

LEMMA SendPullStep ==
  ASSUME JInv, SendPull
  PROVE  Next /\ RunInv'
<1>1. PICK k \in job.pulls, source \in Workers :
        LET id == InputsOf[job.action][k]
        IN /\ IsNext(k) /\ IsSource(source, id)
           /\ Ask([call |-> "pull", worker |-> job.target, source |-> source,
                   write |-> [id |-> id, content |-> Digest(id)]])
  BY DEF SendPull
<1> DEFINE id == InputsOf[job.action][k]
           request == [call |-> "pull", worker |-> job.target, source |-> source,
                       write |-> [id |-> id, content |-> Digest(id)]]
<1>2. /\ phase = "localize" /\ Ask(request)
      /\ UNCHANGED <<phase, todo, reports, job, told, runs, actions>>
  BY <1>1 DEF SendPull
<1>3. RunInv /\ RunTypes /\ WorkersInv /\ PhaseControl
  BY DEF JInv, RunInv
<1>4. /\ job.action \in Actions /\ job.target \in Workers
      /\ k \in 1..Len(InputsOf[job.action]) /\ Locations(id) # {}
  BY <1>1, <1>2, <1>3 DEF PhaseControl, Job
<1>5. id \in Ids /\ Digest(id) \in Contents
  BY <1>3, <1>4, InputId, DigestValue
<1>6. request \in Request
  BY <1>4, <1>5 DEF Request, PullRequest, Write
<1>7. /\ Next /\ UNCHANGED store /\ waiting' \in Slots
      /\ slots'[waiting'] # Free /\ slots'[waiting'].open /\ slots'[waiting'].request = request
  BY <1>2, <1>3, <1>6, AskStep
<1>a. /\ Reachable' = Reachable /\ \A i : Locations(i)' = Locations(i) /\ Digest(i)' = Digest(i)
  BY <1>2, SameReports
<1>8. RunTypes' /\ WaitIsServed' /\ PhaseControl'
  BY <1>2, <1>3, <1>7, <1>a DEF RunTypes, WaitIsServed, PhaseControl
<1>9. PullMatches'
  <2>1. /\ request.call = "pull" /\ request.worker = job.target
        /\ request.write = [id |-> id, content |-> Digest(id)]
    OBVIOUS
  <2>2. IsNext(k)'
    BY <1>1, <1>2 DEF IsNext
  <2> HIDE DEF request
  <2> QED BY <1>1, <1>2, <1>7, <1>a, <2>1, <2>2 DEF PullMatches
<1>10. Localized'
  BY <1>2, <1>3, <1>7, <1>a DEF RunInv, Localized
<1> QED BY <1>2, <1>3, <1>7, <1>8, <1>9, <1>10, KnowledgeFrame DEF RunInv

\* A pull has succeeded: its artifact, as the snapshot knows it, is at the target.
LEMMA PullReturnedStep ==
  ASSUME JInv, PullReturned
  PROVE  Next /\ RunInv'
<1>1. /\ phase = "localize" /\ Returned /\ UNCHANGED <<phase, todo, reports, runs, actions>>
  BY DEF PullReturned
<1>2. RunInv /\ RunTypes /\ WorkersInv /\ PhaseControl /\ Consistent
  BY <1>1 DEF JInv, RunInv, ToldAgrees
<1>3. /\ Next /\ UNCHANGED store /\ waiting # NoRequest /\ waiting' = NoRequest
      /\ slots[waiting].result = "ok"
      /\ told' = told \cup Told /\ told' \subseteq Placement /\ ToldIsStored'
  BY <1>1, <1>2, ReturnedStep
<1>4. waiting \in Slots /\ slots[waiting] # Free
  BY <1>2, <1>3 DEF RunInv, RunTypes, WaitIsServed
<1>5. PICK k \in job.pulls :
        /\ IsNext(k)
        /\ slots[waiting].request.call = "pull" /\ slots[waiting].request.worker = job.target
        /\ slots[waiting].request.write =
             [id |-> InputsOf[job.action][k], content |-> Digest(InputsOf[job.action][k])]
  BY <1>1, <1>2, <1>3 DEF RunInv, PullMatches
<1> DEFINE id == InputsOf[job.action][k]
<1>6. /\ job \in Job /\ job.action \in Actions /\ job.target \in Workers
      /\ job.pulls \subseteq 1..Len(InputsOf[job.action]) /\ Locations(id) # {} /\ id \in Ids
  BY <1>1, <1>2, <1>5, InputId DEF PhaseControl, Job
<1>7. slots[waiting].writes = <<[id |-> id, content |-> Digest(id)]>>
  BY <1>2, <1>3, <1>4, <1>5 DEF WorkersInv, AcksHold, AckHolds
<1>8. Told = {[worker |-> job.target, write |-> [id |-> id, content |-> Digest(id)]]}
  BY <1>5, <1>7 DEF Told
<1>9. store[job.target][id] = Digest(id)
  <2>1. /\ 1 \in 1..Len(slots[waiting].writes)
        /\ slots[waiting].writes[1] = [id |-> id, content |-> Digest(id)]
    BY <1>7
  <2>2. \A j \in 1..Len(slots[waiting].writes) :
          store[slots[waiting].request.worker][slots[waiting].writes[j].id] = slots[waiting].writes[j].content
    BY <1>2, <1>3, <1>4 DEF WorkersInv, AcksHold, AckHolds
  <2> HIDE DEF id
  <2> QED BY <1>5, <2>1, <2>2
<1>10. /\ job' \in Job /\ job'.action = job.action /\ job'.target = job.target
       /\ job'.pulls = job.pulls \ {k}
  <2>1. PICK j \in job.pulls : IsNext(j) /\ job' = [job EXCEPT !.pulls = @ \ {j}]
    BY DEF PullReturned
  <2>2. j = k
    BY <1>5, <1>6, <2>1 DEF IsNext
  <2> QED BY <1>6, <2>1, <2>2 DEF Job
<1>a. /\ Reachable' = Reachable /\ Consistent' = Consistent
      /\ \A i : Locations(i)' = Locations(i) /\ Digest(i)' = Digest(i)
  BY <1>1, SameReports
<1>11. RunTypes' /\ WaitIsServed' /\ PullMatches'
  BY <1>1, <1>2, <1>3, <1>10 DEF RunTypes, WaitIsServed, PullMatches
<1>12. PhaseControl'
  BY <1>1, <1>2, <1>3, <1>10, <1>a DEF PhaseControl
<1>13. Localized'
  BY <1>1, <1>2, <1>3, <1>9, <1>10, <1>a DEF RunInv, Localized
<1>14. SnapshotHolds' /\ ToldIsReported'
  BY <1>1, <1>2, <1>3, <1>a DEF RunInv, SnapshotHolds, ToldIsReported
<1> HIDE DEF id
<1>15. ToldAgrees'
  BY <1>1, <1>2, <1>3, <1>6, <1>8, <1>a DEF RunInv, ToldAgrees
<1> QED BY <1>3, <1>11, <1>12, <1>13, <1>14, <1>15 DEF RunInv

LEMMA SendExecuteStep ==
  ASSUME JInv, SendExecute
  PROVE  Next /\ RunInv'
<1> DEFINE request == [call |-> "execute", worker |-> job.target, action |-> job.action]
<1>1. /\ phase = "localize" /\ phase' = "execute" /\ job.pulls = {} /\ Ask(request)
      /\ UNCHANGED <<todo, reports, job, told, runs, actions>>
  BY DEF SendExecute
<1>2. RunInv /\ RunTypes /\ WorkersInv /\ PhaseControl
  BY DEF JInv, RunInv
<1>3. request \in Request
  BY <1>1, <1>2 DEF PhaseControl, Job, Request, ExecuteRequest
<1>4. /\ Next /\ UNCHANGED store /\ waiting' \in Slots
      /\ slots'[waiting'] # Free /\ slots'[waiting'].open
  BY <1>1, <1>2, <1>3, AskStep
<1>a. /\ Reachable' = Reachable /\ Consistent' = Consistent
      /\ \A i : Locations(i)' = Locations(i) /\ Digest(i)' = Digest(i)
  BY <1>1, SameReports
<1>5. RunTypes' /\ WaitIsServed' /\ PhaseControl' /\ PullMatches'
  BY <1>1, <1>2, <1>4, <1>a DEF RunTypes, Phases, WaitIsServed, PhaseControl, PullMatches
<1>6. Localized'
  BY <1>1, <1>2, <1>4, <1>a DEF RunInv, Localized
<1>7. SnapshotHolds' /\ ToldIsStored' /\ ToldIsReported' /\ ToldAgrees'
  BY <1>1, <1>2, <1>4, <1>a DEF RunInv, SnapshotHolds, ToldIsStored, ToldIsReported, ToldAgrees
<1> QED BY <1>4, <1>5, <1>6, <1>7 DEF RunInv

LEMMA ExecuteReturnedStep ==
  ASSUME JInv, ExecuteReturned
  PROVE  Next /\ RunInv'
<1>1. /\ phase = "execute" /\ Returned /\ phase' = "observe" /\ job' = NoJob
      /\ reports' = [w \in Workers |-> Unprobed] /\ UNCHANGED <<todo, runs, actions>>
  BY DEF ExecuteReturned
<1>2. RunInv /\ RunTypes /\ WorkersInv
  BY DEF JInv, RunInv
<1>3. Next /\ waiting' = NoRequest /\ told' \subseteq Placement /\ ToldIsStored'
  BY <1>1, <1>2, ReturnedStep
<1>4. RunTypes' /\ WaitIsServed' /\ PhaseControl' /\ PullMatches' /\ Localized'
  BY <1>1, <1>2, <1>3 DEF RunTypes, Phases, WaitIsServed, PhaseControl, PullMatches, Localized
<1>5. SnapshotHolds' /\ ToldIsReported' /\ ToldAgrees'
  BY <1>1, SnapshotReset DEF ToldIsReported, ToldAgrees
<1> QED BY <1>3, <1>4, <1>5 DEF RunInv

-----------------------------------------------------------------------------
LEMMA InitJoint == Init /\ RunInit => JInv
<1> SUFFICES ASSUME Init, RunInit PROVE JInv
  OBVIOUS
<1>1. WorkersInv
  BY InitInvariant DEF Init, WorkersInv, AcksHold, AckHolds
<1>2. RunTypes
  BY BoundsAssumption DEF RunInit, RunTypes, Phases
<1>3. WaitIsServed /\ PhaseControl /\ PullMatches /\ Localized
  BY DEF RunInit, WaitIsServed, PhaseControl, PullMatches, Localized
<1>4. SnapshotHolds /\ ToldIsStored /\ ToldIsReported /\ ToldAgrees
  BY DEF RunInit, SnapshotHolds, Reachable, ToldIsStored, ToldIsReported, ToldAgrees
<1> QED BY <1>1, <1>2, <1>3, <1>4 DEF JInv, RunInv

\* Every step of the system is a step that the workers allow some client.
LEMMA StepJoint == JInv /\ [JointNext]_vars => JInv' /\ [Next]_workerVars /\ Kept
<1> SUFFICES ASSUME JInv, [JointNext]_vars PROVE JInv' /\ [Next]_workerVars /\ Kept
  OBVIOUS
<1>1. [Next]_workerVars => WorkersInv' /\ Kept
  BY StepInvariant, AcksStep DEF JInv, WorkersInv
<1>2. CASE RunNext
  <2>1. [Next]_workerVars /\ RunInv'
    BY <1>2, StartStep, SendPlacementStep, PlacementReturnedStep, MaterializedStep, ProbeStep,
       ObservedStep, ProposeStep, SendPullStep, PullReturnedStep, SendExecuteStep,
       ExecuteReturnedStep, EndStep DEF RunNext
  <2> QED BY <1>1, <2>1 DEF JInv
<1>3. CASE WorkerNext /\ UNCHANGED runVars
  <2>1. [Next]_workerVars
    BY <1>3 DEF Next
  <2>2. RunInv'
    <3>1. RunInv /\ WorkersTypeOK /\ (waiting # NoRequest => waiting \in Slots)
      BY DEF JInv, RunInv, RunTypes, WorkersInv, IInv
    <3>2. waiting # NoRequest =>
            /\ slots'[waiting] # Free /\ slots'[waiting].open
            /\ slots'[waiting].request = slots[waiting].request
      BY <1>3, <3>1, OpenKept DEF RunInv, WaitIsServed
    <3> QED BY <1>1, <1>3, <2>1, <3>1, <3>2, WorkersOnly
  <2> QED BY <1>1, <2>1, <2>2 DEF JInv
<1>4. CASE UNCHANGED vars
  <2>1. [Next]_workerVars /\ UNCHANGED runVars /\ UNCHANGED slots
    BY <1>4 DEF vars, workerVars
  <2>2. RunInv'
    BY <1>1, <2>1, WorkersOnly DEF JInv, RunInv, WaitIsServed
  <2> QED BY <1>1, <2>1, <2>2 DEF JInv
<1> QED BY <1>2, <1>3, <1>4 DEF JointNext

\* The inductive invariant behind the theorems below.
THEOREM JointInvariance == JointSpec => []JInv
BY InitJoint, StepJoint, PTL DEF JointSpec

-----------------------------------------------------------------------------
\* The controller is one of the clients for which the workers are proved: what
\* holds of the workers holds in the system (client.py:50-108).
THEOREM JointImplementsWorkers == JointSpec => Spec
<1>1. Init /\ RunInit => Init
  OBVIOUS
<1> QED BY <1>1, StepJoint, JointInvariance, PTL DEF JointSpec, Spec

\* Types of the whole system (executor.py:85-117, observer.py:57-71).
THEOREM JointTypeCorrect == JointSpec => []TypeOK
<1>1. JInv => TypeOK
  BY DEF JInv, WorkersInv, IInv, RunInv, RunTypes, TypeOK
<1> QED BY <1>1, JointInvariance, PTL

\* A snapshot stays true while it is used (observer.py:43-57, executor.py:91-101).
THEOREM SnapshotsHold == JointSpec => []SnapshotHolds
BY JointInvariance, PTL DEF JInv, RunInv

\* An action reaches an agent that holds the inputs the snapshot promised
\* (executor.py:72-117).
THEOREM InputsFaithful == JointSpec => []InputsAreFaithful
<1>1. ASSUME JInv, phase = "execute", NEW id \in ToSet(InputsOf[job.action])
      PROVE  store[job.target][id] = Digest(id)
  <2>1. RunInv /\ job \in Job /\ job.pulls = {}
    BY <1>1 DEF JInv, RunInv, PhaseControl
  <2>2. InputsOf[job.action] \in Seq(Ids)
    BY <2>1, ActionsAssumption DEF Job
  <2>3. PICK k \in 1..Len(InputsOf[job.action]) : id = InputsOf[job.action][k]
    BY <1>1, <2>2 DEF ToSet
  <2> QED BY <1>1, <2>1, <2>3 DEF RunInv, Localized
<1>2. JInv => InputsAreFaithful
  BY <1>1 DEF InputsAreFaithful
<1> QED BY <1>2, JointInvariance, PTL

\* What a response has told the run is neither lost nor missing from a snapshot
\* (observer.py:86-110).
THEOREM ToldObserved == JointSpec => []ToldIsObserved
<1>1. JInv => ToldIsObserved
  BY DEF JInv, RunInv, ToldIsStored, ToldIsReported, ToldIsObserved
<1> QED BY <1>1, JointInvariance, PTL

\* The planner never sees an ID with two meanings (observer.py:95-99).
THEOREM EvidenceConsistent == JointSpec => []EvidenceIsConsistent
<1>1. JInv => EvidenceIsConsistent
  BY DEF JInv, RunInv, ToldAgrees, EvidenceIsConsistent
<1> QED BY <1>1, JointInvariance, PTL

\* Replicas that differ do so forever (observer.py:95-99).
THEOREM DivergencePermanent == JointSpec => DivergenceIsPermanent
<1>1. ASSUME JInv, [JointNext]_vars, NEW id \in Ids, Diverged(id) PROVE Diverged(id)'
  <2>1. PICK v, w \in Workers : id \in Listed(v) /\ id \in Listed(w) /\ store[v][id] # store[w][id]
    BY <1>1 DEF Diverged
  <2>2. store'[v][id] = store[v][id] /\ store'[w][id] = store[w][id]
    BY <1>1, <2>1, StepJoint, StoredStays DEF Listed
  <2> QED BY <2>1, <2>2 DEF Diverged, Listed
<1>2. JInv /\ [JointNext]_vars => [\A id \in Ids : Diverged(id) => Diverged(id)']_vars
  BY <1>1
<1> QED BY <1>2, JointInvariance, PTL DEF JointSpec, DivergenceIsPermanent

-----------------------------------------------------------------------------
\* If every ID is given one content, repeating a call is harmless.  What the
\* files hold, what a client asks to store and what a task still has to place are
\* then artifacts of Writes, and a refusal is explained by a split pair.
FilesAreWrites(files) ==
  \A id \in Ids : files[id] \in Contents => [id |-> id, content |-> files[id]] \in Writes
StoredWrites == \A w \in Workers : FilesAreWrites(store[w])
Repeatable(handler, files) ==
  handler # Free =>
    /\ handler.request.call \in {"put", "pull"} => handler.request.write \in Writes
    /\ handler.result = "refused" => \E id \in Ids : files[handler.request.worker][id] = Split
HandlersRepeatable == \A s \in Slots : Repeatable(slots[s], store)
TodoWrites == \A k \in 1..Len(todo) : todo[k].write \in Writes
RepeatsInv == StoredWrites /\ HandlersRepeatable /\ TodoWrites

AreWrites(writes) == writes \in Seq(Write) /\ \A k \in 1..Len(writes) : writes[k] \in Writes

LEMMA SingleWrite ==
  ASSUME NEW write \in Write, write \in Writes
  PROVE  AreWrites(<<write>>)
BY DEF AreWrites

LEMMA ActionWrites ==
  ASSUME NEW a \in Actions, NEW writes \in WritesOf[a]
  PROVE  AreWrites(writes)
<1>1. writes \in Seq(Write)
  BY ActionsAssumption
<1>2. \A k \in 1..Len(writes) : writes[k] \in ToSet(writes)
  BY <1>1 DEF ToSet
<1>3. writes \in UNION {WritesOf[b] : b \in Actions}
  OBVIOUS
<1>4. ToSet(writes) \in {ToSet(puts) : puts \in UNION {WritesOf[b] : b \in Actions}}
  BY <1>3
<1>5. ToSet(writes) \subseteq Writes
  BY <1>4 DEF Writes
<1> QED BY <1>1, <1>2, <1>5 DEF AreWrites

LEMMA AfterWrites ==
  ASSUME NEW files \in Files, FilesAreWrites(files),
         NEW writes, AreWrites(writes), NEW n \in 0..Len(writes)
  PROVE  FilesAreWrites(After(files, writes, n))
<1> SUFFICES ASSUME NEW id \in Ids, After(files, writes, n)[id] \in Contents
             PROVE  [id |-> id, content |-> After(files, writes, n)[id]] \in Writes
  BY DEF FilesAreWrites
<1>1. CASE \E k \in 1..n : writes[k].id = id
  <2>1. PICK k \in 1..n : /\ writes[k].id = id
                          /\ After(files, writes, n)[id] = writes[k].content
    BY <1>1 DEF After
  <2>2. writes[k] \in Write /\ writes[k] \in Writes
    BY DEF AreWrites
  <2>3. writes[k] = [id |-> id, content |-> writes[k].content]
    BY <2>1, <2>2 DEF Write
  <2> QED BY <2>1, <2>2, <2>3
<1>2. CASE ~\E k \in 1..n : writes[k].id = id
  BY <1>2 DEF After, FilesAreWrites
<1> QED BY <1>1, <1>2

LEMMA TornWrites ==
  ASSUME NEW files \in Files, FilesAreWrites(files),
         NEW writes, AreWrites(writes), NEW torn \in Torn(files, writes)
  PROVE  FilesAreWrites(torn)
<1>0. writes \in Seq(Write)
  BY DEF AreWrites
<1>1. CASE \E n \in 0..Len(writes) : torn = After(files, writes, n)
  BY <1>1, AfterWrites
<1>2. CASE \E n \in 1..Len(writes) :
             torn = [After(files, writes, n - 1) EXCEPT ![writes[n].id] = Split]
  <2>1. PICK n \in 1..Len(writes) :
          torn = [After(files, writes, n - 1) EXCEPT ![writes[n].id] = Split]
    BY <1>2
  <2>2. FilesAreWrites(After(files, writes, n - 1))
    BY <1>0, AfterWrites
  <2>3. \A id \in Ids : torn[id] = Split \/ torn[id] = After(files, writes, n - 1)[id]
    BY <2>1 DEF After
  <2> QED BY <2>2, <2>3, MissingAssumption DEF FilesAreWrites
<1> QED BY <1>0, <1>1, <1>2 DEF Torn

\* A split pair stays split, and with it the explanation of a refusal.
LEMMA RepeatableStays ==
  ASSUME Kept, NEW handler \in Handler \cup {Free}, Repeatable(handler, store)
  PROVE  Repeatable(handler, store')
<1> SUFFICES ASSUME handler # Free, handler.result = "refused"
             PROVE  \E id \in Ids : store'[handler.request.worker][id] = Split
  BY DEF Repeatable
<1>1. handler.request.worker \in Workers
  BY DEF Handler, Request, PutRequest, PullRequest, ExecuteRequest
<1> QED BY <1>1, MissingAssumption DEF Repeatable, Kept, Keeps

LEMMA OthersRepeatable ==
  ASSUME WorkersTypeOK, HandlersRepeatable, Kept, NEW s \in Slots, Others(s),
         Repeatable(slots'[s], store')
  PROVE  HandlersRepeatable'
<1>1. ASSUME NEW t \in Slots, t # s PROVE Repeatable(slots'[t], store')
  BY <1>1, RepeatableStays DEF Others, HandlersRepeatable, WorkersTypeOK
<1> QED BY <1>1 DEF HandlersRepeatable

\* A handler that goes on with its request, or answers it, and is not refused.
LEMMA AnsweredRepeatable ==
  ASSUME WorkersTypeOK, HandlersRepeatable, NEW s \in Slots, slots[s] # Free,
         NEW result, NEW writes, Answer(s, result, writes),
         result = "refused" => \E id \in Ids : store'[slots[s].request.worker][id] = Split
  PROVE  Repeatable(slots'[s], store') /\ Others(s)
<1>1. slots[s] \in Handler /\ slots \in [Slots -> Handler \cup {Free}]
  BY DEF WorkersTypeOK
<1>2. slots'[s] = Answered(slots[s], result, writes) /\ Others(s)
  BY <1>1 DEF Answer, Others
<1>3. slots'[s] # Free => slots'[s].request = slots[s].request /\ slots'[s].result = result
  BY <1>1, <1>2 DEF Answered, Handler
<1>4. Repeatable(slots[s], store)
  BY DEF HandlersRepeatable
<1> QED BY <1>2, <1>3, <1>4 DEF Repeatable

\* Only a split pair refuses an artifact of Writes.
LEMMA RefusalIsSplit ==
  ASSUME OneContentPerId, NEW files \in Files, FilesAreWrites(files),
         NEW write \in Write, write \in Writes, ~Accepts(files, write)
  PROVE  files[write.id] = Split
<1>1. write.id \in Ids /\ files[write.id] \in Contents \cup {Missing, Split}
  BY DEF Write, Files
<1>2. files[write.id] \notin {Missing, write.content}
  BY DEF Accepts
<1>3. ASSUME files[write.id] \in Contents PROVE FALSE
  <2> DEFINE held == [id |-> write.id, content |-> files[write.id]]
  <2>1. held \in Writes /\ held.id = write.id /\ held.content = files[write.id]
    BY <1>1, <1>3 DEF FilesAreWrites
  <2> HIDE DEF held
  <2> QED BY <1>2, <2>1 DEF OneContentPerId
<1> QED BY <1>1, <1>2, <1>3

LEMMA PutAllRepeatable ==
  ASSUME OneContentPerId, WorkersTypeOK, StoredWrites, HandlersRepeatable,
         NEW s \in Slots, slots[s] # Free, NEW writes, AreWrites(writes), PutAll(s, writes)
  PROVE  StoredWrites' /\ HandlersRepeatable'
<1> DEFINE w == slots[s].request.worker
<1>0. writes \in Seq(Write)
  BY DEF AreWrites
<1>1. w \in Workers /\ store \in [Workers -> Files] /\ store[w] \in Files /\ FilesAreWrites(store[w])
  BY HandlerWrites DEF WorkersTypeOK, Files, StoredWrites
<1>2. Kept /\ Others(s)
  BY <1>0, PutAllStep
<1>3. PICK n \in 0..Len(writes) :
        /\ n < Len(writes) => ~Accepts(store[w], writes[n + 1])
        /\ store' = [store EXCEPT ![w] = After(store[w], writes, n)]
        /\ Answer(s, IF n = Len(writes) THEN "ok" ELSE "refused", writes)
  BY DEF PutAll
<1>4. StoredWrites'
  <2>1. FilesAreWrites(After(store[w], writes, n))
    BY <1>1, AfterWrites
  <2> HIDE DEF w
  <2> QED BY <1>1, <1>3, <2>1 DEF StoredWrites
<1>5. ASSUME n # Len(writes) PROVE \E id \in Ids : store'[w][id] = Split
  <2>1. n + 1 \in 1..Len(writes) /\ ~Accepts(store[w], writes[n + 1])
    BY <1>0, <1>3, <1>5
  <2>2. writes[n + 1] \in Write /\ writes[n + 1] \in Writes /\ writes[n + 1].id \in Ids
    <3>1. \A k \in 1..Len(writes) : writes[k] \in Writes
      BY DEF AreWrites
    <3> QED BY <1>0, <2>1, <3>1, WriteOfSequence
  <2>3. store[w][writes[n + 1].id] = Split
    BY <1>1, <2>1, <2>2, RefusalIsSplit
  <2>4. store'[w][writes[n + 1].id] = Split
    BY <1>1, <1>2, <2>2, <2>3, MissingAssumption DEF Kept, Keeps
  <2> QED BY <2>2, <2>4
<1>6. Repeatable(slots'[s], store')
  <2> HIDE DEF w
  <2>1. (IF n = Len(writes) THEN "ok" ELSE "refused") = "refused" =>
          \E id \in Ids : store'[slots[s].request.worker][id] = Split
    BY <1>5 DEF w
  <2> QED BY <1>3, <2>1, AnsweredRepeatable
<1> QED BY <1>2, <1>4, <1>6, OthersRepeatable

\* What the workers do by themselves.
LEMMA WorkersRepeatable ==
  ASSUME OneContentPerId, IInv, StoredWrites, HandlersRepeatable, WorkerNext
  PROVE  StoredWrites' /\ HandlersRepeatable'
<1>0. WorkersTypeOK /\ Kept /\ slots \in [Slots -> Handler \cup {Free}] /\ store \in [Workers -> Files]
  BY StepInvariant DEF IInv, WorkersTypeOK, Next, Files
<1>1. ASSUME NEW s \in Slots, slots[s] # Free, UNCHANGED store,
             NEW result, result # "refused", NEW writes, Answer(s, result, writes)
      PROVE  StoredWrites' /\ HandlersRepeatable'
  BY <1>0, <1>1, AnsweredRepeatable, OthersRepeatable DEF StoredWrites
<1>2. ASSUME NEW s \in Slots, slots[s] # Free, NEW stage \in Stages, UNCHANGED store,
             NEW writes, slots' = [slots EXCEPT ![s] = [@ EXCEPT !.stage = stage, !.writes = writes]]
      PROVE  StoredWrites' /\ HandlersRepeatable'
  <2>1. Others(s) /\ slots'[s] = [slots[s] EXCEPT !.stage = stage, !.writes = writes]
    BY <1>0, <1>2 DEF Others
  <2>2. slots[s] \in Handler /\ Repeatable(slots[s], store)
    BY <1>0, <1>2 DEF HandlersRepeatable
  <2>3. slots'[s].request = slots[s].request /\ slots'[s].result = slots[s].result
    BY <2>1, <2>2 DEF Handler
  <2>4. Repeatable(slots'[s], store')
    BY <1>2, <2>2, <2>3 DEF Repeatable
  <2> QED BY <1>0, <1>2, <2>1, <2>4, OthersRepeatable DEF StoredWrites
<1>3. ASSUME NEW s \in Slots, slots[s] # Free
      PROVE  /\ slots[s].request.call \in {"put", "pull"} => AreWrites(<<slots[s].request.write>>)
             /\ \A writes \in Putting(s) : AreWrites(writes)
  <2>1. slots[s].request.call \in {"put", "pull"} => AreWrites(<<slots[s].request.write>>)
    BY <1>0, <1>3, HandlerWrites, SingleWrite DEF HandlersRepeatable, Repeatable
  <2>2. slots[s].request.call = "execute" =>
          \A writes \in WritesOf[slots[s].request.action] : AreWrites(writes)
    BY <1>0, <1>3, HandlerWrites, ActionWrites
  <2> QED BY <2>1, <2>2 DEF Putting, At
<1>4. ASSUME NEW s \in Slots, Serve(s) PROVE StoredWrites' /\ HandlersRepeatable'
  <2>1. CASE PutArtifact(s)
    <3>1. slots[s] # Free /\ slots[s].request.call = "put"
      BY <2>1 DEF PutArtifact, At
    <3>2. CASE PutAll(s, <<slots[s].request.write>>)
      BY <1>0, <1>3, <3>1, <3>2, PutAllRepeatable
    <3>3. CASE UNCHANGED store /\ (Answer(s, "mismatch", <<>>) \/ Answer(s, "missing", <<>>))
      BY <1>1, <3>1, <3>3
    <3> QED BY <2>1, <3>2, <3>3 DEF PutArtifact
  <2>2. CASE FetchArtifact(s)
    <3>1. slots[s] # Free /\ UNCHANGED store /\ slots[s] \in Handler
      BY <1>0, <2>2 DEF FetchArtifact, At
    <3>2. CASE Answer(s, "missing", <<>>)
      BY <1>1, <3>1, <3>2
    <3>3. CASE ~Answer(s, "missing", <<>>)
      <4>1. PICK fetched : slots' = [slots EXCEPT ![s].stage = "fetched", ![s].writes = fetched]
        BY <2>2, <3>3 DEF FetchArtifact
      <4>2. slots' = [slots EXCEPT ![s] = [@ EXCEPT !.stage = "fetched", !.writes = fetched]]
        BY <1>0, <4>1
      <4> QED BY <1>2, <3>1, <4>2 DEF Stages
    <3> QED BY <3>2, <3>3
  <2>3. CASE FetchFails(s) \/ ExecuteRejected(s) \/ BackendFails(s)
    <3>1. slots[s] # Free /\ UNCHANGED store
      BY <2>3 DEF FetchFails, ExecuteRejected, BackendFails, At
    <3>2. Answer(s, "error", <<>>) \/ Answer(s, "missing", <<>>)
      BY <2>3 DEF FetchFails, ExecuteRejected, BackendFails
    <3> QED BY <1>1, <3>1, <3>2
  <2>4. CASE StorePulled(s)
    <3>1. slots[s] # Free /\ slots[s].request.call = "pull"
      BY <2>4 DEF StorePulled, At
    <3>2. CASE slots[s].writes = <<slots[s].request.write>> /\ PutAll(s, slots[s].writes)
      BY <1>0, <1>3, <3>1, <3>2, PutAllRepeatable
    <3>3. CASE Answer(s, "mismatch", <<>>) /\ UNCHANGED store
      BY <1>1, <3>1, <3>3
    <3> QED BY <2>4, <3>2, <3>3 DEF StorePulled
  <2>5. CASE ExecuteLocal(s) \/ ExecuteEnds(s)
    <3>1. slots[s] # Free /\ slots[s].request.action \in Actions
      BY <1>0, <2>5, HandlerWrites DEF ExecuteLocal, ExecuteEnds, At
    <3>2. PICK writes \in WritesOf[slots[s].request.action] : PutAll(s, writes)
      BY <2>5 DEF ExecuteLocal, ExecuteEnds
    <3> QED BY <1>0, <3>1, <3>2, ActionWrites, PutAllRepeatable
  <2>6. CASE ExecuteBegins(s)
    <3>1. slots[s] # Free /\ UNCHANGED store /\ slots[s] \in Handler
      BY <1>0, <2>6 DEF ExecuteBegins, At
    <3>2. slots' = [slots EXCEPT ![s] = [@ EXCEPT !.stage = "running", !.writes = slots[s].writes]]
      BY <1>0, <2>6, <3>1 DEF ExecuteBegins, Handler
    <3> QED BY <1>2, <3>1, <3>2 DEF Stages
  <2>7. CASE WriteFails(s)
    <3>1. slots[s] # Free /\ Answer(s, "error", <<>>)
      BY <2>7 DEF WriteFails, Putting, At
    <3> DEFINE w == slots[s].request.worker
    <3>a. PICK writes \in Putting(s) :
            \E torn \in Torn(store[w], writes) : store' = [store EXCEPT ![w] = torn]
      BY <2>7 DEF WriteFails
    <3>2. PICK torn \in Torn(store[w], writes) : store' = [store EXCEPT ![w] = torn]
      BY <3>a
    <3>3. w \in Workers /\ store[w] \in Files /\ FilesAreWrites(store[w])
      BY <1>0, <3>1, HandlerWrites DEF StoredWrites
    <3>4. FilesAreWrites(torn)
      BY <1>3, <3>1, <3>2, <3>3, TornWrites
    <3> HIDE DEF w
    <3>5. StoredWrites'
      BY <1>0, <3>2, <3>3, <3>4 DEF StoredWrites
    <3> QED BY <1>0, <3>1, <3>5, AnsweredRepeatable, OthersRepeatable
  <2>8. CASE Drop(s)
    <3>1. slots'[s] = Free /\ Others(s) /\ UNCHANGED store
      BY <1>0, <2>8 DEF Drop, Others
    <3> QED BY <1>0, <3>1, OthersRepeatable DEF Repeatable, StoredWrites
  <2> QED BY <1>4, <2>1, <2>2, <2>3, <2>4, <2>5, <2>6, <2>7, <2>8 DEF Serve
<1>5. ASSUME NEW w \in Workers, Crash(w) PROVE StoredWrites' /\ HandlersRepeatable'
  <2>1. StoredWrites'
    <3>1. CASE UNCHANGED store
      BY <3>1 DEF StoredWrites
    <3>2. CASE store' # store
      <4>a. PICK s \in Served(w) : \E writes \in Putting(s) :
              \E torn \in Torn(store[w], writes) : store' = [store EXCEPT ![w] = torn]
        BY <1>5, <3>2 DEF Crash
      <4>b. PICK writes \in Putting(s) :
              \E torn \in Torn(store[w], writes) : store' = [store EXCEPT ![w] = torn]
        BY <4>a
      <4>1. PICK torn \in Torn(store[w], writes) : store' = [store EXCEPT ![w] = torn]
        BY <4>b
      <4>2. AreWrites(writes)
        BY <1>3, <4>a, <4>b DEF Served
      <4>3. store[w] \in Files /\ FilesAreWrites(store[w])
        BY <1>0 DEF StoredWrites
      <4>4. FilesAreWrites(torn)
        BY <4>1, <4>2, <4>3, TornWrites
      <4> QED BY <1>0, <4>1, <4>4 DEF StoredWrites
    <3> QED BY <3>1, <3>2
  <2>2. ASSUME NEW s \in Slots PROVE Repeatable(slots'[s], store')
    <3>1. CASE s \in Served(w)
      <4>1. slots[s] \in Handler /\ slots'[s] = Answered(slots[s], "error", <<>>)
        BY <1>0, <1>5, <3>1 DEF Served, Crash
      <4>2. slots'[s] # Free => slots'[s].request = slots[s].request /\ slots'[s].result = "error"
        BY <4>1 DEF Answered, Handler
      <4> QED BY <3>1, <4>2 DEF Served, HandlersRepeatable, Repeatable
    <3>2. CASE s \notin Served(w)
      <4>1. slots'[s] = slots[s] /\ slots[s] \in Handler \cup {Free} /\ Repeatable(slots[s], store)
        BY <1>0, <1>5, <3>2 DEF Crash, HandlersRepeatable
      <4> QED BY <1>0, <4>1, RepeatableStays
    <3> QED BY <3>1, <3>2
  <2> QED BY <2>1, <2>2 DEF HandlersRepeatable
<1> QED BY <1>4, <1>5 DEF WorkerNext

\* And what the controller asks of them.
LEMMA AskRepeatable ==
  ASSUME WorkersInv, StoredWrites, HandlersRepeatable, NEW request \in Request, Ask(request),
         request.call \in {"put", "pull"} => request.write \in Writes
  PROVE  StoredWrites' /\ HandlersRepeatable'
<1>1. PICK s \in Slots : Send(s, request)
  BY DEF Ask
<1>2. WorkersTypeOK /\ Kept /\ UNCHANGED store
  BY <1>1 DEF WorkersInv, IInv, Kept, Keeps, Send
<1>3. slots'[s].request = request /\ slots'[s].result = "none" /\ Others(s)
  BY <1>1, <1>2 DEF Send, Others, WorkersTypeOK
<1>4. Repeatable(slots'[s], store')
  BY <1>3 DEF Repeatable
<1> QED BY <1>2, <1>3, <1>4, OthersRepeatable DEF StoredWrites

LEMMA CloseRepeatable ==
  ASSUME WorkersInv, StoredWrites, HandlersRepeatable, NEW s \in Slots, Close(s)
  PROVE  StoredWrites' /\ HandlersRepeatable'
<1>1. WorkersTypeOK /\ Kept /\ UNCHANGED store /\ slots[s] \in Handler /\ Others(s)
  BY DEF WorkersInv, IInv, WorkersTypeOK, Kept, Keeps, Close, Others
<1>2. slots'[s] = Free \/ slots'[s] = [slots[s] EXCEPT !.open = FALSE]
  BY <1>1 DEF Close, WorkersInv, IInv, WorkersTypeOK
<1>3. slots'[s] # Free => slots'[s].request = slots[s].request /\ slots'[s].result = slots[s].result
  BY <1>1, <1>2 DEF Handler
<1>4. Repeatable(slots'[s], store')
  BY <1>1, <1>3 DEF Close, HandlersRepeatable, Repeatable
<1> QED BY <1>1, <1>4, OthersRepeatable DEF StoredWrites

\* A task's placements are artifacts of Writes, and so is what a snapshot locates.
LEMMA TaskWrites ==
  ASSUME NEW task \in Tasks, NEW k \in 1..Len(task)
  PROVE  task[k].write \in Writes
<1>1. task[k].write \in {task[j].write : j \in 1..Len(task)}
  OBVIOUS
<1> QED BY <1>1 DEF Writes

LEMMA LocatedWrites ==
  ASSUME RunTypes, SnapshotHolds, StoredWrites, NEW w \in Reachable, NEW id \in Ids,
         reports[w].artifacts[id] # Missing
  PROVE  [id |-> id, content |-> reports[w].artifacts[id]] \in Writes
<1>1. w \in Workers /\ reports[w].artifacts[id] \in Contents
  BY SnapshotValues
<1>2. store[w][id] = reports[w].artifacts[id]
  BY DEF SnapshotHolds
<1> QED BY <1>1, <1>2 DEF StoredWrites, FilesAreWrites

LEMMA RunRepeatable ==
  ASSUME JInv, RepeatsInv, RunNext
  PROVE  RepeatsInv'
<1>0. RunInv /\ RunTypes /\ WorkersInv /\ StoredWrites /\ HandlersRepeatable /\ TodoWrites
  BY DEF JInv, RunInv, RepeatsInv
<1>a. UNCHANGED workerVars => StoredWrites' /\ HandlersRepeatable'
  BY <1>0 DEF workerVars, StoredWrites, HandlersRepeatable
<1>b. UNCHANGED todo \/ todo' = <<>> => TodoWrites'
  BY <1>0 DEF TodoWrites
<1>c. Returned => StoredWrites' /\ HandlersRepeatable'
  BY <1>0, CloseRepeatable DEF Returned, RunTypes
<1>1. ASSUME NEW task \in Tasks, Start(task) PROVE RepeatsInv'
  <2>1. TodoWrites'
    BY <1>1, TaskWrites DEF Start, TodoWrites
  <2> QED BY <1>1, <1>a, <2>1 DEF Start, RepeatsInv
<1>2. CASE SendPlacement
  <2> DEFINE request == [call |-> "put", worker |-> Head(todo).worker, write |-> Head(todo).write]
  <2>1. todo # <<>> /\ Ask(request) /\ UNCHANGED todo
    BY <1>2 DEF SendPlacement
  <2>2. request \in Request
    BY <1>0, <2>1, PlacementFacts DEF Request, PutRequest
  <2>3. Head(todo) = todo[1] /\ 1 \in 1..Len(todo)
    BY <1>0, <2>1 DEF RunTypes
  <2>4. request.write \in Writes
    BY <1>0, <2>3 DEF TodoWrites
  <2> QED BY <1>0, <1>b, <2>1, <2>2, <2>4, AskRepeatable DEF RepeatsInv
<1>3. CASE PlacementReturned
  <2>1. Returned /\ todo' = Tail(todo) /\ todo # <<>> /\ todo \in Seq(Placement)
    BY <1>0, <1>3, ReturnedStep DEF PlacementReturned, RunInv, PhaseControl, RunTypes
  <2>2. \A k \in 1..Len(Tail(todo)) : Tail(todo)[k] = todo[k + 1] /\ k + 1 \in 1..Len(todo)
    BY <2>1
  <2>3. TodoWrites'
    BY <1>0, <2>1, <2>2 DEF TodoWrites
  <2> QED BY <1>c, <2>1, <2>3 DEF RepeatsInv
<1>4. CASE \/ Materialized \/ Observed
           \/ \E w \in Workers : Probe(w)
           \/ \E a \in Actions, w \in Workers : Propose(a, w)
  BY <1>4, <1>a, <1>b DEF Materialized, Observed, Probe, Propose, RepeatsInv
<1>5. CASE SendPull
  <2>1. PICK k \in job.pulls, source \in Workers :
          LET id == InputsOf[job.action][k]
          IN Ask([call |-> "pull", worker |-> job.target, source |-> source,
                  write |-> [id |-> id, content |-> Digest(id)]])
    BY <1>5 DEF SendPull
  <2> DEFINE id == InputsOf[job.action][k]
             request == [call |-> "pull", worker |-> job.target, source |-> source,
                         write |-> [id |-> id, content |-> Digest(id)]]
  <2>2. phase = "localize" /\ Ask(request) /\ UNCHANGED todo
    BY <1>5, <2>1 DEF SendPull
  <2>3. /\ job.action \in Actions /\ job.target \in Workers
        /\ k \in 1..Len(InputsOf[job.action]) /\ Locations(id) # {}
    BY <1>0, <2>1, <2>2 DEF RunInv, PhaseControl, Job
  <2>4. id \in Ids /\ Digest(id) \in Contents
    BY <1>0, <2>3, InputId, DigestValue
  <2>5. request \in Request
    BY <2>3, <2>4 DEF Request, PullRequest, Write
  <2>6. [id |-> id, content |-> Digest(id)] \in Writes
    <3> HIDE DEF id
    <3>1. PICK w \in Locations(id) : Digest(id) = reports[w].artifacts[id]
      BY <2>3 DEF Digest
    <3>2. w \in Reachable /\ reports[w].artifacts[id] # Missing
      BY <3>1 DEF Locations
    <3> QED BY <1>0, <2>4, <3>1, <3>2, LocatedWrites DEF RunInv
  <2> QED BY <1>0, <1>b, <2>2, <2>5, <2>6, AskRepeatable DEF RepeatsInv
<1>6. CASE PullReturned
  BY <1>6, <1>b, <1>c DEF PullReturned, RepeatsInv
<1>7. CASE SendExecute
  <2> DEFINE request == [call |-> "execute", worker |-> job.target, action |-> job.action]
  <2>1. phase = "localize" /\ Ask(request) /\ UNCHANGED todo
    BY <1>7 DEF SendExecute
  <2>2. request \in Request /\ request.call = "execute"
    BY <1>0, <2>1 DEF RunInv, PhaseControl, Job, Request, ExecuteRequest
  <2> HIDE DEF request
  <2> QED BY <1>0, <1>b, <2>1, <2>2, AskRepeatable DEF RepeatsInv
<1>8. CASE ExecuteReturned
  BY <1>8, <1>b, <1>c DEF ExecuteReturned, RepeatsInv
<1>9. CASE End
  <2>1. StoredWrites' /\ HandlersRepeatable'
    BY <1>0, <1>9, <1>a, CloseRepeatable DEF End, RunTypes
  <2> QED BY <1>9, <1>b, <2>1 DEF End, RepeatsInv
<1> QED BY <1>1, <1>2, <1>3, <1>4, <1>5, <1>6, <1>7, <1>8, <1>9 DEF RunNext

LEMMA StepRepeatable == JInv /\ OneContentPerId /\ RepeatsInv /\ [JointNext]_vars => RepeatsInv'
<1> SUFFICES ASSUME JInv, OneContentPerId, RepeatsInv, [JointNext]_vars PROVE RepeatsInv'
  OBVIOUS
<1>1. CASE RunNext
  BY <1>1, RunRepeatable
<1>2. CASE WorkerNext /\ UNCHANGED runVars
  <2>1. StoredWrites' /\ HandlersRepeatable'
    BY <1>2, WorkersRepeatable DEF JInv, WorkersInv, RepeatsInv
  <2> QED BY <1>2, <2>1 DEF RepeatsInv, TodoWrites, runVars
<1>3. CASE UNCHANGED vars
  BY <1>3 DEF vars, workerVars, runVars, RepeatsInv, StoredWrites, HandlersRepeatable, TodoWrites
<1> QED BY <1>1, <1>2, <1>3 DEF JointNext

LEMMA RepeatsInvIsHarmless == JInv /\ RepeatsInv => RepeatsAreHarmless
<1> SUFFICES ASSUME JInv, RepeatsInv, OneContentPerId
             PROVE  /\ \A s \in Slots :
                         slots[s] # Free /\ slots[s].result = "refused" =>
                           \E id \in Ids : store[slots[s].request.worker][id] = Split
                    /\ Consistent
  BY DEF RepeatsAreHarmless
<1>1. ASSUME NEW id \in Ids, NEW v \in Locations(id), NEW w \in Locations(id)
      PROVE  reports[v].artifacts[id] = reports[w].artifacts[id]
  <2> DEFINE a == [id |-> id, content |-> reports[v].artifacts[id]]
             b == [id |-> id, content |-> reports[w].artifacts[id]]
  <2>1. a \in Writes /\ b \in Writes
    BY LocatedWrites DEF Locations, JInv, RunInv, RepeatsInv
  <2>2. a.id = b.id
    OBVIOUS
  <2>3. a.content = b.content
    BY <2>1, <2>2 DEF OneContentPerId
  <2> QED BY <2>3
<1>2. Consistent
  BY <1>1 DEF Consistent
<1> QED BY <1>2 DEF RepeatsInv, HandlersRepeatable, Repeatable

\* If every ID is given one content, a call that is made again, by this run, a
\* later one or an abandoned request, is refused only by a pair that a crash split,
\* and no observation fails (artifact_store.py:95-106, runner.py:183-203).
THEOREM RepeatsHarmless == JointSpec => []RepeatsAreHarmless
<1>1. Init /\ RunInit => RepeatsInv
  BY MissingAssumption DEF Init, RunInit, RepeatsInv, StoredWrites, FilesAreWrites, HandlersRepeatable,
     Repeatable, TodoWrites
<1>2. ~OneContentPerId => RepeatsAreHarmless
  BY DEF RepeatsAreHarmless
<1> DEFINE I == OneContentPerId => RepeatsInv
<1>3. Init /\ RunInit => I
  BY <1>1
<1>4. OneContentPerId' = OneContentPerId
  BY DEF OneContentPerId, Writes
<1>5. JInv /\ I /\ [JointNext]_vars => I'
  BY <1>4, StepRepeatable
<1>6. JInv /\ I => RepeatsAreHarmless
  BY <1>2, RepeatsInvIsHarmless
<1> HIDE DEF I
<1> QED BY <1>3, <1>5, <1>6, JointInvariance, PTL DEF JointSpec
-----------------------------------------------------------------------------
(* A run does not go round for ever. *)

ActionsLeft == MaxActions - actions

\* How far a phase is from the end of a round, which the next action leads out of.
Rank ==
  CASE phase = "materialize" -> 5
    [] phase = "localize"    -> 4
    [] phase = "execute"     -> 3
    [] phase = "observe"     -> 2
    [] phase = "plan"        -> 1
    [] OTHER                 -> 0

ToSend == IF waiting = NoRequest THEN 1 ELSE 0

UnprobedWorkers == {w \in Workers : reports[w] = Unprobed}

\* The calls that are to be sent or awaited in a phase.
CallsLeft ==
  CASE phase = "materialize" -> 2 * Len(todo) + ToSend
    [] phase = "localize"    -> 2 * Cardinality(job.pulls) + ToSend
    [] phase = "observe"     -> Cardinality(UnprobedWorkers)
    [] OTHER                 -> 0

\* The three numbers, compared from left to right.
CloserToItsEnd ==
  \/ ActionsLeft' < ActionsLeft
  \/ ActionsLeft' = ActionsLeft /\ Rank' < Rank
  \/ ActionsLeft' = ActionsLeft /\ Rank' = Rank /\ CallsLeft' < CallsLeft

Measured == ActionsLeft \in Nat /\ Rank \in Nat /\ CallsLeft \in Nat

\* What is still to be pulled are positions of the action's inputs.
LEMMA PullsAreFinite ==
  ASSUME JInv, phase = "localize"
  PROVE  IsFiniteSet(job.pulls) /\ Cardinality(job.pulls) \in Nat
<1>1. job \in Job /\ job.pulls \subseteq 1..Len(InputsOf[job.action])
  BY DEF JInv, RunInv, PhaseControl
<1>2. InputsOf[job.action] \in Seq(Ids)
  BY <1>1, ActionsAssumption DEF Job
<1>3. IsFiniteSet(1..Len(InputsOf[job.action]))
  BY <1>2, FS_Interval
<1>4. IsFiniteSet(job.pulls)
  BY <1>1, <1>3, FS_Subset
<1> QED BY <1>4, FS_CardinalityType

\* The numbers are natural.
LEMMA MeasuredNow ==
  ASSUME IsFiniteSet(Workers)
  PROVE  JInv => Measured
<1> SUFFICES ASSUME JInv PROVE Measured
  OBVIOUS
<1>1. /\ actions \in 0..MaxActions /\ todo \in Seq(Placement)
  BY DEF JInv, RunInv, RunTypes
<1>2. ActionsLeft \in Nat
  BY <1>1, BoundsAssumption DEF ActionsLeft
<1>3. Rank \in Nat
  BY DEF Rank
<1>4. IsFiniteSet(UnprobedWorkers)
  BY FS_Subset DEF UnprobedWorkers
<1>5. Cardinality(UnprobedWorkers) \in Nat
  BY <1>4, FS_CardinalityType
<1>6. Len(todo) \in Nat /\ ToSend \in Nat
  BY <1>1 DEF ToSend
<1>7. CallsLeft \in Nat
  BY <1>5, <1>6, PullsAreFinite DEF CallsLeft
<1> QED BY <1>2, <1>3, <1>7 DEF Measured

\* Every step of a run brings it closer to its end.
LEMMA StepIsCloser ==
  ASSUME IsFiniteSet(Workers), JInv, phase # "idle", RunNext
  PROVE  CloserToItsEnd
<1>1. /\ actions \in Nat /\ MaxActions \in Nat /\ todo \in Seq(Placement)
      /\ phase \in Phases
  BY BoundsAssumption DEF JInv, RunInv, RunTypes
<1>2. ASSUME NEW task \in Tasks PROVE ~Start(task)
  BY DEF Start
<1>3. CASE SendPlacement
  <2>1. /\ phase = "materialize" /\ phase' = phase /\ actions' = actions /\ todo' = todo
        /\ waiting = NoRequest
    BY <1>3 DEF SendPlacement, Ask
  <2>2. waiting' # NoRequest
    BY <1>3, NoValuesAssumption DEF SendPlacement, Ask
  <2> QED BY <1>1, <2>1, <2>2 DEF CloserToItsEnd, ActionsLeft, Rank, CallsLeft, ToSend
<1>4. CASE PlacementReturned
  <2>1. /\ phase = "materialize" /\ phase' = phase /\ actions' = actions /\ todo' = Tail(todo)
        /\ waiting # NoRequest /\ waiting' = NoRequest
    BY <1>4 DEF PlacementReturned, Returned
  <2>2. todo # <<>>
    BY <2>1 DEF JInv, RunInv, PhaseControl
  <2>3. Len(todo') = Len(todo) - 1 /\ Len(todo) \in Nat
    BY <1>1, <2>1, <2>2
  <2> QED BY <1>1, <2>1, <2>3 DEF CloserToItsEnd, ActionsLeft, Rank, CallsLeft, ToSend
<1>5. CASE Materialized
  <2>1. phase = "materialize" /\ phase' = "observe" /\ actions' = actions
    BY <1>5 DEF Materialized
  <2> QED BY <1>1, <2>1 DEF CloserToItsEnd, ActionsLeft, Rank
<1>6. ASSUME NEW w \in Workers, Probe(w) PROVE CloserToItsEnd
  <2>1. /\ phase = "observe" /\ phase' = phase /\ actions' = actions
        /\ reports[w] = Unprobed
    BY <1>6 DEF Probe
  <2>2. PICK report \in Report \cup {Unreachable} : reports' = [reports EXCEPT ![w] = report]
    BY <1>6, RepliesAreReports DEF Probe, JInv, WorkersInv, IInv
  <2>3. report # Unprobed
    BY NoValuesAssumption
  <2>4. reports'[w] # Unprobed /\ \A v \in Workers \ {w} : reports'[v] = reports[v]
    BY <2>2, <2>3 DEF JInv, RunInv, RunTypes
  <2>5. UnprobedWorkers' = UnprobedWorkers \ {w} /\ w \in UnprobedWorkers
    BY <2>1, <2>4 DEF UnprobedWorkers
  <2>6. IsFiniteSet(UnprobedWorkers)
    BY FS_Subset DEF UnprobedWorkers
  <2>7. Cardinality(UnprobedWorkers') = Cardinality(UnprobedWorkers) - 1
        /\ Cardinality(UnprobedWorkers) \in Nat
    BY <2>5, <2>6, FS_RemoveElement, FS_CardinalityType
  <2> QED BY <1>1, <2>1, <2>7 DEF CloserToItsEnd, ActionsLeft, Rank, CallsLeft
<1>7. CASE Observed
  <2>1. phase = "observe" /\ phase' = "plan" /\ actions' = actions
    BY <1>7 DEF Observed
  <2> QED BY <1>1, <2>1 DEF CloserToItsEnd, ActionsLeft, Rank
<1>8. ASSUME NEW a \in Actions, NEW w \in Workers, Propose(a, w) PROVE CloserToItsEnd
  <2>1. actions' = actions + 1
    BY <1>8 DEF Propose
  <2> QED BY <1>1, <2>1 DEF CloserToItsEnd, ActionsLeft
<1>9. CASE SendPull
  <2>1. /\ phase = "localize" /\ phase' = phase /\ actions' = actions /\ job' = job
        /\ waiting = NoRequest
    BY <1>9 DEF SendPull, Ask
  <2>2. waiting' # NoRequest
    BY <1>9, NoValuesAssumption DEF SendPull, Ask
  <2>3. Cardinality(job.pulls) \in Nat
    BY <2>1, PullsAreFinite
  <2> QED BY <1>1, <2>1, <2>2, <2>3 DEF CloserToItsEnd, ActionsLeft, Rank, CallsLeft, ToSend
<1>10. CASE PullReturned
  <2>1. /\ phase = "localize" /\ phase' = phase /\ actions' = actions
        /\ waiting # NoRequest /\ waiting' = NoRequest
    BY <1>10 DEF PullReturned, Returned
  <2>2. PICK k \in job.pulls : job' = [job EXCEPT !.pulls = @ \ {k}]
    BY <1>10 DEF PullReturned
  <2>3. job'.pulls = job.pulls \ {k}
    BY <2>1, <2>2 DEF JInv, RunInv, PhaseControl, Job
  <2>4. IsFiniteSet(job.pulls) /\ Cardinality(job.pulls) \in Nat
    BY <2>1, PullsAreFinite
  <2>5. Cardinality(job'.pulls) = Cardinality(job.pulls) - 1
    BY <2>3, <2>4, FS_RemoveElement
  <2> QED BY <1>1, <2>1, <2>4, <2>5 DEF CloserToItsEnd, ActionsLeft, Rank, CallsLeft, ToSend
<1>11. CASE SendExecute
  <2>1. phase = "localize" /\ phase' = "execute" /\ actions' = actions
    BY <1>11 DEF SendExecute
  <2> QED BY <1>1, <2>1 DEF CloserToItsEnd, ActionsLeft, Rank
<1>12. CASE ExecuteReturned
  <2>1. phase = "execute" /\ phase' = "observe" /\ actions' = actions
    BY <1>12 DEF ExecuteReturned
  <2> QED BY <1>1, <2>1 DEF CloserToItsEnd, ActionsLeft, Rank
<1>13. CASE End
  <2>1. phase' = "idle" /\ actions' = actions
    BY <1>13 DEF End
  <2>2. Rank > 0 /\ Rank' = 0
    BY <1>1, <2>1 DEF Rank, Phases
  <2> QED BY <1>1, <2>1, <2>2 DEF CloserToItsEnd, ActionsLeft, Rank
<1> QED BY <1>2, <1>3, <1>4, <1>5, <1>6, <1>7, <1>8, <1>9, <1>10, <1>11, <1>12, <1>13 DEF RunNext

\* The controller of a finite set of workers cannot go round for ever: each step of a run that
\* is under way lowers the actions left, or keeps them and lowers the phase, or keeps both and
\* lowers the calls left, and steps of the workers change none of these (graph.py:98-135,
\* executor.py:85-117, observer.py:57-71).
THEOREM RunsRunOut ==
  ASSUME IsFiniteSet(Workers)
  PROVE  JointSpec =>
           /\ []Measured
           /\ [][phase = "idle" \/ CloserToItsEnd \/ UNCHANGED runVars]_vars
<1>1. JInv => Measured
  BY MeasuredNow
<1>2. JInv /\ [JointNext]_vars => [phase = "idle" \/ CloserToItsEnd \/ UNCHANGED runVars]_vars
  BY StepIsCloser DEF JointNext
<1> QED BY <1>1, <1>2, JointInvariance, PTL DEF JointSpec
=============================================================================
