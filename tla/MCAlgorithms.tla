----------------------------- MODULE MCAlgorithms -----------------------------
\* Everything that is computed in one step, from every input at once: either an
\* adapter prepares one sample, or one worker answers one workload.
EXTENDS MCRecordOperators, MCMediaOperators, MCBenchmarkAdapters

vars == <<artifacts, requests, answers, sample, prepared>>

NoSample == [kind |-> "none"]

Init ==
  \/ /\ AdapterInit
     /\ artifacts = <<>> /\ requests = <<>> /\ answers = <<>>
  \/ /\ OperatorInit(RecordWorkloads) \/ OperatorInit(MediaWorkloads)
     /\ sample = NoSample /\ prepared = Unprepared

Next ==
  \/ AdapterNext /\ UNCHANGED <<artifacts, requests, answers>>
  \/ (RecordNext \/ MediaNext) /\ UNCHANGED <<sample, prepared>>

Spec == Init /\ [][Next]_vars
=============================================================================
