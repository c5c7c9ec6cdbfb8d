------------------------------- MODULE BlindView -------------------------------
(***************************************************************************)
(* What the planner and the finalizer are shown (src/infra_joint/planning/   *)
(* planner.py, finalize.py), what they make of it, and the evaluator that    *)
(* judges the answer. "Blind" is a statement about two executions, so the     *)
(* module has two runs of one task side by side, in worlds that may differ in *)
(* everything the planner must not see. The model is the same function of its *)
(* prompt in both, and the operators give the same output to the same actions. *)
(***************************************************************************)
EXTENDS Integers, Sequences, FiniteSets, TLC

CONSTANTS
  Tasks,          \* what two tasks agree on: [objective, artifacts, contract, choices]
  Worlds,         \* what they may differ in: [source_ref, evaluator_id, gold]
  Bindings,       \* what an execution may tell of its place and time
  Catalog,        \* operators of the registry
  Outputs,        \* of an operator
  Texts,          \* final answers
  Steps,          \* max_planning_steps
  None

ASSUME StepsAssumption == Steps \in Nat

Runs == {1, 2}

VARIABLES
  tasks,          \* run -> its TaskContract
  gold,           \* run -> the gold answer its evaluator was built with
  prompts,        \* run -> the prompts its model was sent
  decisions,      \* run -> the decisions so far, the physical part included
  observations,   \* run -> the execution results so far
  stage,          \* run -> what it does next
  answer,         \* run -> the final answer, or None
  score,          \* run -> [format_valid, benchmark_score], or None
  replies,        \* the model: prompt -> completion, for the prompts it was sent
  outputs         \* the operators: actions -> output of the last, for those executed

vars == <<tasks, gold, prompts, decisions, observations, stage, answer, score, replies, outputs>>

-----------------------------------------------------------------------------
(* A TaskContract, and the views of it, of decisions and of results.         *)

TaskContract(task, world) ==
  [objective |-> task.objective,
   artifacts |-> [id \in task.artifacts |-> [artifact_id |-> id, source_ref |-> world.source_ref]],
   contract |-> task.contract, choices |-> task.choices, evaluator_id |-> world.evaluator_id]

LogicalTask(task) ==
  [objective |-> task.objective, contract |-> task.contract, choices |-> task.choices,
   artifacts |-> {task.artifacts[id].artifact_id : id \in DOMAIN task.artifacts}]

LogicalDecision(decision) ==
  IF decision.type = "action" THEN [type |-> "action", semantic |-> decision.semantic]
  ELSE [type |-> "finish", semantic |-> None]

\* Mutant: the execution result is shown whole.
ExecutionResult(result) == result

PlannerObservation(result) == [operator |-> result.operator, output |-> result.output]

View(task, past, results) ==
  [task |-> LogicalTask(task),
   decision_history |-> [i \in DOMAIN past |-> LogicalDecision(past[i])],
   observations |-> [i \in DOMAIN results |-> PlannerObservation(results[i])]]

\* planner_tools, of which the prompt leaves one out.
Tools == Catalog \ {"read_artifact"}

PlannerPrompt(task, past, results, remaining) ==
  [view |-> View(task, past, results), available_operators |-> Tools, remaining_steps |-> remaining]

\* Tool-free, and without a budget: the contract's instruction is the task's.
FinalizerPrompt(task, past, results) ==
  [view |-> View(task, past, results), available_operators |-> {}, remaining_steps |-> 0]

-----------------------------------------------------------------------------
(* The model and the operators: the same question is answered the same.      *)

Answers(known, question, value) ==
  IF question \in DOMAIN known THEN known[question] = value ELSE TRUE

Learned(known, question, value) ==
  [q \in DOMAIN known \cup {question} |-> IF q = question THEN value ELSE known[q]]

Semantics(past) == [i \in DOMAIN past |-> past[i].semantic]

\* Text that the planner reads as one decision object, and text that it does not.
Proposals ==
  [type : {"action"}, operator : Catalog] \cup {[type |-> "finish"], [type |-> "invalid"]}

Asked(r, prompt, reply) ==
  /\ Answers(replies, prompt, reply)
  /\ replies' = Learned(replies, prompt, reply)
  /\ prompts' = [prompts EXCEPT ![r] = Append(@, prompt)]

-----------------------------------------------------------------------------
Each(value) == [r \in Runs |-> value]

Init ==
  /\ \E task \in Tasks, worlds \in [Runs -> Worlds] :
       /\ tasks = [r \in Runs |-> TaskContract(task, worlds[r])]
       /\ gold = [r \in Runs |-> worlds[r].gold]
  /\ prompts = Each(<<>>)
  /\ decisions = Each(<<>>)
  /\ observations = Each(<<>>)
  /\ stage = Each(IF Steps > 0 THEN "plan" ELSE "finalize")
  /\ answer = Each(None)
  /\ score = Each(None)
  /\ replies = <<>>
  /\ outputs = <<>>

\* decide: the physical part of an action is AUTO, which names nothing.
Plan(r) ==
  /\ stage[r] = "plan"
  /\ \E proposal \in Proposals :
       /\ Asked(r, PlannerPrompt(tasks[r], decisions[r], observations[r],
                                 Steps - Len(decisions[r])), proposal)
       /\ stage' = [stage EXCEPT ![r] =
            CASE proposal.type = "action" -> "execute"
              [] proposal.type = "finish" -> "finalize"
              [] proposal.type = "invalid" -> "failed"]
       /\ decisions' =
            CASE proposal.type = "action" ->
                   [decisions EXCEPT ![r] = Append(@,
                      [type |-> "action", semantic |-> proposal.operator, physical |-> "auto"])]
              [] proposal.type = "finish" ->
                   [decisions EXCEPT ![r] = Append(@,
                      [type |-> "finish", semantic |-> None, physical |-> None])]
              [] proposal.type = "invalid" -> decisions
  /\ UNCHANGED <<tasks, gold, observations, answer, score, outputs>>

\* The executor's result says where and how fast; or the execution fails.
Execute(r) ==
  /\ stage[r] = "execute"
  /\ \E output \in Outputs, binding \in Bindings :
       /\ Answers(outputs, Semantics(decisions[r]), output)
       /\ outputs' = Learned(outputs, Semantics(decisions[r]), output)
       /\ observations' = [observations EXCEPT ![r] = Append(@,
            [operator |-> decisions[r][Len(decisions[r])].semantic, output |-> output,
             binding |-> binding])]
  /\ stage' = [stage EXCEPT ![r] = IF Len(decisions[r]) < Steps THEN "plan" ELSE "finalize"]
  /\ UNCHANGED <<tasks, gold, prompts, decisions, answer, score, replies>>

Fail(r) ==
  /\ stage[r] \in {"plan", "execute", "finalize"}
  /\ stage' = [stage EXCEPT ![r] = "failed"]
  /\ UNCHANGED <<tasks, gold, prompts, decisions, observations, answer, score, replies, outputs>>

\* The model's text is the answer, unchanged.
Finalize(r) ==
  /\ stage[r] = "finalize"
  /\ \E text \in Texts :
       /\ Asked(r, FinalizerPrompt(tasks[r], decisions[r], observations[r]), text)
       /\ answer' = [answer EXCEPT ![r] = text]
  /\ stage' = [stage EXCEPT ![r] = "evaluate"]
  /\ UNCHANGED <<tasks, gold, decisions, observations, score, outputs>>

\* ExactChoiceEvaluator: only a canonical label can score.
Evaluate(r) ==
  /\ stage[r] = "evaluate"
  /\ score' = [score EXCEPT ![r] =
       LET valid == tasks[r].contract = "choice" /\ answer[r] \in tasks[r].choices
       IN  [format_valid |-> valid, scores |-> valid /\ answer[r] = gold[r]]]
  /\ stage' = [stage EXCEPT ![r] = "done"]
  /\ UNCHANGED <<tasks, gold, prompts, decisions, observations, answer, replies, outputs>>

Next == \E r \in Runs : Plan(r) \/ Execute(r) \/ Fail(r) \/ Finalize(r) \/ Evaluate(r)

Spec == Init /\ [][Next]_vars

-----------------------------------------------------------------------------
\* The prompts of two runs agree as far as both go, and so do their answers.
PromptsAreBlind ==
  \A i \in 1..Steps + 1 :
    i <= Len(prompts[1]) /\ i <= Len(prompts[2]) => prompts[1][i] = prompts[2][i]

AnswersAreBlind ==
  answer[1] # None /\ answer[2] # None => answer[1] = answer[2]

\* Nothing the planner must not know reaches it, in however many calls: two runs
\* that differ in hosts, deployments, transfers, timings, source references,
\* evaluator or gold answer send their models the same prompts, one for one, until
\* one of them ends, and give the same answer, so that the score is all that tells
\* them apart (m4-clean-blind-smoke-audit.md:51-56; planner.py:38-55,
\* 98-124, 165-181, finalize.py:66-80).
RunsAreBlind == PromptsAreBlind /\ AnswersAreBlind
=============================================================================
