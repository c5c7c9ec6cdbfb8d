---------------------------- MODULE BlindViewProofs ----------------------------
(***************************************************************************)
(* Blindness for any tasks, worlds, budget and number of steps: the prompts  *)
(* of two runs agree as far as both go, and so do their final answers.       *)
(***************************************************************************)
EXTENDS BlindView, TLAPS, SequenceTheorems

IsASequence(s) == s \in Seq({s[i] : i \in DOMAIN s})

AreSequences(f) == DOMAIN f = Runs /\ \A q \in Runs : IsASequence(f[q])

\* Planning is over after n decisions of run r.
PlannedOut(r, n) == n = Steps \/ (n > 0 /\ decisions[r][n].type = "finish")

\* What run r has decided, and seen, after n decisions, as its prompts show it.
Past(r, n) == [i \in 1..n |-> LogicalDecision(decisions[r][i])]

ActionsIn(r, n) == {i \in 1..n : decisions[r][i].type = "action"}

Seen(r, n) == [i \in ActionsIn(r, n) |-> PlannerObservation(observations[r][i])]

PromptAfter(r, n) ==
  [view |-> [task |-> LogicalTask(tasks[r]), decision_history |-> Past(r, n),
             observations |-> Seen(r, n)],
   available_operators |-> IF PlannedOut(r, n) THEN {} ELSE Tools,
   remaining_steps |-> IF PlannedOut(r, n) THEN 0 ELSE Steps - n]

Performed(r, n) == [i \in 1..n |-> decisions[r][i].semantic]

Meant(reply) ==
  IF reply.type = "action" THEN [type |-> "action", semantic |-> reply.operator]
  ELSE [type |-> "finish", semantic |-> None]

-----------------------------------------------------------------------------
(* The inductive invariant.                                                  *)

Shapes ==
  /\ AreSequences(prompts) /\ AreSequences(decisions) /\ AreSequences(observations)
  /\ DOMAIN stage = Runs /\ DOMAIN answer = Runs

SameTask == \A r, q \in Runs : LogicalTask(tasks[r]) = LogicalTask(tasks[q])

\* How far a run's three records go, by what it does next.
Progress(r) ==
  /\ Len(decisions[r]) <= Steps
  /\ Len(decisions[r]) <= Len(prompts[r]) /\ Len(prompts[r]) <= Len(decisions[r]) + 1
  /\ Len(observations[r]) <= Len(decisions[r])
  /\ stage[r] = "plan" =>
       /\ Len(prompts[r]) = Len(decisions[r]) /\ Len(observations[r]) = Len(decisions[r])
       /\ ~PlannedOut(r, Len(decisions[r]))
  /\ stage[r] = "execute" =>
       /\ Len(prompts[r]) = Len(decisions[r]) /\ Len(decisions[r]) = Len(observations[r]) + 1
       /\ decisions[r][Len(decisions[r])].type = "action"
  /\ stage[r] = "finalize" =>
       /\ Len(prompts[r]) = Len(decisions[r]) /\ PlannedOut(r, Len(decisions[r]))
       /\ 1..Len(observations[r]) = ActionsIn(r, Len(decisions[r]))
  /\ answer[r] # None =>
       /\ stage[r] \in {"evaluate", "done"}
       /\ Len(prompts[r]) = Len(decisions[r]) + 1 /\ PlannedOut(r, Len(decisions[r]))

\* All decisions but the last are actions, and all actions that a prompt followed
\* have been observed.
Kinds(r) ==
  /\ \A i \in 1..Len(decisions[r]) : decisions[r][i].type \in {"action", "finish"}
  /\ \A i \in 1..Len(decisions[r]) - 1 : decisions[r][i].type = "action"
  /\ \A i \in 1..Len(observations[r]) : decisions[r][i].type = "action"
  /\ \A i \in 1..Len(prompts[r]) - 1 : decisions[r][i].type = "action" => i <= Len(observations[r])

\* Every prompt is the view of what came before it.
PromptsAreViews(r) ==
  \A k \in 1..Len(prompts[r]) : prompts[r][k] = PromptAfter(r, k - 1)

\* Every decision is what the model's reply to its prompt says.
DecisionsAreReplies(r) ==
  \A i \in 1..Len(decisions[r]) :
    /\ prompts[r][i] \in DOMAIN replies
    /\ LogicalDecision(decisions[r][i]) = Meant(replies[prompts[r][i]])

\* Every observation is the output of the actions up to it.
ObservationsAreOutputs(r) ==
  \A i \in 1..Len(observations[r]) :
    /\ Performed(r, i) \in DOMAIN outputs
    /\ PlannerObservation(observations[r][i]) =
         [operator |-> decisions[r][i].semantic, output |-> outputs[Performed(r, i)]]

AnswersAreReplies(r) ==
  answer[r] # None =>
    /\ prompts[r][Len(prompts[r])] \in DOMAIN replies
    /\ answer[r] = replies[prompts[r][Len(prompts[r])]]

RunInv(r) ==
  /\ Progress(r) /\ Kinds(r)
  /\ PromptsAreViews(r)
  /\ DecisionsAreReplies(r)
  /\ ObservationsAreOutputs(r)
  /\ AnswersAreReplies(r)

SamePrompts ==
  \A r, q \in Runs : \A i \in 1..Len(prompts[r]) :
    i <= Len(prompts[q]) => prompts[r][i] = prompts[q][i]

BlindInv ==
  /\ Shapes
  /\ SameTask
  /\ \A r \in Runs : RunInv(r)
  /\ SamePrompts

-----------------------------------------------------------------------------
(* Sequences whose elements have no type, and answers that are remembered.   *)

LEMMA AppendToSequence ==
  ASSUME NEW s, IsASequence(s), NEW e
  PROVE  /\ IsASequence(Append(s, e))
         /\ Len(s) \in Nat
         /\ DOMAIN s = 1..Len(s)
         /\ Len(Append(s, e)) = Len(s) + 1
         /\ DOMAIN Append(s, e) = 1..Len(s) + 1
         /\ \A i \in 1..Len(s) : Append(s, e)[i] = s[i]
         /\ Append(s, e)[Len(s) + 1] = e
<1> DEFINE T == {s[i] : i \in DOMAIN s} \cup {e}
<1>1. s \in Seq(T)
  BY DEF IsASequence
<1>2. Append(s, e) \in Seq(T) /\ Len(s) \in Nat /\ DOMAIN s = 1..Len(s)
  BY <1>1
<1>3. /\ Len(Append(s, e)) = Len(s) + 1
      /\ DOMAIN Append(s, e) = 1..Len(s) + 1
      /\ \A i \in 1..Len(s) : Append(s, e)[i] = s[i]
      /\ Append(s, e)[Len(s) + 1] = e
  BY <1>1, <1>2
<1>4. IsASequence(Append(s, e))
  <2> DEFINE t == Append(s, e)
             U == {t[j] : j \in DOMAIN t}
  <2>1. t \in [1..Len(s) + 1 -> T]
    BY <1>2, <1>3, LenProperties
  <2>2. \A i \in 1..Len(s) + 1 : t[i] \in U
    BY <1>3
  <2> HIDE DEF t, U
  <2>3. t \in [1..Len(s) + 1 -> U]
    BY <2>1, <2>2
  <2>4. t \in Seq(U)
    BY <2>3, <1>2
  <2> QED BY <2>4 DEF IsASequence, t, U
<1> QED BY <1>2, <1>3, <1>4

LEMMA SequenceFacts ==
  ASSUME NEW s, IsASequence(s)
  PROVE  Len(s) \in Nat /\ DOMAIN s = 1..Len(s)
BY DEF IsASequence

\* One of two sequences grows.
Grows(f, g, r, e) == g = [f EXCEPT ![r] = Append(@, e)]

LEMMA AppendAt ==
  ASSUME NEW f, NEW g, NEW r \in Runs, NEW e, AreSequences(f), Grows(f, g, r, e)
  PROVE  /\ AreSequences(g)
         /\ \A q \in Runs \ {r} : g[q] = f[q]
         /\ Len(g[r]) = Len(f[r]) + 1
         /\ \A i \in 1..Len(f[r]) : g[r][i] = f[r][i]
         /\ g[r][Len(f[r]) + 1] = e
<1>1. IsASequence(f[r])
  BY DEF AreSequences
<1>2. DOMAIN g = Runs /\ g[r] = Append(f[r], e) /\ \A q \in Runs \ {r} : g[q] = f[q]
  BY DEF AreSequences, Grows
<1>3. IsASequence(Append(f[r], e))
  BY <1>1, AppendToSequence
<1>4. \A q \in Runs : IsASequence(g[q])
  <2> TAKE q \in Runs
  <2>1. CASE q = r
    BY <1>2, <1>3, <2>1, Zenon
  <2>2. CASE q # r
    <3>1. IsASequence(f[q]) /\ g[q] = f[q]
      BY <1>2, <2>2 DEF AreSequences
    <3> QED BY <3>1, Zenon
  <2> QED BY <2>1, <2>2
<1>5. AreSequences(g)
  BY <1>2, <1>4 DEF AreSequences
<1> QED BY <1>1, <1>2, <1>5, AppendToSequence

LEMMA LearnedKeeps ==
  ASSUME NEW known, NEW question, NEW value, Answers(known, question, value)
  PROVE  /\ \A q \in DOMAIN known : /\ q \in DOMAIN Learned(known, question, value)
                                    /\ Learned(known, question, value)[q] = known[q]
         /\ question \in DOMAIN Learned(known, question, value)
         /\ Learned(known, question, value)[question] = value
BY DEF Answers, Learned

LEMMA Lengths ==
  ASSUME Shapes, NEW r \in Runs
  PROVE  /\ Len(prompts[r]) \in Nat /\ DOMAIN prompts[r] = 1..Len(prompts[r])
         /\ Len(decisions[r]) \in Nat /\ DOMAIN decisions[r] = 1..Len(decisions[r])
         /\ Len(observations[r]) \in Nat /\ DOMAIN observations[r] = 1..Len(observations[r])
BY SequenceFacts DEF Shapes, AreSequences

-----------------------------------------------------------------------------
(* Two runs that have been asked the same have decided and seen the same.    *)

LEMMA SameDecisions ==
  ASSUME BlindInv, NEW r \in Runs, NEW q \in Runs, NEW i \in Nat \ {0},
         i <= Len(decisions[r]), i <= Len(decisions[q])
  PROVE  /\ prompts[r][i] = prompts[q][i]
         /\ LogicalDecision(decisions[r][i]) = LogicalDecision(decisions[q][i])
<1>1. /\ Len(prompts[r]) \in Nat /\ Len(prompts[q]) \in Nat
      /\ Len(decisions[r]) \in Nat /\ Len(decisions[q]) \in Nat
  BY Lengths DEF BlindInv
<1>2. Len(decisions[r]) <= Len(prompts[r]) /\ Len(decisions[q]) <= Len(prompts[q])
  BY DEF BlindInv, RunInv, Progress, Kinds
<1>3. prompts[r][i] = prompts[q][i]
  BY <1>1, <1>2 DEF BlindInv, SamePrompts
<1>4. /\ LogicalDecision(decisions[r][i]) = Meant(replies[prompts[r][i]])
      /\ LogicalDecision(decisions[q][i]) = Meant(replies[prompts[q][i]])
  BY <1>1 DEF BlindInv, RunInv, DecisionsAreReplies
<1> QED BY <1>3, <1>4

LEMMA SameKinds ==
  ASSUME BlindInv, NEW r \in Runs, NEW q \in Runs, NEW i \in Nat \ {0},
         i <= Len(decisions[r]), i <= Len(decisions[q])
  PROVE  /\ decisions[r][i].type = "action" <=> decisions[q][i].type = "action"
         /\ decisions[r][i].type = "action" =>
              decisions[r][i].semantic = decisions[q][i].semantic
BY SameDecisions, Zenon DEF LogicalDecision

LEMMA SameObservations ==
  ASSUME BlindInv, NEW r \in Runs, NEW q \in Runs, NEW i \in Nat \ {0},
         i <= Len(observations[r]), i <= Len(observations[q])
  PROVE  PlannerObservation(observations[r][i]) = PlannerObservation(observations[q][i])
<1>1. /\ Len(observations[r]) \in Nat /\ Len(observations[q]) \in Nat
      /\ Len(decisions[r]) \in Nat /\ Len(decisions[q]) \in Nat
  BY Lengths DEF BlindInv
<1>2. Len(observations[r]) <= Len(decisions[r]) /\ Len(observations[q]) <= Len(decisions[q])
  BY DEF BlindInv, RunInv, Progress, Kinds
<1>3. \A j \in 1..i : decisions[r][j].type = "action"
  BY <1>1 DEF BlindInv, RunInv, Progress, Kinds
<1>4. \A j \in 1..i : decisions[r][j].semantic = decisions[q][j].semantic
  <2> TAKE j \in 1..i
  <2>1. j \in Nat \ {0} /\ j <= Len(decisions[r]) /\ j <= Len(decisions[q])
    BY <1>1, <1>2
  <2> QED BY <2>1, <1>3, SameKinds
<1>5. Performed(r, i) = Performed(q, i)
  BY <1>4 DEF Performed
<1>6. i \in 1..Len(observations[r]) /\ i \in 1..Len(observations[q]) /\ i \in 1..i
  BY <1>1
<1>7. /\ PlannerObservation(observations[r][i]) =
           [operator |-> decisions[r][i].semantic, output |-> outputs[Performed(r, i)]]
      /\ PlannerObservation(observations[q][i]) =
           [operator |-> decisions[q][i].semantic, output |-> outputs[Performed(q, i)]]
  BY <1>6 DEF BlindInv, RunInv, ObservationsAreOutputs
<1> QED BY <1>4, <1>5, <1>6, <1>7

\* What run r has been given of its actions up to n.
Answerable(r, n) == \A i \in ActionsIn(r, n) : i <= Len(observations[r])

LEMMA SameNextPrompt ==
  ASSUME BlindInv, NEW r \in Runs, NEW q \in Runs, NEW n \in Nat,
         n <= Len(decisions[r]), n <= Len(decisions[q]), Answerable(r, n), Answerable(q, n)
  PROVE  PromptAfter(r, n) = PromptAfter(q, n)
<1>1. \A i \in 1..n : /\ LogicalDecision(decisions[r][i]) = LogicalDecision(decisions[q][i])
                      /\ decisions[r][i].type = "action" <=> decisions[q][i].type = "action"
  <2> TAKE i \in 1..n
  <2>1. i \in Nat \ {0} /\ i <= Len(decisions[r]) /\ i <= Len(decisions[q])
    BY Lengths DEF BlindInv
  <2> QED BY <2>1, SameDecisions, SameKinds
<1>2. Past(r, n) = Past(q, n)
  BY <1>1 DEF Past
<1>3. ActionsIn(r, n) = ActionsIn(q, n)
  BY <1>1 DEF ActionsIn
<1>4. \A i \in ActionsIn(r, n) :
        PlannerObservation(observations[r][i]) = PlannerObservation(observations[q][i])
  <2> TAKE i \in ActionsIn(r, n)
  <2>1. i \in Nat \ {0} /\ i <= Len(observations[r]) /\ i <= Len(observations[q])
    BY <1>3 DEF ActionsIn, Answerable
  <2> QED BY <2>1, SameObservations
<1>5. Seen(r, n) = Seen(q, n)
  BY <1>3, <1>4 DEF Seen
<1>6. PlannedOut(r, n) <=> PlannedOut(q, n)
  <2>1. n > 0 => n \in 1..Len(decisions[r]) /\ n \in 1..Len(decisions[q]) /\ n \in 1..n
    BY Lengths DEF BlindInv
  <2>2. n > 0 => /\ decisions[r][n].type \in {"action", "finish"}
                 /\ decisions[q][n].type \in {"action", "finish"}
    BY <2>1 DEF BlindInv, RunInv, Progress, Kinds
  <2> QED BY <1>1, <2>1, <2>2 DEF PlannedOut
<1>7. LogicalTask(tasks[r]) = LogicalTask(tasks[q])
  BY DEF BlindInv, SameTask
<1> QED BY <1>2, <1>5, <1>6, <1>7 DEF PromptAfter

-----------------------------------------------------------------------------
(* What a step leaves alone.                                                 *)

\* What was answered before is answered the same.
Remembered ==
  /\ \A p \in DOMAIN replies : p \in DOMAIN replies' /\ replies'[p] = replies[p]
  /\ \A past \in DOMAIN outputs : past \in DOMAIN outputs' /\ outputs'[past] = outputs[past]

LEMMA OtherRun ==
  ASSUME Remembered, tasks' = tasks, NEW q \in Runs, RunInv(q), Shapes,
         prompts'[q] = prompts[q], decisions'[q] = decisions[q],
         observations'[q] = observations[q], stage'[q] = stage[q], answer'[q] = answer[q]
  PROVE  RunInv(q)'
<1>1. Progress(q)' /\ Kinds(q)'
  BY DEF RunInv, Progress, Kinds, PlannedOut, ActionsIn
<1>2. \A n \in Nat : PromptAfter(q, n)' = PromptAfter(q, n)
  BY DEF PromptAfter, PlannedOut, Past, ActionsIn, Seen
<1>3. PromptsAreViews(q)'
  <2> SUFFICES ASSUME NEW k \in 1..Len(prompts'[q])
               PROVE  prompts'[q][k] = PromptAfter(q, k - 1)'
    BY DEF PromptsAreViews
  <2>1. k \in 1..Len(prompts[q]) /\ k - 1 \in Nat
    BY Lengths
  <2> QED BY <2>1, <1>2 DEF RunInv, PromptsAreViews
<1>4. DecisionsAreReplies(q)'
  BY DEF RunInv, DecisionsAreReplies, Remembered
<1>5. ObservationsAreOutputs(q)'
  <2>1. \A i : Performed(q, i)' = Performed(q, i)
    BY DEF Performed
  <2> QED BY <2>1 DEF RunInv, ObservationsAreOutputs, Remembered
<1>6. AnswersAreReplies(q)'
  BY DEF RunInv, AnswersAreReplies, Remembered
<1> QED BY <1>1, <1>3, <1>4, <1>5, <1>6 DEF RunInv

LEMMA EarlierPrompt ==
  ASSUME NEW r \in Runs, NEW n \in Nat, tasks' = tasks,
         \A i \in 1..n : decisions'[r][i] = decisions[r][i],
         \A i \in ActionsIn(r, n) : observations'[r][i] = observations[r][i]
  PROVE  PromptAfter(r, n)' = PromptAfter(r, n)
<1>1. PlannedOut(r, n)' <=> PlannedOut(r, n)
  <2>1. n > 0 => n \in 1..n
    OBVIOUS
  <2> QED BY <2>1 DEF PlannedOut
<1>2. Past(r, n)' = Past(r, n)
  BY DEF Past
<1>3. ActionsIn(r, n)' = ActionsIn(r, n)
  BY DEF ActionsIn
<1>4. Seen(r, n)' = Seen(r, n)
  BY <1>3 DEF Seen
<1> QED BY <1>1, <1>2, <1>4 DEF PromptAfter

\* A prompt that is sent is the one any other run was sent at that point.
LEMMA PromptSent ==
  ASSUME BlindInv, NEW r \in Runs, Len(prompts[r]) = Len(decisions[r]),
         Answerable(r, Len(decisions[r])), NEW prompt, prompt = PromptAfter(r, Len(decisions[r])),
         Len(prompts'[r]) = Len(prompts[r]) + 1,
         \A i \in 1..Len(prompts[r]) : prompts'[r][i] = prompts[r][i],
         prompts'[r][Len(prompts[r]) + 1] = prompt,
         \A q \in Runs \ {r} : prompts'[q] = prompts[q]
  PROVE  SamePrompts'
<1> DEFINE d == Len(decisions[r])
<1>1. /\ DOMAIN prompts = Runs /\ IsASequence(prompts[r])
      /\ \A q \in Runs : Len(prompts[q]) \in Nat /\ Len(decisions[q]) \in Nat
  BY Lengths DEF BlindInv, Shapes, AreSequences
<1>2. /\ Len(prompts'[r]) = d + 1
      /\ \A i \in 1..d : prompts'[r][i] = prompts[r][i]
      /\ prompts'[r][d + 1] = prompt
      /\ \A q \in Runs \ {r} : prompts'[q] = prompts[q]
  OBVIOUS
<1>3. ASSUME NEW q \in Runs, d + 1 <= Len(prompts[q])
      PROVE  prompts[q][d + 1] = prompt
  <2>1. d \in Nat /\ d <= Len(decisions[q]) /\ d + 1 \in 1..Len(prompts[q])
    BY <1>1, <1>3 DEF BlindInv, RunInv, Progress, Kinds
  <2>2. Answerable(q, d)
    <3> SUFFICES ASSUME NEW i \in ActionsIn(q, d)
                 PROVE  i <= Len(observations[q])
      BY DEF Answerable
    <3>1. i \in 1..Len(prompts[q]) - 1 /\ decisions[q][i].type = "action"
      BY <1>1, <1>3 DEF ActionsIn
    <3> QED BY <3>1 DEF BlindInv, RunInv, Progress, Kinds
  <2>3. PromptAfter(r, d) = PromptAfter(q, d)
    BY <2>1, <2>2, SameNextPrompt
  <2>4. prompts[q][d + 1] = PromptAfter(q, d)
    BY <2>1 DEF BlindInv, RunInv, PromptsAreViews
  <2> QED BY <2>3, <2>4
<1> SUFFICES ASSUME NEW a \in Runs, NEW b \in Runs, NEW i \in 1..Len(prompts'[a]),
                    i <= Len(prompts'[b])
             PROVE  prompts'[a][i] = prompts'[b][i]
  BY DEF SamePrompts
<1>4. CASE a = b
  BY <1>4
<1>5. CASE a # r /\ b # r
  BY <1>2, <1>5 DEF BlindInv, SamePrompts
<1>6. CASE a = r /\ b # r
  <2>1. CASE i = d + 1
    BY <1>2, <1>3, <1>6, <2>1
  <2>2. CASE i \in 1..d
    BY <1>2, <1>6, <2>2 DEF BlindInv, SamePrompts
  <2> QED BY <1>1, <1>2, <1>6, <2>1, <2>2
<1>7. CASE a # r /\ b = r
  <2>1. CASE i = d + 1
    BY <1>1, <1>2, <1>3, <1>7, <2>1
  <2>2. CASE i \in 1..d
    BY <1>1, <1>2, <1>7, <2>2 DEF BlindInv, SamePrompts
  <2> QED BY <1>1, <1>2, <1>7, <2>1, <2>2
<1> QED BY <1>4, <1>5, <1>6, <1>7

-----------------------------------------------------------------------------
(* One lemma per action.                                                     *)

\* A model that is asked keeps what it answered, and its prompt is recorded.
LEMMA AskedKeeps ==
  ASSUME Shapes, NEW r \in Runs, NEW prompt, NEW reply, Asked(r, prompt, reply), outputs' = outputs
  PROVE  /\ Remembered
         /\ prompt \in DOMAIN replies' /\ replies'[prompt] = reply
         /\ AreSequences(prompts')
         /\ \A q \in Runs \ {r} : prompts'[q] = prompts[q]
         /\ Len(prompts'[r]) = Len(prompts[r]) + 1
         /\ \A i \in 1..Len(prompts[r]) : prompts'[r][i] = prompts[r][i]
         /\ prompts'[r][Len(prompts[r]) + 1] = prompt
<1>1. Remembered /\ prompt \in DOMAIN replies' /\ replies'[prompt] = reply
  BY LearnedKeeps DEF Asked, Remembered
<1>2. Grows(prompts, prompts', r, prompt)
  BY DEF Asked, Grows
<1>3. AreSequences(prompts)
  BY DEF Shapes
<1> QED BY <1>1, <1>2, <1>3, AppendAt

\* Planning: everything decided so far was an action that has been observed.
LEMMA PlanningPrompt ==
  ASSUME BlindInv, NEW r \in Runs, stage[r] = "plan"
  PROVE  /\ Answerable(r, Len(decisions[r]))
         /\ PlannerPrompt(tasks[r], decisions[r], observations[r], Steps - Len(decisions[r]))
              = PromptAfter(r, Len(decisions[r]))
<1> DEFINE d == Len(decisions[r])
<1>1. d \in Nat /\ DOMAIN decisions[r] = 1..d /\ DOMAIN observations[r] = 1..Len(observations[r])
  BY Lengths DEF BlindInv
<1>2. Len(observations[r]) = d /\ ~PlannedOut(r, d)
  BY DEF BlindInv, RunInv, Progress, Kinds
<1>3. ActionsIn(r, d) = 1..d
  BY <1>1, <1>2 DEF BlindInv, RunInv, Progress, Kinds, ActionsIn
<1>4. Answerable(r, d)
  BY <1>1, <1>2, <1>3 DEF Answerable
<1>5. Past(r, d) = [i \in DOMAIN decisions[r] |-> LogicalDecision(decisions[r][i])]
  BY <1>1 DEF Past
<1>6. Seen(r, d) = [i \in DOMAIN observations[r] |-> PlannerObservation(observations[r][i])]
  BY <1>1, <1>2, <1>3 DEF Seen
<1> QED BY <1>2, <1>4, <1>5, <1>6 DEF PlannerPrompt, View, PromptAfter

LEMMA FinalPrompt ==
  ASSUME BlindInv, NEW r \in Runs, stage[r] = "finalize"
  PROVE  /\ Answerable(r, Len(decisions[r]))
         /\ FinalizerPrompt(tasks[r], decisions[r], observations[r])
              = PromptAfter(r, Len(decisions[r]))
<1> DEFINE d == Len(decisions[r])
<1>1. d \in Nat /\ DOMAIN decisions[r] = 1..d /\ DOMAIN observations[r] = 1..Len(observations[r])
      /\ Len(observations[r]) \in Nat
  BY Lengths DEF BlindInv
<1>2. 1..Len(observations[r]) = ActionsIn(r, d) /\ PlannedOut(r, d)
  BY DEF BlindInv, RunInv, Progress, Kinds
<1>3. Answerable(r, d)
  BY <1>1, <1>2 DEF Answerable
<1>4. Past(r, d) = [i \in DOMAIN decisions[r] |-> LogicalDecision(decisions[r][i])]
  BY <1>1 DEF Past
<1>5. Seen(r, d) = [i \in DOMAIN observations[r] |-> PlannerObservation(observations[r][i])]
  BY <1>1, <1>2 DEF Seen
<1> QED BY <1>2, <1>3, <1>4, <1>5 DEF FinalizerPrompt, View, PromptAfter

\* A prompt that is the next of run r is one of its views afterwards.
LEMMA ViewsAfterAsking ==
  ASSUME BlindInv, NEW r \in Runs, NEW prompt, tasks' = tasks, observations' = observations,
         Len(prompts[r]) = Len(decisions[r]), prompt = PromptAfter(r, Len(decisions[r])),
         Len(prompts'[r]) = Len(prompts[r]) + 1,
         \A i \in 1..Len(prompts[r]) : prompts'[r][i] = prompts[r][i],
         prompts'[r][Len(prompts[r]) + 1] = prompt,
         \A i \in 1..Len(decisions[r]) : decisions'[r][i] = decisions[r][i]
  PROVE  PromptsAreViews(r)'
<1> DEFINE d == Len(decisions[r])
<1>1. d \in Nat
  BY Lengths DEF BlindInv
<1> SUFFICES ASSUME NEW k \in 1..(d + 1)
             PROVE  prompts'[r][k] = PromptAfter(r, k - 1)'
  BY DEF PromptsAreViews
<1>2. k - 1 \in Nat /\ \A i \in 1..(k - 1) : decisions'[r][i] = decisions[r][i]
  BY <1>1
<1>3. PromptAfter(r, k - 1)' = PromptAfter(r, k - 1)
  BY <1>2, EarlierPrompt
<1>4. k \in 1..d => prompts'[r][k] = PromptAfter(r, k - 1)
  BY DEF BlindInv, RunInv, PromptsAreViews
<1>5. k = d + 1 => prompts'[r][k] = PromptAfter(r, k - 1)
  BY <1>1
<1> QED BY <1>1, <1>3, <1>4, <1>5

LEMMA TasksStay ==
  ASSUME SameTask, tasks' = tasks
  PROVE  SameTask'
BY DEF SameTask

LEMMA PlanStep ==
  ASSUME BlindInv, NEW r \in Runs, Plan(r)
  PROVE  BlindInv'
<1> DEFINE d == Len(decisions[r])
           prompt == PlannerPrompt(tasks[r], decisions[r], observations[r], Steps - d)
<1>1. PICK proposal \in Proposals :
        /\ Asked(r, prompt, proposal)
        /\ stage' = [stage EXCEPT ![r] =
             CASE proposal.type = "action" -> "execute"
               [] proposal.type = "finish" -> "finalize"
               [] proposal.type = "invalid" -> "failed"]
        /\ decisions' =
             CASE proposal.type = "action" ->
                    [decisions EXCEPT ![r] = Append(@,
                       [type |-> "action", semantic |-> proposal.operator, physical |-> "auto"])]
               [] proposal.type = "finish" ->
                    [decisions EXCEPT ![r] = Append(@,
                       [type |-> "finish", semantic |-> None, physical |-> None])]
               [] proposal.type = "invalid" -> decisions
  BY DEF Plan
<1>2. /\ stage[r] = "plan"
      /\ tasks' = tasks /\ observations' = observations /\ answer' = answer /\ outputs' = outputs
  BY DEF Plan
<1>3. /\ d \in Nat /\ d <= Steps /\ Len(prompts[r]) = d /\ Len(observations[r]) = d
      /\ ~PlannedOut(r, d) /\ answer[r] = None
      /\ \A i \in 1..d : decisions[r][i].type = "action"
  BY <1>2, Lengths DEF BlindInv, RunInv, Progress, Kinds
<1>4. Shapes /\ SameTask /\ DOMAIN stage = Runs
  BY DEF BlindInv, Shapes
<1>5. Answerable(r, d) /\ prompt = PromptAfter(r, d)
  BY <1>2, PlanningPrompt
<1> HIDE DEF prompt
<1>6. /\ Remembered
      /\ prompt \in DOMAIN replies' /\ replies'[prompt] = proposal
      /\ AreSequences(prompts')
      /\ \A q \in Runs \ {r} : prompts'[q] = prompts[q]
      /\ Len(prompts'[r]) = d + 1
      /\ \A i \in 1..d : prompts'[r][i] = prompts[r][i]
      /\ prompts'[r][d + 1] = prompt
  BY <1>1, <1>2, <1>3, <1>4, AskedKeeps
<1>7. SamePrompts'
  BY <1>3, <1>5, <1>6, PromptSent
<1>8. \/ \E e : /\ Grows(decisions, decisions', r, e)
                /\ LogicalDecision(e) = Meant(proposal)
                /\ \/ e.type = "action" /\ stage'[r] = "execute"
                   \/ e.type = "finish" /\ stage'[r] = "finalize"
      \/ decisions' = decisions /\ stage'[r] = "failed"
  <2>1. CASE proposal.type = "action"
    <3> DEFINE e == [type |-> "action", semantic |-> proposal.operator, physical |-> "auto"]
    <3>1. Grows(decisions, decisions', r, e) /\ stage'[r] = "execute"
      BY <1>1, <1>4, <2>1 DEF Grows
    <3>2. e.type = "action" /\ LogicalDecision(e) = Meant(proposal)
      BY <2>1 DEF LogicalDecision, Meant
    <3> QED BY <3>1, <3>2
  <2>2. CASE proposal.type = "finish"
    <3> DEFINE e == [type |-> "finish", semantic |-> None, physical |-> None]
    <3>1. Grows(decisions, decisions', r, e) /\ stage'[r] = "finalize"
      BY <1>1, <1>4, <2>2 DEF Grows
    <3>2. e.type = "finish" /\ LogicalDecision(e) = Meant(proposal)
      BY <2>2 DEF LogicalDecision, Meant
    <3> QED BY <3>1, <3>2
  <2>3. CASE proposal.type = "invalid"
    BY <1>1, <1>4, <2>3
  <2> QED BY <2>1, <2>2, <2>3 DEF Proposals
<1>9. /\ AreSequences(decisions')
      /\ \A q \in Runs \ {r} : decisions'[q] = decisions[q]
      /\ \A i \in 1..d : decisions'[r][i] = decisions[r][i]
      /\ \/ /\ Len(decisions'[r]) = d + 1
            /\ LogicalDecision(decisions'[r][d + 1]) = Meant(proposal)
            /\ \/ decisions'[r][d + 1].type = "action" /\ stage'[r] = "execute"
               \/ decisions'[r][d + 1].type = "finish" /\ stage'[r] = "finalize"
         \/ Len(decisions'[r]) = d /\ stage'[r] = "failed"
  <2>1. AreSequences(decisions)
    BY <1>4 DEF Shapes
  <2>2. CASE decisions' = decisions /\ stage'[r] = "failed"
    BY <2>1, <2>2, Zenon
  <2>3. CASE \E e : /\ Grows(decisions, decisions', r, e)
                    /\ LogicalDecision(e) = Meant(proposal)
                    /\ \/ e.type = "action" /\ stage'[r] = "execute"
                       \/ e.type = "finish" /\ stage'[r] = "finalize"
    <3>0. PICK e : /\ Grows(decisions, decisions', r, e)
                   /\ LogicalDecision(e) = Meant(proposal)
                   /\ \/ e.type = "action" /\ stage'[r] = "execute"
                      \/ e.type = "finish" /\ stage'[r] = "finalize"
      BY <2>3
    <3>1. /\ AreSequences(decisions')
          /\ \A q \in Runs \ {r} : decisions'[q] = decisions[q]
          /\ Len(decisions'[r]) = d + 1
          /\ \A i \in 1..d : decisions'[r][i] = decisions[r][i]
          /\ decisions'[r][d + 1] = e
      BY <2>1, <3>0, AppendAt
    <3> QED BY <3>0, <3>1
  <2> QED BY <1>8, <2>2, <2>3
<1>10. \A q \in Runs \ {r} : stage'[q] = stage[q]
  BY <1>1, <1>4
<1>11. Shapes'
  <2>1. DOMAIN stage' = Runs /\ DOMAIN answer' = Runs
    BY <1>1, <1>2, <1>4 DEF Shapes
  <2>2. AreSequences(observations')
    BY <1>2, <1>4, Zenon DEF Shapes
  <2> QED BY <1>6, <1>9, <2>1, <2>2 DEF Shapes
<1>12. /\ Len(prompts'[r]) = d + 1 /\ Len(observations'[r]) = d /\ answer'[r] = None
       /\ \A i \in 1..d : decisions'[r][i].type = "action"
       /\ d < Steps
  BY <1>2, <1>3, <1>6, <1>9, StepsAssumption DEF PlannedOut
<1>13. Progress(r)'
  <2>1. CASE Len(decisions'[r]) = d /\ stage'[r] = "failed"
    BY <1>3, <1>12, <2>1 DEF Progress
  <2>2. CASE /\ Len(decisions'[r]) = d + 1
             /\ decisions'[r][d + 1].type = "action" /\ stage'[r] = "execute"
    <3>1. /\ Len(decisions'[r]) <= Steps /\ Len(prompts'[r]) = Len(decisions'[r])
          /\ Len(decisions'[r]) = Len(observations'[r]) + 1
          /\ Len(observations'[r]) \in Nat
      BY <1>3, <1>12, <2>2, StepsAssumption
    <3> QED BY <1>12, <2>2, <3>1 DEF Progress
  <2>3. CASE /\ Len(decisions'[r]) = d + 1
             /\ decisions'[r][d + 1].type = "finish" /\ stage'[r] = "finalize"
    <3>1. ActionsIn(r, d)' = 1..Len(observations'[r])
      BY <1>3, <1>12, <2>3 DEF ActionsIn
    <3>2. PlannedOut(r, d)'
      BY <1>3, <2>3 DEF PlannedOut
    <3>3. /\ Len(decisions'[r]) <= Steps /\ Len(prompts'[r]) = Len(decisions'[r])
          /\ Len(decisions'[r]) = Len(observations'[r]) + 1
          /\ Len(observations'[r]) \in Nat
      BY <1>3, <1>12, <2>3, StepsAssumption
    <3> QED BY <1>12, <2>3, <3>1, <3>2, <3>3 DEF Progress
  <2> QED BY <1>9, <2>1, <2>2, <2>3
<1>14. Kinds(r)'
  <2>1. CASE Len(decisions'[r]) = d
    BY <1>3, <1>12, <2>1 DEF Kinds
  <2>2. CASE /\ Len(decisions'[r]) = d + 1
             /\ decisions'[r][d + 1].type \in {"action", "finish"}
    <3>1. \A i \in 1..d + 1 : decisions'[r][i].type \in {"action", "finish"}
      BY <1>3, <1>12, <2>2
    <3> QED BY <1>3, <1>12, <2>2, <3>1 DEF Kinds
  <2> QED BY <1>9, <2>1, <2>2
<1>15. PromptsAreViews(r)'
  BY <1>2, <1>3, <1>5, <1>6, <1>9, ViewsAfterAsking
<1>16. DecisionsAreReplies(r)'
  <2> SUFFICES ASSUME NEW i \in 1..Len(decisions'[r])
               PROVE  /\ prompts'[r][i] \in DOMAIN replies'
                      /\ LogicalDecision(decisions'[r][i]) = Meant(replies'[prompts'[r][i]])
    BY DEF DecisionsAreReplies
  <2>1. CASE i \in 1..d
    <3>1. /\ prompts[r][i] \in DOMAIN replies
          /\ LogicalDecision(decisions[r][i]) = Meant(replies[prompts[r][i]])
      BY <2>1 DEF BlindInv, RunInv, DecisionsAreReplies
    <3> QED BY <1>6, <1>9, <2>1, <3>1 DEF Remembered
  <2>2. CASE i = d + 1 /\ Len(decisions'[r]) = d + 1
    <3>1. prompts'[r][i] = prompt /\ LogicalDecision(decisions'[r][i]) = Meant(proposal)
      BY <1>3, <1>6, <1>9, <2>2
    <3> QED BY <1>6, <3>1
  <2> QED BY <1>3, <1>9, <2>1, <2>2
<1>17. ObservationsAreOutputs(r)'
  <2> SUFFICES ASSUME NEW i \in 1..d
               PROVE  /\ Performed(r, i)' \in DOMAIN outputs
                      /\ PlannerObservation(observations[r][i]) =
                           [operator |-> decisions'[r][i].semantic,
                            output |-> outputs[Performed(r, i)']]
    BY <1>2, <1>3 DEF ObservationsAreOutputs
  <2>1. Performed(r, i)' = Performed(r, i) /\ decisions'[r][i] = decisions[r][i]
    BY <1>3, <1>9 DEF Performed
  <2> QED BY <1>3, <2>1 DEF BlindInv, RunInv, ObservationsAreOutputs
<1>18. AnswersAreReplies(r)'
  BY <1>2, <1>3 DEF AnswersAreReplies
<1>19. \A q \in Runs \ {r} : RunInv(q)'
  <2> TAKE q \in Runs \ {r}
  <2>1. RunInv(q)
    BY DEF BlindInv
  <2> QED BY <1>2, <1>4, <1>6, <1>9, <1>10, <2>1, OtherRun
<1> QED BY <1>2, <1>4, <1>7, <1>11, <1>13, <1>14, <1>15, <1>16, <1>17, <1>18, <1>19, TasksStay
        DEF BlindInv, RunInv

LEMMA ExecuteStep ==
  ASSUME BlindInv, NEW r \in Runs, Execute(r)
  PROVE  BlindInv'
<1> DEFINE d == Len(decisions[r])
           o == Len(observations[r])
<1>1. PICK output \in Outputs, binding \in Bindings :
        /\ Answers(outputs, Semantics(decisions[r]), output)
        /\ outputs' = Learned(outputs, Semantics(decisions[r]), output)
        /\ observations' = [observations EXCEPT ![r] = Append(@,
             [operator |-> decisions[r][d].semantic, output |-> output, binding |-> binding])]
  BY DEF Execute
<1>2. /\ stage[r] = "execute"
      /\ stage' = [stage EXCEPT ![r] = IF d < Steps THEN "plan" ELSE "finalize"]
      /\ tasks' = tasks /\ prompts' = prompts /\ decisions' = decisions /\ answer' = answer
      /\ replies' = replies
  BY DEF Execute
<1>3. /\ d \in Nat /\ o \in Nat /\ d <= Steps /\ d = o + 1 /\ Len(prompts[r]) = d
      /\ answer[r] = None /\ DOMAIN decisions[r] = 1..d
  BY <1>2, Lengths DEF BlindInv, RunInv, Progress
<1>4. \A i \in 1..d : decisions[r][i].type = "action"
  <2>1. /\ \A i \in 1..o : decisions[r][i].type = "action"
        /\ decisions[r][d].type = "action"
    BY <1>2 DEF BlindInv, RunInv, Progress, Kinds
  <2> QED BY <1>3, <2>1
<1>5. Semantics(decisions[r]) = Performed(r, d)
  BY <1>3 DEF Semantics, Performed
<1>6. /\ Remembered
      /\ Performed(r, d) \in DOMAIN outputs' /\ outputs'[Performed(r, d)] = output
  BY <1>1, <1>2, <1>5, LearnedKeeps DEF Remembered
<1> DEFINE e == [operator |-> decisions[r][d].semantic, output |-> output, binding |-> binding]
<1>7. PlannerObservation(e) = [operator |-> decisions[r][d].semantic, output |-> output]
  BY DEF PlannerObservation
<1>8. Grows(observations, observations', r, e)
  BY <1>1 DEF Grows
<1> HIDE DEF e
<1>9. /\ AreSequences(observations')
      /\ \A q \in Runs \ {r} : observations'[q] = observations[q]
      /\ Len(observations'[r]) = d
      /\ \A i \in 1..o : observations'[r][i] = observations[r][i]
      /\ observations'[r][d] = e
  <2>1. AreSequences(observations)
    BY DEF BlindInv, Shapes
  <2>2. /\ AreSequences(observations')
        /\ \A q \in Runs \ {r} : observations'[q] = observations[q]
        /\ Len(observations'[r]) = Len(observations[r]) + 1
        /\ \A i \in 1..Len(observations[r]) : observations'[r][i] = observations[r][i]
        /\ observations'[r][Len(observations[r]) + 1] = e
    BY <1>8, <2>1, AppendAt
  <2> QED BY <1>3, <2>2
<1>10. /\ stage'[r] = (IF d < Steps THEN "plan" ELSE "finalize")
       /\ \A q \in Runs \ {r} : stage'[q] = stage[q]
       /\ DOMAIN stage' = Runs
  BY <1>2 DEF BlindInv, Shapes
<1>11. Shapes'
  BY <1>2, <1>9, <1>10 DEF BlindInv, Shapes
<1>12. Progress(r)'
  <2>1. CASE d < Steps
    <3>1. ~PlannedOut(r, Len(decisions[r]))'
      <4>1. d \in 1..d
        BY <1>3
      <4> QED BY <1>2, <1>3, <1>4, <2>1, <4>1 DEF PlannedOut
    <3>2. stage'[r] = "plan"
      BY <1>10, <2>1
    <3> QED BY <1>2, <1>3, <1>9, <3>1, <3>2 DEF Progress
  <2>2. CASE d = Steps
    <3>1. PlannedOut(r, Len(decisions[r]))'
      BY <1>2, <2>2 DEF PlannedOut
    <3>2. ActionsIn(r, Len(decisions[r]))' = 1..d
      BY <1>2, <1>4 DEF ActionsIn
    <3>3. stage'[r] = "finalize"
      BY <1>3, <1>10, <2>2
    <3> QED BY <1>2, <1>3, <1>9, <3>1, <3>2, <3>3 DEF Progress
  <2> QED BY <1>3, <2>1, <2>2, StepsAssumption
<1>13. Kinds(r)'
  <2>1. \A i \in 1..d - 1 : i \in 1..d
    BY <1>3
  <2> QED BY <1>2, <1>3, <1>4, <1>9, <2>1 DEF Kinds
<1>14. PromptsAreViews(r)'
  <2> SUFFICES ASSUME NEW k \in 1..d
               PROVE  prompts[r][k] = PromptAfter(r, k - 1)'
    BY <1>2, <1>3 DEF PromptsAreViews
  <2>1. k - 1 \in Nat /\ \A i \in 1..k - 1 : i \in 1..o
    BY <1>3
  <2>2. PromptAfter(r, k - 1)' = PromptAfter(r, k - 1)
    <3>1. \A i \in ActionsIn(r, k - 1) : observations'[r][i] = observations[r][i]
      BY <1>9, <2>1 DEF ActionsIn
    <3>2. \A i \in 1..(k - 1) : decisions'[r][i] = decisions[r][i]
      BY <1>2
    <3> QED BY <1>2, <2>1, <3>1, <3>2, EarlierPrompt
  <2> QED BY <1>3, <2>2 DEF BlindInv, RunInv, PromptsAreViews
<1>15. DecisionsAreReplies(r)'
  BY <1>2 DEF BlindInv, RunInv, DecisionsAreReplies
<1>16. ObservationsAreOutputs(r)'
  <2> SUFFICES ASSUME NEW i \in 1..d
               PROVE  /\ Performed(r, i)' \in DOMAIN outputs'
                      /\ PlannerObservation(observations'[r][i]) =
                           [operator |-> decisions[r][i].semantic,
                            output |-> outputs'[Performed(r, i)']]
    BY <1>2, <1>9 DEF ObservationsAreOutputs
  <2>1. Performed(r, i)' = Performed(r, i)
    BY <1>2 DEF Performed
  <2>2. CASE i \in 1..o
    <3>1. /\ Performed(r, i) \in DOMAIN outputs
          /\ PlannerObservation(observations[r][i]) =
               [operator |-> decisions[r][i].semantic, output |-> outputs[Performed(r, i)]]
      BY <2>2 DEF BlindInv, RunInv, ObservationsAreOutputs
    <3>2. Performed(r, i) \in DOMAIN outputs' /\ outputs'[Performed(r, i)] = outputs[Performed(r, i)]
      BY <1>6, <3>1 DEF Remembered
    <3>3. observations'[r][i] = observations[r][i]
      BY <1>9, <2>2
    <3> QED BY <2>1, <3>1, <3>2, <3>3
  <2>3. CASE i = d
    BY <1>6, <1>7, <1>9, <2>1, <2>3
  <2> QED BY <1>3, <2>2, <2>3
<1>17. AnswersAreReplies(r)'
  BY <1>2, <1>3 DEF AnswersAreReplies
<1>18. \A q \in Runs \ {r} : RunInv(q)'
  <2> TAKE q \in Runs \ {r}
  <2>1. RunInv(q) /\ Shapes
    BY DEF BlindInv
  <2> QED BY <1>2, <1>6, <1>9, <1>10, <2>1, OtherRun
<1>19. SamePrompts'
  BY <1>2 DEF BlindInv, SamePrompts
<1> QED BY <1>2, <1>11, <1>12, <1>13, <1>14, <1>15, <1>16, <1>17, <1>18, <1>19, TasksStay
        DEF BlindInv, RunInv

LEMMA FinalizeStep ==
  ASSUME BlindInv, NEW r \in Runs, Finalize(r)
  PROVE  BlindInv'
<1> DEFINE d == Len(decisions[r])
           prompt == FinalizerPrompt(tasks[r], decisions[r], observations[r])
<1>1. PICK text \in Texts : Asked(r, prompt, text) /\ answer' = [answer EXCEPT ![r] = text]
  BY DEF Finalize
<1>2. /\ stage[r] = "finalize" /\ stage' = [stage EXCEPT ![r] = "evaluate"]
      /\ tasks' = tasks /\ decisions' = decisions /\ observations' = observations
      /\ outputs' = outputs
  BY DEF Finalize
<1>3. /\ d \in Nat /\ d <= Steps /\ Len(prompts[r]) = d /\ Len(observations[r]) <= d
      /\ Len(observations[r]) \in Nat
      /\ PlannedOut(r, d) /\ 1..Len(observations[r]) = ActionsIn(r, d)
  BY <1>2, Lengths DEF BlindInv, RunInv, Progress
<1>4. Shapes /\ SameTask
  BY DEF BlindInv
<1>5. Answerable(r, d) /\ prompt = PromptAfter(r, d)
  BY <1>2, FinalPrompt
<1> HIDE DEF prompt
<1>6. /\ Remembered
      /\ prompt \in DOMAIN replies' /\ replies'[prompt] = text
      /\ AreSequences(prompts')
      /\ \A q \in Runs \ {r} : prompts'[q] = prompts[q]
      /\ Len(prompts'[r]) = d + 1
      /\ \A i \in 1..d : prompts'[r][i] = prompts[r][i]
      /\ prompts'[r][d + 1] = prompt
  BY <1>1, <1>2, <1>3, <1>4, AskedKeeps
<1>7. SamePrompts'
  BY <1>3, <1>5, <1>6, PromptSent
<1>8. /\ stage'[r] = "evaluate" /\ DOMAIN stage' = Runs /\ DOMAIN answer' = Runs
      /\ answer'[r] = text
      /\ \A q \in Runs \ {r} : stage'[q] = stage[q] /\ answer'[q] = answer[q]
  BY <1>1, <1>2, <1>4 DEF Shapes
<1>9. Shapes'
  BY <1>2, <1>4, <1>6, <1>8 DEF Shapes
<1>10. Progress(r)'
  <2>1. PlannedOut(r, Len(decisions[r]))'
    BY <1>2, <1>3 DEF PlannedOut
  <2> QED BY <1>2, <1>3, <1>6, <1>8, <2>1 DEF Progress
<1>11. Kinds(r)'
  <2>1. \A i \in 1..d : decisions[r][i].type = "action" => i <= Len(observations[r])
    BY <1>3 DEF ActionsIn
  <2> QED BY <1>2, <1>3, <1>6, <2>1 DEF BlindInv, RunInv, Kinds
<1>12. PromptsAreViews(r)'
  BY <1>2, <1>3, <1>5, <1>6, ViewsAfterAsking
<1>13. DecisionsAreReplies(r)'
  <2> SUFFICES ASSUME NEW i \in 1..d
               PROVE  /\ prompts'[r][i] \in DOMAIN replies'
                      /\ LogicalDecision(decisions[r][i]) = Meant(replies'[prompts'[r][i]])
    BY <1>2 DEF DecisionsAreReplies
  <2>1. /\ prompts[r][i] \in DOMAIN replies
        /\ LogicalDecision(decisions[r][i]) = Meant(replies[prompts[r][i]])
    BY DEF BlindInv, RunInv, DecisionsAreReplies
  <2> QED BY <1>6, <2>1 DEF Remembered
<1>14. ObservationsAreOutputs(r)'
  <2>1. \A i : Performed(r, i)' = Performed(r, i)
    BY <1>2 DEF Performed
  <2> QED BY <1>2, <2>1 DEF BlindInv, RunInv, ObservationsAreOutputs
<1>15. AnswersAreReplies(r)'
  BY <1>3, <1>6, <1>8 DEF AnswersAreReplies
<1>16. \A q \in Runs \ {r} : RunInv(q)'
  <2> TAKE q \in Runs \ {r}
  <2>1. RunInv(q)
    BY DEF BlindInv
  <2> QED BY <1>2, <1>4, <1>6, <1>8, <2>1, OtherRun
<1> QED BY <1>2, <1>4, <1>7, <1>9, <1>10, <1>11, <1>12, <1>13, <1>14, <1>15, <1>16, TasksStay
        DEF BlindInv, RunInv

\* Failing and being judged send nothing, and an answer stays as it is.
LEMMA LastStep ==
  ASSUME BlindInv, NEW r \in Runs, Fail(r) \/ Evaluate(r)
  PROVE  BlindInv'
<1>1. /\ tasks' = tasks /\ prompts' = prompts /\ decisions' = decisions
      /\ observations' = observations /\ answer' = answer /\ replies' = replies
      /\ outputs' = outputs
  BY DEF Fail, Evaluate
<1>2. Shapes /\ SameTask
  BY DEF BlindInv
<1>3. /\ DOMAIN stage' = Runs /\ \A q \in Runs \ {r} : stage'[q] = stage[q]
      /\ stage'[r] \in {"failed", "done"}
      /\ stage'[r] = "failed" => answer[r] = None
  BY <1>2 DEF Fail, Evaluate, Shapes, BlindInv, RunInv, Progress
<1>4. Progress(r)'
  BY <1>1, <1>3 DEF BlindInv, RunInv, Progress, PlannedOut
<1>5. Remembered
  BY <1>1 DEF Remembered
<1>6. \A q \in Runs \ {r} : RunInv(q)'
  <2> TAKE q \in Runs \ {r}
  <2>1. RunInv(q)
    BY DEF BlindInv
  <2> QED BY <1>1, <1>2, <1>3, <1>5, <2>1, OtherRun
<1>7. Kinds(r)' /\ DecisionsAreReplies(r)' /\ AnswersAreReplies(r)'
  BY <1>1 DEF BlindInv, RunInv, Kinds, DecisionsAreReplies, AnswersAreReplies
<1>8. ObservationsAreOutputs(r)'
  <2>1. \A i : Performed(r, i)' = Performed(r, i)
    BY <1>1 DEF Performed
  <2> QED BY <1>1, <2>1 DEF BlindInv, RunInv, ObservationsAreOutputs
<1>9. PromptsAreViews(r)'
  <2>1. \A n : PromptAfter(r, n)' = PromptAfter(r, n)
    BY <1>1 DEF PromptAfter, PlannedOut, Past, Seen, ActionsIn
  <2> QED BY <1>1, <2>1 DEF BlindInv, RunInv, PromptsAreViews
<1>10. Shapes' /\ SamePrompts'
  BY <1>1, <1>3 DEF BlindInv, Shapes, SamePrompts
<1> QED BY <1>1, <1>2, <1>4, <1>6, <1>7, <1>8, <1>9, <1>10, TasksStay DEF BlindInv, RunInv

-----------------------------------------------------------------------------
(* The theorem.                                                              *)

LEMMA InitBlind == Init => BlindInv
<1> SUFFICES ASSUME Init PROVE BlindInv
  OBVIOUS
<1>1. IsASequence(<<>>) /\ Len(<<>>) = 0
  BY DEF IsASequence
<1>2. \A r \in Runs : /\ prompts[r] = <<>> /\ decisions[r] = <<>> /\ observations[r] = <<>>
                      /\ stage[r] = (IF Steps > 0 THEN "plan" ELSE "finalize")
                      /\ answer[r] = None
  BY DEF Init, Each
<1>3. Shapes
  BY <1>1, <1>2 DEF Init, Each, Shapes, AreSequences
<1>4. SameTask
  <2>1. PICK task \in Tasks, worlds \in [Runs -> Worlds] :
          tasks = [r \in Runs |-> TaskContract(task, worlds[r])]
    BY DEF Init
  <2>2. \A r \in Runs : LogicalTask(tasks[r]) =
          [objective |-> task.objective, contract |-> task.contract, choices |-> task.choices,
           artifacts |-> task.artifacts]
    <3> TAKE r \in Runs
    <3>1. tasks[r] = TaskContract(task, worlds[r])
      BY <2>1
    <3>2. /\ tasks[r].objective = task.objective /\ tasks[r].contract = task.contract
          /\ tasks[r].choices = task.choices /\ DOMAIN tasks[r].artifacts = task.artifacts
          /\ \A id \in task.artifacts : tasks[r].artifacts[id].artifact_id = id
      BY <3>1 DEF TaskContract
    <3>3. {tasks[r].artifacts[id].artifact_id : id \in DOMAIN tasks[r].artifacts} = task.artifacts
      BY <3>2
    <3> QED BY <3>2, <3>3 DEF LogicalTask
  <2> QED BY <2>2 DEF SameTask
<1>5. \A r \in Runs : Progress(r)
  <2> TAKE r \in Runs
  <2>1. /\ Len(prompts[r]) = 0 /\ Len(decisions[r]) = 0 /\ Len(observations[r]) = 0
        /\ answer[r] = None /\ stage[r] = (IF Steps > 0 THEN "plan" ELSE "finalize")
    BY <1>1, <1>2
  <2>2. PlannedOut(r, Len(decisions[r])) <=> Steps = 0
    BY <2>1, StepsAssumption DEF PlannedOut
  <2>3. 1..Len(observations[r]) = ActionsIn(r, Len(decisions[r]))
    BY <2>1 DEF ActionsIn
  <2> QED BY <2>1, <2>2, <2>3, StepsAssumption DEF Progress
<1>6. \A r \in Runs : /\ Kinds(r) /\ PromptsAreViews(r) /\ DecisionsAreReplies(r)
                      /\ ObservationsAreOutputs(r) /\ AnswersAreReplies(r)
  BY <1>1, <1>2
     DEF Kinds, PromptsAreViews, DecisionsAreReplies, ObservationsAreOutputs, AnswersAreReplies
<1>7. SamePrompts
  BY <1>1, <1>2 DEF SamePrompts
<1> QED BY <1>3, <1>4, <1>5, <1>6, <1>7 DEF BlindInv, RunInv

LEMMA StepBlind == BlindInv /\ [Next]_vars => BlindInv'
<1> SUFFICES ASSUME BlindInv, [Next]_vars PROVE BlindInv'
  OBVIOUS
<1>1. CASE \E r \in Runs : Plan(r)
  BY <1>1, PlanStep
<1>2. CASE \E r \in Runs : Execute(r)
  BY <1>2, ExecuteStep
<1>3. CASE \E r \in Runs : Fail(r) \/ Evaluate(r)
  BY <1>3, LastStep
<1>4. CASE \E r \in Runs : Finalize(r)
  BY <1>4, FinalizeStep
<1>5. CASE UNCHANGED vars
  <2>1. Remembered /\ tasks' = tasks
    BY <1>5 DEF vars, Remembered
  <2>2. \A r \in Runs : RunInv(r)'
    <3> TAKE r \in Runs
    <3>1. RunInv(r) /\ Shapes
      BY DEF BlindInv
    <3> QED BY <1>5, <2>1, <3>1, OtherRun DEF vars
  <2>3. Shapes' /\ SamePrompts'
    BY <1>5 DEF vars, BlindInv, Shapes, SamePrompts
  <2> QED BY <2>1, <2>2, <2>3, TasksStay DEF BlindInv
<1> QED BY <1>1, <1>2, <1>3, <1>4, <1>5 DEF Next

\* Two runs that have both answered have been sent the same number of prompts.
LEMMA SameLengths ==
  ASSUME BlindInv, NEW r \in Runs, NEW q \in Runs, answer[r] # None, answer[q] # None
  PROVE  Len(decisions[q]) <= Len(decisions[r])
<1> DEFINE d == Len(decisions[r])
<1>1. d \in Nat /\ Len(decisions[q]) \in Nat /\ Len(decisions[q]) <= Steps /\ PlannedOut(r, d)
  BY Lengths DEF BlindInv, RunInv, Progress
<1> SUFFICES ASSUME d < Len(decisions[q]) PROVE FALSE
  BY <1>1
<1>2. d > 0 /\ decisions[r][d].type = "finish"
  BY <1>1, StepsAssumption DEF PlannedOut
<1>3. decisions[q][d].type = "action"
  BY <1>1, <1>2 DEF BlindInv, RunInv, Kinds
<1> QED BY <1>1, <1>2, <1>3, SameKinds

LEMMA BlindRuns == BlindInv => RunsAreBlind
<1> SUFFICES ASSUME BlindInv PROVE RunsAreBlind
  OBVIOUS
<1>1. 1 \in Runs /\ 2 \in Runs
  BY DEF Runs
<1>2. PromptsAreBlind
  <2> SUFFICES ASSUME NEW i \in 1..Steps + 1, i <= Len(prompts[1]), i <= Len(prompts[2])
               PROVE  prompts[1][i] = prompts[2][i]
    BY DEF PromptsAreBlind
  <2>1. i \in 1..Len(prompts[1])
    BY <1>1, Lengths, StepsAssumption DEF BlindInv
  <2> QED BY <1>1, <2>1 DEF BlindInv, SamePrompts
<1>3. AnswersAreBlind
  <2> SUFFICES ASSUME answer[1] # None, answer[2] # None PROVE answer[1] = answer[2]
    BY DEF AnswersAreBlind
  <2>1. Len(decisions[1]) = Len(decisions[2])
    BY <1>1, SameLengths, Lengths DEF BlindInv
  <2>2. /\ Len(prompts[1]) = Len(decisions[1]) + 1
        /\ Len(prompts[2]) = Len(decisions[2]) + 1
    BY <1>1 DEF BlindInv, RunInv, Progress
  <2>3. Len(prompts[1]) \in 1..Len(prompts[1])
    BY <1>1, <2>2, Lengths DEF BlindInv
  <2>4. prompts[1][Len(prompts[1])] = prompts[2][Len(prompts[2])]
    BY <1>1, <2>1, <2>2, <2>3, Lengths DEF BlindInv, SamePrompts
  <2>5. /\ answer[1] = replies[prompts[1][Len(prompts[1])]]
        /\ answer[2] = replies[prompts[2][Len(prompts[2])]]
    BY <1>1 DEF BlindInv, RunInv, AnswersAreReplies
  <2> QED BY <2>4, <2>5
<1> QED BY <1>2, <1>3 DEF RunsAreBlind

\* However the worlds of two runs and the bindings of their executions differ,
\* their prompts and answers do not (planner.py:38-55, 98-124, 165-181).
THEOREM Blind == Spec => []RunsAreBlind
<1>1. Init => BlindInv
  BY InitBlind
<1>2. BlindInv /\ [Next]_vars => BlindInv'
  BY StepBlind
<1>3. BlindInv => RunsAreBlind
  BY BlindRuns
<1> QED BY <1>1, <1>2, <1>3, PTL DEF Spec
=============================================================================
