---------------------------- MODULE RecordOperators ----------------------------
(***************************************************************************)
(* The operators over JSON records (src/infra_joint/operators/structured.py, *)
(* retrieval.py, artifacts.py), as one worker runs them: each reads artifacts *)
(* of its store and writes one.                                              *)
(*                                                                           *)
(* A record is a function of its fields. A value has a type and a sequence of *)
(* numbers: an int, a float or a Boolean has one, a string its characters (a  *)
(* text: its tokens), an array its elements. Numbers are counted in 1 / Unit.  *)
(***************************************************************************)
EXTENDS Arrangements, TLC

CONSTANTS
  RecordWorkloads,         \* a store with the requests made of it, in order
  Opaque,                  \* an artifact that is no JSON array of objects
  Unit,
  AsFloat(_),              \* float() of an int, which may be rounded
  FloatSum(_),             \* sum() of floats, which depends on how they are grouped
  InverseFrequency(_, _),  \* of documents, of those with the token: falls, positive
  Saturation(_, _, _)      \* of frequency, length, all lengths: rises with the first

ASSUME UnitAssumption == Unit \in Nat \ {0}

\* The types of values, nested objects left out; a derivation that fails is undefined.
Types == {"int", "float", "bool", "string", "array", "null", "undefined"}

Values ==
  {v \in [type : Types, value : Seq(Int)] : v.type \in {"int", "float"} => Len(v.value) = 1}

IsRecord(record) == record \in [DOMAIN record -> Values]

IsRecords(records) ==
  records \in Seq(Range(records)) /\ \A record \in Range(records) : IsRecord(record)

\* What the schemas of the arguments let through (structured.py:18-104, retrieval.py:17-23).
IsRecordRequest(request) ==
  /\ request.inputs \in Seq(Range(request.inputs))
  /\ request.operator = "derive_fields" =>
       /\ request.arguments.derivations \in Seq(Range(request.arguments.derivations))
       /\ \A d \in Range(request.arguments.derivations) : d.sources \in Seq(Range(d.sources))
  /\ request.operator = "aggregate_records" =>
       /\ request.arguments.group_by \in Seq(Range(request.arguments.group_by))
       /\ request.arguments.aggregations \in Seq(Range(request.arguments.aggregations))
       /\ \A aggregation \in Range(request.arguments.aggregations) :
            aggregation.operation \in {"count", "sum", "min", "max", "avg"}
  /\ request.operator = "top_k_records" =>
       request.arguments.k \in Nat \ {0} /\ request.arguments.descending \in BOOLEAN
  /\ request.operator = "bm25_retrieve" =>
       /\ request.arguments.top_k \in Nat \ {0}
       /\ request.arguments.query \in Seq(Range(request.arguments.query))

ASSUME RecordAssumption ==
  \A workload \in RecordWorkloads :
    /\ \A id \in DOMAIN workload.store : workload.store[id] = Opaque \/ IsRecords(workload.store[id])
    /\ workload.requests \in Seq(Range(workload.requests))
    /\ \A request \in Range(workload.requests) : IsRecordRequest(request)

VARIABLES
  artifacts,   \* the store: JSON records by artifact ID
  requests,    \* what the worker is asked to execute
  answers      \* the status of every request that was answered

operatorVars == <<artifacts, requests, answers>>

-----------------------------------------------------------------------------
(* Python's values: 1, 1.0 and True are equal, but True counts as no number, and  *)
(* whatever is computed is a float, except a count.                          *)

Integer(units) == [type |-> "int", value |-> <<units>>]
Float(units) == [type |-> "float", value |-> <<units>>]
Null == [type |-> "null", value |-> <<>>]
Undefined == [type |-> "undefined", value |-> <<>>]

Plain(v) == IF v.type \in {"bool", "int", "float"} THEN [v EXCEPT !.type = "number"] ELSE v
Equal(v, w) == Plain(v) = Plain(w)

\* The order of lists and strings, which is that of numbers for single elements.
Less(s, t) ==
  \E i \in 1..Len(t) :
    /\ i <= Len(s) + 1
    /\ \A k \in 1..(i - 1) : s[k] = t[k]
    /\ i <= Len(s) => s[i] < t[i]

Comparable(v, w) ==
  Plain(v).type = Plain(w).type /\ Plain(v).type \in {"number", "string", "array"}

Includes(v, w) ==
  IF v.type = "string"
  THEN \E i \in 0..(Len(v.value) - Len(w.value)) : SubSeq(v.value, i + 1, i + Len(w.value)) = w.value
  ELSE \E element \in Range(v.value) : Equal(Integer(element), w)

Numeric(record, field) == field \in DOMAIN record /\ record[field].type \in {"int", "float"}

\* _numeric: what is computed with is a float.
FloatOf(v) == IF v.type = "int" THEN AsFloat(v.value[1]) ELSE v.value[1]

\* The units of a field in records where it is numeric.
Units(records, field) == [i \in DOMAIN records |-> FloatOf(records[i][field])]

Total(numbers) == FoldLeft(LAMBDA a, b : a + b, 0, numbers)

\* A record of one field, or a store of one artifact; and all that either of two has,
\* the first one's where both have something.
Single(name, content) == [only \in {name} |-> content]

Merged(f, g) == [x \in DOMAIN f \cup DOMAIN g |-> IF x \in DOMAIN f THEN f[x] ELSE g[x]]

-----------------------------------------------------------------------------
(* An operator's result: what it writes, or why it fails. *)

Success(records) == [status |-> "success", records |-> records]
Failure(status) == [status |-> status, records |-> <<>>]
Invalid == Failure("validation_failed")

Succeeded(status) == status = "success"

\* The first failure of a sequence of steps.
FirstFailure(statuses) ==
  LET failures == {i \in DOMAIN statuses : ~Succeeded(statuses[i])}
  IN  IF failures = {} THEN "success" ELSE statuses[Min(failures)]

Missing(records, fields) == \E record \in Range(records) : ~(fields \subseteq DOMAIN record)

\* _compare: a string is searched for another string only; that it cannot be
\* searched for anything else is an error that nothing catches.
ComparisonStatus(actual, op, expected) ==
  CASE op \in {"eq", "ne"} -> "success"
    [] op = "contains" /\ actual.type = "array" -> "success"
    [] op = "contains" /\ actual.type = "string" ->
         IF expected.type = "string" THEN "success" ELSE "internal_error"
    [] op \in {"lt", "lte", "gt", "gte"} /\ Comparable(actual, expected) -> "success"
    [] OTHER -> "validation_failed"

Compare(actual, op, expected) ==
  CASE op = "eq" -> Equal(actual, expected)
    [] op = "ne" -> ~Equal(actual, expected)
    [] op = "lt" -> Less(actual.value, expected.value)
    [] op = "lte" -> ~Less(expected.value, actual.value)
    [] op = "gt" -> Less(expected.value, actual.value)
    [] op = "gte" -> ~Less(actual.value, expected.value)
    [] op = "contains" -> Includes(actual, expected)

Filtered(records, a) ==
  LET status == FirstFailure(
        [i \in DOMAIN records |-> ComparisonStatus(records[i][a.field], a.op, a.value)])
  IN  IF Missing(records, {a.field}) THEN Invalid
      ELSE IF ~Succeeded(status) THEN Failure(status)
      ELSE Success(Kept(records,
                        {i \in DOMAIN records : Compare(records[i][a.field], a.op, a.value)}))

Selected(records, a) ==
  IF Missing(records, Range(a.fields)) THEN Invalid
  ELSE Success([i \in DOMAIN records |-> Restrict(records[i], Range(a.fields))])

-----------------------------------------------------------------------------
(* derive_fields *)

Product(numbers) == FoldLeft(LAMBDA p, n : (p * n) \div Unit, Unit, numbers)

Quotient(m, n) == IF n > 0 THEN (m * Unit) \div n ELSE (-m * Unit) \div (-n)

Derived(record, d) ==
  IF \E source \in Range(d.sources) : ~Numeric(record, source) THEN Undefined
  ELSE LET units == [i \in DOMAIN d.sources |-> FloatOf(record[d.sources[i]])]
       IN  CASE d.operation = "add" -> Float(FloatSum(units))
             [] d.operation = "subtract" -> Float(FloatSum(<<units[1], -units[2]>>))
             [] d.operation = "multiply" -> Float(Product(units))
             [] d.operation = "divide" /\ units[2] # 0 -> Float(Quotient(units[1], units[2]))
             [] OTHER -> Undefined

\* Mutant: every derivation reads the original record.
WithDerivationsOfTheOriginal(record, derivations) ==
  FoldLeft(LAMBDA done, d : Merged(Single(d.target, Derived(record, d)), done), record, derivations)

\* A derivation reads what the ones before it wrote.
WithDerivations(record, derivations) ==
  FoldLeft(LAMBDA done, d : Merged(Single(d.target, Derived(done, d)), done), record, derivations)

Underivable(record, derivations) ==
  \E n \in DOMAIN derivations :
    Derived(WithDerivations(record, SubSeq(derivations, 1, n - 1)), derivations[n]) = Undefined

WithDerivedFields(records, a) ==
  IF \E record \in Range(records) : Underivable(record, a.derivations) THEN Invalid
  ELSE Success([i \in DOMAIN records |-> WithDerivations(records[i], a.derivations)])

-----------------------------------------------------------------------------
(* aggregate_records *)

Key(record, group_by) == [i \in DOMAIN group_by |-> Plain(record[group_by[i]])]

\* Mutant: records are grouped as far as they follow one another.
RunStarts(records, group_by) ==
  Listed({i \in DOMAIN records : i > 1 => Key(records[i - 1], group_by) # Key(records[i], group_by)})

\* The first record of every group, in the order of the groups.
GroupStarts(records, group_by) ==
  Listed({i \in DOMAIN records :
            \A j \in 1..(i - 1) : Key(records[j], group_by) # Key(records[i], group_by)})

Group(records, group_by, start) ==
  Kept(records, {i \in DOMAIN records : Key(records[i], group_by) = Key(records[start], group_by)})

Aggregated(group, aggregation) ==
  IF aggregation.operation = "count" THEN Integer(Len(group) * Unit)
  ELSE IF group = <<>> THEN Null
  ELSE LET units == Units(group, aggregation.field)
       IN  CASE aggregation.operation = "sum" -> Float(FloatSum(units))
             [] aggregation.operation = "min" -> Float(Min(Range(units)))
             [] aggregation.operation = "max" -> Float(Max(Range(units)))
             [] aggregation.operation = "avg" -> Float(FloatSum(units) \div Len(units))

\* An aggregation may overwrite a field that the group was made by, or another
\* aggregation's.
Row(key, group, aggregations) ==
  LET last(field) == Max({n \in DOMAIN aggregations : aggregations[n].output_field = field})
      outputs == {aggregations[n].output_field : n \in DOMAIN aggregations}
  IN  [field \in DOMAIN key \cup outputs |->
         IF field \in outputs THEN Aggregated(group, aggregations[last(field)]) ELSE key[field]]

Unaggregatable(records, a) ==
  \/ Missing(records, Range(a.group_by))
  \/ \E record \in Range(records) :
       \/ \E field \in Range(a.group_by) : record[field].type = "array"
       \/ \E aggregation \in Range(a.aggregations) :
            aggregation.operation # "count" /\ ~Numeric(record, aggregation.field)

WithAggregations(records, a) ==
  LET starts == GroupStarts(records, a.group_by)
  IN  IF Unaggregatable(records, a) THEN Invalid
      ELSE IF records = <<>> /\ a.group_by = <<>>
      THEN Success(<<Row(<<>>, <<>>, a.aggregations)>>)
      ELSE Success([g \in DOMAIN starts |->
             Row(Restrict(records[starts[g]], Range(a.group_by)),
                 Group(records, a.group_by, starts[g]), a.aggregations)])

-----------------------------------------------------------------------------
(* top_k_records and bm25_retrieve *)

\* The first k records, whose indices are ranked.
Top(records, ranked, k) == [r \in 1..Min({k, Len(records)}) |-> records[ranked[r]]]

\* Mutant: the ascending order, turned round.
PrecedesReversed(records, a, i, j) ==
  LET v == records[i][a.field].value
      w == records[j][a.field].value
  IN  IF v = w THEN IF a.descending THEN i > j ELSE i < j
      ELSE IF a.descending THEN Less(w, v) ELSE Less(v, w)

\* Equal values keep their order, also when the order of values is descending.
Precedes(records, a, i, j) ==
  LET v == records[i][a.field].value
      w == records[j][a.field].value
  IN  IF v = w THEN i < j ELSE IF a.descending THEN Less(w, v) ELSE Less(v, w)

TopK(records, a) ==
  LET types == {record[a.field].type : record \in Range(records)}
  IN  IF Missing(records, {a.field}) THEN Invalid
      ELSE IF ~(types \subseteq {"int", "float"} \/ types \subseteq {"string"}) THEN Invalid
      ELSE Success(Top(records,
                       InOrder([i \in DOMAIN records |->
                                  {j \in DOMAIN records : Precedes(records, a, j, i)}]),
                       a.k))

Frequency(token, document) == Cardinality({p \in DOMAIN document : document[p] = token})

\* Mutant: every occurrence of a token counts as a document.
TokenFrequency(token, documents) ==
  Total([i \in DOMAIN documents |-> Frequency(token, documents[i])])

DocumentFrequency(token, documents) ==
  Cardinality({i \in DOMAIN documents : token \in Range(documents[i])})

Score(document, documents, query) ==
  LET lengths == Total([i \in DOMAIN documents |-> Len(documents[i])])
      gain(token) ==
        IF token \notin Range(document) THEN 0
        ELSE InverseFrequency(Len(documents), DocumentFrequency(token, documents))
               * Saturation(Frequency(token, document), Len(document), lengths)
  IN  Total([q \in DOMAIN query |-> gain(query[q])])

Retrieved(records, a) ==
  LET documents == [i \in DOMAIN records |-> records[i][a.text_field].value]
      score == [i \in DOMAIN records |-> Score(documents[i], documents, a.query)]
      scored == [i \in DOMAIN records |-> Merged(Single("_bm25_score", Float(score[i])), records[i])]
  IN  IF \E record \in Range(records) :
           ~(a.text_field \in DOMAIN record /\ record[a.text_field].type = "string")
      THEN Invalid
      ELSE Success(Top(scored,
                       InOrder([i \in DOMAIN records |->
                                  {j \in DOMAIN records :
                                     score[j] > score[i] \/ (score[j] = score[i] /\ j < i)}]),
                       a.top_k))

-----------------------------------------------------------------------------
(* The worker: a request is answered, and its output stored, in one step. *)

LoadStatus(id) ==
  IF id \notin DOMAIN artifacts THEN "missing_artifact"
  ELSE IF artifacts[id] = Opaque THEN "validation_failed" ELSE "success"

ArgumentsAreValid(request) ==
  /\ IF request.operator = "aggregate_artifacts" THEN request.inputs # <<>>
     ELSE Len(request.inputs) = 1
  /\ request.operator = "derive_fields" =>
       \A d \in Range(request.arguments.derivations) :
         d.operation \in {"subtract", "divide"} => Len(d.sources) = 2

\* store_json: an ID that has other content refuses it.
Storable(id, records) == id \in DOMAIN artifacts => artifacts[id] = records

Request == requests[Len(answers) + 1]

LoadRecords ==
  FlattenSeq([i \in DOMAIN Request.inputs |-> artifacts[Request.inputs[i]]])

\* An operator that has this result if its inputs can be loaded.
Execute(operator, result) ==
  LET loaded == FirstFailure([i \in DOMAIN Request.inputs |-> LoadStatus(Request.inputs[i])])
      status == IF ~ArgumentsAreValid(Request) THEN "validation_failed"
                ELSE IF ~Succeeded(loaded) THEN loaded
                ELSE result.status
      stored == Succeeded(status) /\ Storable(Request.output, result.records)
  IN  /\ Request.operator = operator
      /\ artifacts' = IF stored THEN Merged(Single(Request.output, result.records), artifacts) ELSE artifacts
      /\ answers' = Append(answers, IF Succeeded(status) /\ ~stored
                                    THEN "validation_failed" ELSE status)
      /\ UNCHANGED requests

FilterRecords == Execute("filter_records", Filtered(LoadRecords, Request.arguments))
SelectFields == Execute("select_fields", Selected(LoadRecords, Request.arguments))
DeriveFields == Execute("derive_fields", WithDerivedFields(LoadRecords, Request.arguments))
AggregateRecords == Execute("aggregate_records", WithAggregations(LoadRecords, Request.arguments))
TopKRecords == Execute("top_k_records", TopK(LoadRecords, Request.arguments))
AggregateArtifacts == Execute("aggregate_artifacts", Success(LoadRecords))
Bm25Retrieve == Execute("bm25_retrieve", Retrieved(LoadRecords, Request.arguments))

\* A worker that is about to be asked for one of some workloads.
OperatorInit(workloads) ==
  \E workload \in workloads :
    /\ artifacts = workload.store
    /\ requests = workload.requests
    /\ answers = <<>>

RecordNext ==
  /\ Len(answers) < Len(requests)
  /\ \/ FilterRecords
     \/ SelectFields
     \/ DeriveFields
     \/ AggregateRecords
     \/ TopKRecords
     \/ AggregateArtifacts
     \/ Bm25Retrieve

RecordSpec == OperatorInit(RecordWorkloads) /\ [][RecordNext]_operatorVars

-----------------------------------------------------------------------------
Answered(n, operator) == requests[n].operator = operator /\ Succeeded(answers[n])

Input(n) == FlattenSeq([i \in DOMAIN requests[n].inputs |-> artifacts[requests[n].inputs[i]]])
Output(n) == artifacts[requests[n].output]

\* top_k_records: the record at a rank is the one with as many records before it,
\* by value and then by position, in either direction, and no better one is left
\* out.
TopKIsTheBest ==
  \A n \in DOMAIN answers : Answered(n, "top_k_records") =>
    LET a == requests[n].arguments
        value(i) == Input(n)[i][a.field].value
        better(i, j) == IF a.descending THEN Less(value(j), value(i)) ELSE Less(value(i), value(j))
        before(i) == {j \in DOMAIN Input(n) : better(j, i) \/ (value(j) = value(i) /\ j < i)}
    IN  /\ Len(Output(n)) = Min({a.k, Len(Input(n))})
        /\ \A i \in DOMAIN Input(n) :
             Cardinality(before(i)) < a.k => Output(n)[Cardinality(before(i)) + 1] = Input(n)[i]

\* aggregate_records: every record is counted in one row, the row that has its
\* values in the fields of the group, and every row counts the records it has
\* been made of. Aggregations that overwrite such a field, or each other's, are not
\* spoken of.
GroupsPartitionTheRecords ==
  \A n \in DOMAIN answers : Answered(n, "aggregate_records") =>
    LET a == requests[n].arguments
        agree(row, record) == \A field \in Range(a.group_by) : Equal(row[field], record[field])
        outputs == [m \in DOMAIN a.aggregations |-> a.aggregations[m].output_field]
    IN  IsInjective(outputs) /\ Range(outputs) \cap Range(a.group_by) = {} =>
          /\ \A record \in Range(Input(n)) :
               Cardinality({r \in DOMAIN Output(n) : agree(Output(n)[r], record)}) = 1
          /\ \A row \in Range(Output(n)) :
               \A aggregation \in Range(a.aggregations) :
                 aggregation.operation = "count" =>
                   Equal(row[aggregation.output_field],
                         Integer(Unit * Cardinality({i \in DOMAIN Input(n) : agree(row, Input(n)[i])})))

\* bm25_retrieve: the hits are different documents; no document without a token of
\* the query is preferred to one that has one, however common the token is; and those
\* without one keep the corpus's order.
MatchesComeFirst ==
  \A n \in DOMAIN answers : Answered(n, "bm25_retrieve") =>
    LET a == requests[n].arguments
        matching == {i \in DOMAIN Input(n) :
                       Range(Input(n)[i][a.text_field].value) \cap Range(a.query) # {}}
        unscored(record) == Restrict(record, DOMAIN record \ {"_bm25_score"})
    IN  /\ Len(Output(n)) = Min({a.top_k, Len(Input(n))})
        /\ \E hit \in [DOMAIN Output(n) -> DOMAIN Input(n)] :
             /\ IsInjective(hit)
             /\ \A r \in DOMAIN hit :
                  /\ unscored(Output(n)[r]) = unscored(Input(n)[hit[r]])
                  /\ IF hit[r] \in matching THEN r <= Cardinality(matching)
                     ELSE r = Cardinality(matching)
                                + Cardinality({i \in DOMAIN Input(n) \ matching : i <= hit[r]})

\* A success of aggregate_artifacts has merged two artifacts, in this order, into this.
Concatenated(first, second, id) ==
  \E n \in DOMAIN answers :
    Answered(n, "aggregate_artifacts") /\ requests[n].inputs = <<first, second>> /\ requests[n].output = id

RecordByRecord == {"filter_records", "select_fields", "derive_fields"}

\* The answer is about the records of the artifact that the request names: it was
\* there, and a refusal is not because something else has the output's ID.
Decided(n) ==
  /\ requests[n].operator \in RecordByRecord \cup {"top_k_records", "aggregate_records"}
  /\ ArgumentsAreValid(requests[n])
  /\ answers[n] # "missing_artifact"
  /\ LoadStatus(requests[n].inputs[1]) = "success"
  /\ Succeeded(answers[n]) \/ requests[n].output \notin DOMAIN artifacts

AsksTheSame(n, m) ==
  requests[n].operator = requests[m].operator /\ requests[n].arguments = requests[m].arguments

\* The aggregations of rows that aggregations have made.
Merging(aggregations) ==
  [n \in DOMAIN aggregations |->
     [operation |-> aggregations[n].operation,
      field |-> aggregations[n].output_field,
      output_field |-> aggregations[n].output_field]]

\* Averages cannot be merged, nor what several aggregations overwrite. Sums of floats
\* depend on how they are grouped, and counts that are added up are a float.
Mergeable(a) ==
  /\ a.group_by # <<>>
  /\ \A n \in DOMAIN a.aggregations :
       /\ a.aggregations[n].operation \in {"min", "max"}
       /\ a.aggregations[n].output_field \notin Range(a.group_by)
       /\ \A m \in DOMAIN a.aggregations :
            a.aggregations[n].output_field = a.aggregations[m].output_field => n = m

\* w asks of the whole what p and q ask of its two parts.
AsksTheWhole(w, p, q) ==
  /\ AsksTheSame(w, p) /\ AsksTheSame(w, q)
  /\ Concatenated(requests[p].inputs[1], requests[q].inputs[1], requests[w].inputs[1])

\* m asks the results of p and q, merged, for what w asks.
Completes(m, w, p, q) ==
  /\ Concatenated(requests[p].output, requests[q].output, requests[m].inputs[1])
  /\ \/ requests[w].operator = "top_k_records" /\ AsksTheSame(m, w)
     \/ /\ requests[w].operator = "aggregate_records" /\ requests[m].operator = "aggregate_records"
        /\ Mergeable(requests[w].arguments)
        /\ requests[m].arguments.group_by = requests[w].arguments.group_by
        /\ requests[m].arguments.aggregations = Merging(requests[w].arguments.aggregations)

\* Records that are filtered, projected, derived, grouped or ranked where they are (p and
\* q) and merged afterwards give what they give merged first (w), and fail when that
\* fails: what makes it safe to reduce data before it is moved (structured.py:209-303).
\* Rankings, and the least and the greatest values of groups, take a last step over
\* the merged results (m); sums, counts and averages of groups are not spoken of.
PartsCompose ==
  LET decided == {n \in DOMAIN answers : Decided(n)}
  IN  \A w, p, q \in decided : AsksTheWhole(w, p, q) =>
        /\ Succeeded(answers[w]) => Succeeded(answers[p]) /\ Succeeded(answers[q])
        /\ Succeeded(answers[p]) /\ Succeeded(answers[q]) =>
             /\ requests[w].operator \in RecordByRecord =>
                  Succeeded(answers[w]) /\ Output(w) = Output(p) \o Output(q)
             /\ \A m \in decided : Completes(m, w, p, q) =>
                  /\ Succeeded(answers[w]) <=> Succeeded(answers[m])
                  /\ Succeeded(answers[w]) => Output(w) = Output(m)

\* derive_fields with several derivations (w) does what requests one after the other
\* do with some of them (p) and then the others (q), although a derivation reads
\* what an earlier one wrote and may fail in the middle of a record.
DerivationsCompose ==
  LET decided == {n \in DOMAIN answers : Decided(n) /\ requests[n].operator = "derive_fields"}
      derivations(n) == requests[n].arguments.derivations
  IN  \A w, p, q \in decided :
        requests[w].inputs = requests[p].inputs /\ derivations(w) = derivations(p) \o derivations(q)
        => /\ Succeeded(answers[w]) => Succeeded(answers[p])
           /\ Succeeded(answers[p]) /\ requests[q].inputs[1] = requests[p].output =>
                /\ Succeeded(answers[w]) <=> Succeeded(answers[q])
                /\ Succeeded(answers[w]) => Output(w) = Output(q)

RequestsCompose == PartsCompose /\ DerivationsCompose
=============================================================================
