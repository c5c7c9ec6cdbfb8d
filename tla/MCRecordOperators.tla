--------------------------- MODULE MCRecordOperators ---------------------------
\* Two shards of up to two records each: ints, floats, a Boolean that equals them,
\* strings, an array, a null, missing fields and ties. Each operator is asked
\* for the whole and for the parts; some requests are refused.
EXTENDS RecordOperators

Num(n) == Integer(n * Unit)
True == [type |-> "bool", value |-> <<Unit>>]
Str(characters) == [type |-> "string", value |-> characters]
List(numbers) == [type |-> "array", value |-> numbers]

Records ==
  {[g |-> Num(1), x |-> Num(1)], [g |-> True, x |-> Num(1)], [g |-> True, x |-> Float(2 * Unit)],
   [g |-> Float(Unit), x |-> Num(9)], [g |-> Str(<<1>>), x |-> Num(2)], [g |-> Null, x |-> Str(<<1, 2>>)],
   [g |-> List(<<2>>), x |-> True], [g |-> Num(1)]}

RecordShards == UNION {[1..n -> Records] : n \in 0..2}
Stores == [one : RecordShards, two : RecordShards]

Ask(operator, inputs, output, arguments) ==
  [operator |-> operator, inputs |-> inputs, output |-> output, arguments |-> arguments]
Concat(inputs, output) == Ask("aggregate_artifacts", inputs, output, <<>>)

\* The whole at once, and part by part with a last step of its own, if any.
InParts(operator, arguments, merge) ==
  <<Concat(<<"one", "two">>, "all"), Ask(operator, <<"all">>, "whole", arguments),
    Ask(operator, <<"one">>, "first", arguments), Ask(operator, <<"two">>, "second", arguments)>>
    \o IF merge = <<>> THEN <<Concat(<<"first", "second">>, "parts")>>
       ELSE <<Concat(<<"first", "second">>, "both"), Ask(operator, <<"both">>, "parts", merge[1])>>

Filters ==
  [field : {"x"}, op : {"eq", "ne", "lt", "lte", "gt", "gte"}, value : {Num(1)}]
    \cup {[field |-> "x", op |-> "contains", value |-> Str(<<2>>)],
          [field |-> "x", op |-> "contains", value |-> Num(1)],
          [field |-> "g", op |-> "contains", value |-> Num(2)]}

Rankings == [field : {"x"}, k : {1, 2}, descending : BOOLEAN]

Aggregation(operation, field, output) ==
  [operation |-> operation, field |-> field, output_field |-> output]
Aggregations ==
  <<Aggregation("count", "x", "n"), Aggregation("sum", "x", "s"), Aggregation("avg", "x", "a")>>
Extremes == <<Aggregation("min", "x", "l"), Aggregation("max", "x", "h")>>
ExtremesMerged == <<Aggregation("min", "l", "l"), Aggregation("max", "h", "h")>>

GroupBy(fields, aggregations) == [group_by |-> fields, aggregations |-> aggregations]

Derivation(target, operation, sources) ==
  [target |-> target, operation |-> operation, sources |-> sources]
FirstDerivations ==
  {Derivation("y", "add", <<"x", "x", "x">>), Derivation("x", "multiply", <<"x", "x">>),
   Derivation("y", "subtract", <<"x", "x">>), Derivation("y", "subtract", <<"x", "x", "x">>)}
SecondDerivations ==
  {Derivation("z", "divide", <<"x", "y">>), Derivation("y", "add", <<"x", "y">>),
   Derivation("z", "divide", <<"y", "x">>)}

DeriveAll(derivations) == [derivations |-> derivations]
DeriveInParts(d, e) ==
  <<Ask("derive_fields", <<"one">>, "whole", DeriveAll(<<d, e>>)),
    Ask("derive_fields", <<"one">>, "first", DeriveAll(<<d>>)),
    Ask("derive_fields", <<"first">>, "parts", DeriveAll(<<e>>))>>

\* Requests for what is not there, is no record, or has other content.
Refusals ==
  <<Concat(<<"one", "text">>, "all"), Concat(<<"one", "none">>, "all"),
    Ask("select_fields", <<"one", "two">>, "all", [fields |-> <<"g">>]),
    Ask("select_fields", <<"one">>, "two", [fields |-> <<"g">>]),
    Ask("aggregate_records", <<"one">>, "counts", GroupBy(<<>>, <<Aggregation("avg", "x", "a")>>))>>

Sequences ==
  {InParts("filter_records", filter, <<>>) : filter \in Filters}
    \cup {InParts("select_fields", [fields |-> fields], <<>>) : fields \in {<<"g">>, <<"x", "g">>}}
    \cup {InParts("top_k_records", ranking, <<ranking>>) : ranking \in Rankings}
    \cup {InParts("aggregate_records", GroupBy(fields, Extremes),
                  <<GroupBy(fields, ExtremesMerged)>>) : fields \in {<<"g">>, <<"g", "x">>}}
    \cup {<<Concat(<<"one", "two">>, "all"),
            Ask("aggregate_records", <<"all">>, "whole", GroupBy(fields, Aggregations))>> :
            fields \in {<<"g">>, <<"g", "x">>}}
    \cup {DeriveInParts(d, e) : d \in FirstDerivations, e \in SecondDerivations}
    \cup {Refusals}

Texts == {Str(<<>>), Str(<<1>>), Str(<<2>>), Str(<<1, 2>>), Str(<<1, 1, 1>>), Null}
TextCorpora == UNION {[1..n -> [text : Texts]] : n \in 0..3}
Queries == [query : {<<1>>, <<1, 2>>, <<3>>}, text_field : {"text"}, top_k : {1, 2}]

MCRecordWorkloads ==
  [store : {[one |-> store.one, two |-> store.two, text |-> Opaque] : store \in Stores},
   requests : Sequences]
    \cup [store : {[corpus |-> corpus] : corpus \in TextCorpora},
          requests : {<<Ask("bm25_retrieve", <<"corpus">>, "hits", query)>> : query \in Queries}]

\* Floats have as many digits as it takes for 8, and less precise ones from there on.
Rounded(units) == IF units <= 8 * Unit THEN units ELSE (units \div (4 * Unit)) * 4 * Unit
MCAsFloat(units) == Rounded(units)
MCFloatSum(numbers) == FoldLeft(LAMBDA sum, n : Rounded(sum + n), 0, numbers)

\* The sign of log(1 + (n - c + 0.5) / (c + 0.5)) is that of 2 (n - c) + 1.
MCInverseFrequency(documents, containing) == 2 * (documents - containing) + 1
MCSaturation(frequency, length, lengths) == 1 + (60 * frequency) \div (frequency + length + 1)
=============================================================================
