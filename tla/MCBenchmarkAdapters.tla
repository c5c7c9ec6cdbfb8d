-------------------------- MODULE MCBenchmarkAdapters --------------------------
\* Every text of up to seven characters with delimiters that can overlap
\* themselves; tables with disjoint, nested and out-of-order columns, lines on
\* both sides of every column's end and up to two lines of header, numbers in their
\* spellings, of which three digits are taken for too many for a float; manifests whose
\* chunks are in place, off by the tolerance, off by more, missing or too many;
\* corpora with fewer and with more documents than shards.
EXTENDS BenchmarkAdapters

MCContexts ==
  [kind : {"multi_document"},
   text : UNION {[1..n -> {"x", "-"}] : n \in 1..7},
   delimiter : {<<"-">>, <<"-", "-">>, <<"-", "x", "-">>}]

Columns(names, intervals, types) ==
  {[name |-> name, from |-> interval[1], to |-> interval[2],
    type |-> type[1], nullable |-> type[2]] :
     name \in names, interval \in intervals, type \in types}
First == Columns({<<"a">>}, {<<0, 1>>, <<0, 2>>, <<1, 3>>, <<2, 2>>}, {<<"string", FALSE>>})
Second == Columns({<<"a">>, <<"1">>}, {<<0, 1>>, <<1, 2>>, <<1, 3>>, <<2, 3>>},
                  {<<"string", FALSE>>, <<"integer", FALSE>>, <<"number", TRUE>>})

Lines == UNION {[1..n -> {"a", "1", " "}] : n \in 0..3}
Headers == {<<"a">>, <<"a", "1">>, <<"1", "a">>, <<"a", " ", "1">>, <<"1", "a", "a">>}
Bodies(line) == {<<line>>, <<<<" ">>, line>>, <<<<"1", "1">>, line>>}

MCTables ==
  [kind : {"fixed_width_structured"},
   columns : {<<c>> : c \in First}
               \cup {<<c, d>> : c \in First, d \in Second}
               \cup {<<d, c>> : c \in First, d \in Second},
   header_lines : {0, 1, 2},
   lines : UNION {Bodies(line) : line \in Lines}
             \cup {<<header, line>> : header \in Headers, line \in Lines}
             \cup {<<<<"a">>, header, <<"a", "1">>>> : header \in Headers}]
    \cup
  [kind : {"fixed_width_structured"},
   columns : {<<c, d>> : c \in Columns({<<"a">>}, {<<0, 1>>}, {<<"string", FALSE>>}),
                         d \in Columns({<<"1">>}, {<<1, 5>>}, {<<"integer", TRUE>>, <<"number", FALSE>>})},
   header_lines : {0},
   lines : {<<<<"a">> \o numeral, <<" ", "1">>>> :
              numeral \in UNION {[1..n -> {"0", "1", ".", "-", " "}] : n \in 3..4}}]

MCFloatKeeps(number) == Cardinality(number.digits) < 3

Chunks ==
  [id : {1}, from : {0, 1, 2}, to : {3, 4, 5}]
    \cup [id : {1, 2}, from : {3, 4, 5}, to : {4, 7, 8, 9}]
    \cup [id : {3}, from : {4, 7, 8}, to : {8, 9, 10}]

MCSegmentations ==
  [kind : {"fixed_interval"},
   duration : {4, 6, 8, 9},
   interval : {4},
   chunks : UNION {[1..n -> Chunks] : n \in 1..2}
              \cup {<<c, d, e>> : c \in {x \in Chunks : x.from <= 1},
                                  d \in {x \in Chunks : x.id = 2},
                                  e \in {x \in Chunks : x.id = 3}},
   source_matches : BOOLEAN,
   information_preserved : {TRUE}]
    \cup [kind : {"fixed_interval"}, duration : {4}, interval : {4},
          chunks : {<<[id |-> 1, from |-> 0, to |-> 4]>>},
          source_matches : {TRUE}, information_preserved : {FALSE}]

MCCorpora ==
  [kind : {"full_corpus"},
   corpus : UNION {[1..n -> {2, 3, 5, 8, 9}] : n \in 1..3},
   shard_count : 1..4]

MCSelections ==
  [kind : {"fixed_candidate"},
   documents : UNION {[1..n -> {2, 3}] : n \in 1..2},
   ranks : {<<1>>, <<1, 2>>, <<2, 1>>},
   top_n : {1, 2},
   revision_matches : BOOLEAN,
   query_matches : BOOLEAN]
=============================================================================
