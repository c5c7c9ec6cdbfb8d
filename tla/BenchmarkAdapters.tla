--------------------------- MODULE BenchmarkAdapters ---------------------------
(***************************************************************************)
(* The benchmark adapters (src/infra_joint/benchmarks): a source sample     *)
(* becomes prepared artifacts and a claim about what the change preserved.  *)
(* A text is a sequence of characters, numbered from 1; a number that a text *)
(* spells is its sign and its digits; a time is a number of ticks; a corpus   *)
(* document is the number that its SHA-256 spells.                           *)
(***************************************************************************)
EXTENDS Arrangements

CONSTANTS
  Contexts,        \* texts with the delimiter of their documents
  Tables,          \* lines with a declaration of their fixed-width columns
  Segmentations,   \* videos with a manifest of their chunks
  Corpora,         \* documents with the number of shards that is asked for
  Selections,      \* ranked candidates with the record of their selection
  Tolerance,       \* ticks by which a chunk's end may miss its place
  FloatKeeps(_)    \* of a number: no float is printed as another number

ASSUME ToleranceAssumption == Tolerance \in Nat

ASSUME KindsAssumption ==
  /\ \A context \in Contexts : context.kind = "multi_document"
  /\ \A table \in Tables : table.kind = "fixed_width_structured"
  /\ \A video \in Segmentations : video.kind = "fixed_interval"
  /\ \A setting \in Corpora : setting.kind = "full_corpus"
  /\ \A setting \in Selections : setting.kind = "fixed_candidate"

\* What the fields of a sample are declared to be (longbench_v2.py:44, 60-91).
ASSUME ContextsAssumption ==
  \A context \in Contexts :
    /\ context.text \in Seq(Range(context.text)) /\ context.text # <<>>
    /\ context.delimiter \in Seq(Range(context.delimiter)) /\ context.delimiter # <<>>

ASSUME TablesAssumption ==
  \A table \in Tables :
    /\ table.lines \in Seq(Range(table.lines)) /\ table.header_lines \in Nat
    /\ \A line \in Range(table.lines) : line \in Seq(Range(line))
    /\ table.columns \in Seq(Range(table.columns))
    /\ \A column \in Range(table.columns) :
         /\ column.from \in Nat /\ column.to \in Nat
         /\ column.type \in {"string", "integer", "number"}

\* What the fields of a manifest are declared to be (video_mme.py:59-61, 76-78).
ASSUME SegmentationsAssumption ==
  \A video \in Segmentations :
    /\ video.duration \in Nat \ {0} /\ video.interval \in Nat \ {0}
    /\ video.chunks \in Seq(Range(video.chunks)) /\ video.chunks # <<>>
    /\ \A chunk \in Range(video.chunks) : chunk.from \in Nat /\ chunk.to \in Nat \ {0}

\* The sample that is adapted, and what the adapter made of it.
VARIABLES sample, prepared

adapterVars == <<sample, prepared>>

Unprepared == [setting |-> "none", artifacts |-> <<>>]
Refused == [setting |-> "refused", artifacts |-> <<>>]

\* assess_validity, for a query and an evaluator that are the official ones.
Prepared(artifacts, information_preserved) ==
  [setting |-> IF information_preserved THEN "official_equivalent" ELSE "derived",
   artifacts |-> artifacts]

-----------------------------------------------------------------------------
(* LongBench v2: a text of several documents. *)

DelimiterAt(text, delimiter, p) ==
  /\ p + Len(delimiter) - 1 <= Len(text)
  /\ SubSeq(text, p, p + Len(delimiter) - 1) = delimiter

\* Mutant: matches that overlap.
IsOverlappingMatch(text, delimiter, found, p) == DelimiterAt(text, delimiter, p)

\* Matches are found from the left and do not overlap.
IsMatch(text, delimiter, found, p) ==
  /\ DelimiterAt(text, delimiter, p)
  /\ found # <<>> => Last(found) + Len(delimiter) <= p

Matches(text, delimiter) ==
  FoldLeft(LAMBDA found, p : IF IsMatch(text, delimiter, found, p) THEN Append(found, p) ELSE found,
           <<>>, [p \in 1..Len(text) |-> p])

\* A match at the beginning, which only the first can be, starts no other document.
Starts(text, delimiter) ==
  LET found == Matches(text, delimiter)
  IN  <<1>> \o (IF found # <<>> /\ Head(found) = 1 THEN Tail(found) ELSE found)

Documents(text, delimiter) ==
  LET starts == Starts(text, delimiter)
      boundaries == Append(starts, Len(text) + 1)
  IN  [i \in 1..Len(starts) |-> SubSeq(text, boundaries[i], boundaries[i + 1] - 1)]

SplitDocuments ==
  /\ sample.kind = "multi_document"
  /\ LET documents == Documents(sample.text, sample.delimiter)
     IN  prepared' = Prepared(documents, FlattenSeq(documents) = sample.text)

-----------------------------------------------------------------------------
(* LongBench v2: lines of fixed-width columns. A column's interval is from < i <= to. *)

Solid(text) == {i \in DOMAIN text : text[i] # " "}

Strip(text) ==
  IF Solid(text) = {} THEN <<>> ELSE SubSeq(text, Min(Solid(text)), Max(Solid(text)))

Field(line, column) ==
  Strip(SubSeq(line, column.from + 1, Min({column.to, Len(line)})))

\* Mutant: neighbours in the order of their declaration are compared.
ColumnsAreDisjointAsDeclared(columns) ==
  \A i \in 1..Len(columns) - 1 :
    columns[i].from <= columns[i + 1].from => columns[i].to <= columns[i + 1].from

\* Neighbours in the order of their starts are compared, not all pairs.
ColumnsAreDisjoint(columns) ==
  LET ordered == InOrder([i \in DOMAIN columns |->
                            {j \in DOMAIN columns :
                               \/ columns[j].from < columns[i].from
                               \/ columns[j].from = columns[i].from /\ j < i}])
  IN  \A r \in 1..(Len(columns) - 1) : columns[ordered[r]].to <= columns[ordered[r + 1]].from

ColumnsAreValid(columns) ==
  /\ \A i \in DOMAIN columns : columns[i].from < columns[i].to
  /\ Cardinality({columns[i].name : i \in DOMAIN columns}) = Len(columns)
  /\ ColumnsAreDisjoint(columns)

ColumnsCoverLine(line, columns) ==
  \A i \in Solid(line) : \E column \in Range(columns) : column.from < i /\ i <= column.to

DigitCharacters == {"0", "1", "2", "3", "4", "5", "6", "7", "8", "9"}

\* The number that the characters at some places of a text spell: its sign, and the
\* digits that count, with their powers of ten. So "007" is "7" and "10.50" is "10.5".
NumberAt(text, places) ==
  LET digits == {i \in places : text[i] \in DigitCharacters}
      fraction == {i \in digits : \E point \in places : point < i /\ text[point] = "."}
      power(i) == Cardinality({j \in digits : i < j}) - Cardinality(fraction)
      counting == {<<power(i), text[i]>> : i \in {j \in digits : text[j] # "0"}}
  IN  [negative |-> counting # {} /\ \E i \in places : text[i] = "-", digits |-> counting]

\* A sign, digits, and in a number also a point; the exponents and underscores that
\* Decimal reads too are left out.
IsNumeral(raw, column) ==
  /\ \E i \in DOMAIN raw : raw[i] \in DigitCharacters
  /\ \A i \in DOMAIN raw :
       \/ raw[i] \in DigitCharacters
       \/ raw[i] \in {"+", "-"} /\ i = 1
       \/ raw[i] = "." /\ column.type = "number" /\ \A j \in 1..(i - 1) : raw[j] # "."

Parses(raw, column) ==
  \/ column.type = "string"
  \/ raw = <<>> /\ column.nullable
  \/ /\ IsNumeral(raw, column)
     /\ column.type = "number" => FloatKeeps(NumberAt(raw, DOMAIN raw))

\* What _parse_fixed_width_value returns: the text, nothing, or an int or a float.
Parsed(raw, column) ==
  IF column.type = "string" THEN [type |-> "string", value |-> raw]
  ELSE IF raw = <<>> THEN [type |-> "null", value |-> <<>>]
  ELSE [type |-> column.type, value |-> NumberAt(raw, DOMAIN raw)]

ColumnNames(columns) == {column.name : column \in Range(columns)}

\* A record of the JSON artifact: a column's name and its value.
RecordOf(line, columns) ==
  [name \in ColumnNames(columns) |->
     LET column == CHOOSE column \in Range(columns) : column.name = name
     IN  Parsed(Field(line, column), column)]

\* The lines after the header that are not blank.
Data(table) == {i \in DOMAIN table.lines : i > table.header_lines /\ Solid(table.lines[i]) # {}}
DataLines(table) == Kept(table.lines, Data(table))

HeaderMatches(table) ==
  LET header == table.lines[table.header_lines]
  IN  /\ ColumnsCoverLine(header, table.columns)
      /\ \A column \in Range(table.columns) : Field(header, column) = column.name

Convertible(table) ==
  /\ ColumnsAreValid(table.columns)
  /\ table.header_lines <= Len(table.lines)
  /\ table.header_lines > 0 => HeaderMatches(table)
  /\ \A line \in Range(DataLines(table)) :
       /\ ColumnsCoverLine(line, table.columns)
       /\ \A column \in Range(table.columns) : Parses(Field(line, column), column)

\* The record of the transformation claims that the information is preserved.
ConvertFixedWidth ==
  /\ sample.kind = "fixed_width_structured"
  /\ prepared' =
       IF Convertible(sample)
       THEN LET lines == DataLines(sample)
            IN  Prepared([i \in DOMAIN lines |-> RecordOf(lines[i], sample.columns)], TRUE)
       ELSE Refused

-----------------------------------------------------------------------------
(* Video-MME: chunks of a fixed interval. *)

Near(a, b) == a - b <= Tolerance /\ b - a <= Tolerance

\* Mutant: a chunk may start anywhere after the one before it.
ChunkFollows(video, i) ==
  LET chunk == video.chunks[i]
  IN  /\ chunk.from < chunk.to
      /\ i > 1 => chunk.from >= video.chunks[i - 1].to
      /\ Near(chunk.to, Min({video.duration, i * video.interval}))

ChunkIsInPlace(video, i) ==
  LET chunk == video.chunks[i]
  IN  /\ chunk.from < chunk.to
      /\ Near(chunk.from, (i - 1) * video.interval)
      /\ Near(chunk.to, Min({video.duration, i * video.interval}))

FixedIntervals(video) ==
  /\ Cardinality({chunk.id : chunk \in Range(video.chunks)}) = Len(video.chunks)
  /\ \A i \in DOMAIN video.chunks : ChunkIsInPlace(video, i)
  /\ Near(Last(video.chunks).to, video.duration)

SegmentVideo ==
  /\ sample.kind = "fixed_interval"
  /\ prepared' =
       IF FixedIntervals(sample) /\ sample.source_matches
       THEN Prepared([i \in DOMAIN sample.chunks |-> sample.chunks[i].id],
                     sample.information_preserved)
       ELSE Refused

-----------------------------------------------------------------------------
(* MultiHop-RAG: the whole corpus in shards, or ranked candidates. *)

Sorted(documents) == SortSeq(documents, LAMBDA a, b : a <= b)

ShardCount(setting) == Min({setting.shard_count, Len(setting.corpus)})

ShardIndex(setting, document) == document % ShardCount(setting)

Shards(setting) ==
  [k \in 1..ShardCount(setting) |->
     SelectSeq(setting.corpus, LAMBDA document : ShardIndex(setting, document) = k - 1)]

PrepareFullCorpus ==
  /\ sample.kind = "full_corpus"
  /\ prepared' =
       IF IsInjective(sample.corpus)
       THEN Prepared(Shards(sample), Sorted(FlattenSeq(Shards(sample))) = Sorted(sample.corpus))
       ELSE Refused

PrepareCandidates ==
  /\ sample.kind = "fixed_candidate"
  /\ prepared' =
       IF /\ sample.ranks = [i \in DOMAIN sample.documents |-> i]
          /\ IsInjective(sample.documents)
          /\ Len(sample.documents) <= sample.top_n
          /\ sample.revision_matches
          /\ sample.query_matches
       THEN Prepared(<<sample.documents>>, FALSE)
       ELSE Refused

-----------------------------------------------------------------------------
AdapterInit ==
  /\ \/ sample \in Contexts
     \/ sample \in Tables
     \/ sample \in Segmentations
     \/ sample \in Corpora
     \/ sample \in Selections
  /\ prepared = Unprepared

AdapterNext ==
  /\ prepared = Unprepared
  /\ UNCHANGED sample
  /\ \/ SplitDocuments
     \/ ConvertFixedWidth
     \/ SegmentVideo
     \/ PrepareFullCorpus
     \/ PrepareCandidates

AdapterSpec == AdapterInit /\ [][AdapterNext]_adapterVars

-----------------------------------------------------------------------------
Adapted(kind) ==
  sample.kind = kind /\ prepared.setting \in {"official_equivalent", "derived"}

\* _split_documents: the documents in their order are the text, the run counts
\* as official, and boundaries are restored: every document but the first starts
\* with the delimiter, and any other occurrence of it in a document overlaps
\* the one that the document starts with.
DocumentsRestoreBoundaries ==
  Adapted("multi_document") =>
    /\ FlattenSeq(prepared.artifacts) = sample.text
    /\ prepared.setting = "official_equivalent"
    /\ \A i \in DOMAIN prepared.artifacts :
         LET document == prepared.artifacts[i]
             starts == DelimiterAt(document, sample.delimiter, 1)
         IN  /\ document # <<>>
             /\ i > 1 => starts
             /\ \A p \in 2..Len(document) :
                  DelimiterAt(document, sample.delimiter, p) =>
                    starts /\ p <= Len(sample.delimiter)

\* _convert_fixed_width: the records of a converted table are, in order, those of the
\* lines after the header that are not blank. Every character of such a line that no
\* numeric column has is one character of one of the record's texts, and a numeric
\* column has the number that the line's characters in its interval spell: their value
\* and not their spelling is kept, and nothing only where there is none of them.
RecordsKeepTheirLine ==
  Adapted("fixed_width_structured") =>
    LET within(line, column) == {i \in Solid(line) : column.from < i /\ i <= column.to}
        numeric == {column \in Range(sample.columns) : column.type # "string"}
        words(line) == Solid(line) \ UNION {within(line, column) : column \in numeric}
        texts(record) == {name \in DOMAIN record : record[name].type = "string"}
        characters(record) == UNION {{name} \X Solid(record[name].value) : name \in texts(record)}
        lines == {i \in DOMAIN sample.lines : i > sample.header_lines /\ Solid(sample.lines[i]) # {}}
    IN  \E of \in Bijection(DOMAIN prepared.artifacts, lines) :
          \A k \in DOMAIN of :
            LET record == prepared.artifacts[k]
                line == sample.lines[of[k]]
            IN  /\ \A l \in 1..(k - 1) : of[l] < of[k]
                /\ \E place \in Bijection(words(line), characters(record)) :
                     \A i \in DOMAIN place : line[i] = record[place[i][1]].value[place[i][2]]
                /\ \A column \in numeric :
                     IF within(line, column) = {} THEN record[column.name].type = "null"
                     ELSE record[column.name] =
                            [type |-> column.type, value |-> NumberAt(line, within(line, column))]

\* The test of the adapter calls it "rejects unmapped data" and the record says
\* that information is preserved: in what counts as official every line with data
\* is a record or the header. The code never looks at the header's lines before
\* the last.
OfficialTableIsWhole ==
  Adapted("fixed_width_structured") =>
    Cardinality({i \in DOMAIN sample.lines : Solid(sample.lines[i]) # {}}) =
      Len(prepared.artifacts) + (IF sample.header_lines = 0 THEN 0 ELSE 1)

\* FixedIntervalSegmentation: in an accepted manifest every instant that is
\* further than the tolerance from an end is in exactly one chunk, and the chunk
\* that starts later comes later, unless an interval is less than twice the
\* tolerance.
SegmentsTileTheVideo ==
  Adapted("fixed_interval") =>
    /\ \A t \in 0..(sample.duration - Tolerance - 1) :
         (\A i \in 0..Len(sample.chunks) : ~Near(t, i * sample.interval)) =>
           Cardinality({i \in DOMAIN sample.chunks :
                          sample.chunks[i].from <= t /\ t < sample.chunks[i].to}) = 1
    /\ 2 * Tolerance <= sample.interval =>
         \A i, j \in DOMAIN sample.chunks :
           i < j => sample.chunks[i].from <= sample.chunks[j].from
=============================================================================
