---------------------------- MODULE MCCsvRecordScan ----------------------------
(* CsvRecordScan on every file of up to MaxRecords records of a few shapes,  *)
(* and on files of one or two rows with six columns whose cells try every    *)
(* converter.                                                                *)
EXTENDS CsvRecordScan

CONSTANT MaxRecords

Columns == {"c1", "c2", "c3", "c4", "c5", "c6"}

\* A short text, one of 256 and one of 20001 characters, one with U+0000, a date,
\* a date-time before the calendar once it is UTC, and numbers.
Kinds == {"t", "long", "huge", "nul", "date", "early", "n1", "n-1", "n9", "positive"}

SomeTexts == Kinds \cup Columns \cup {"a", "b"}

\* " " is a blank cell.
SomeStrip ==
    [c \in SomeTexts \cup {" ", " a"} |-> IF c = " " THEN Null ELSE IF c = " a" THEN "a" ELSE c]

SomeLength == [t \in SomeTexts |-> CASE t = "long" -> 256 [] t = "huge" -> 20001 [] OTHER -> 1]

\* BigintMax is scaled down to 8.
SomeInteger == [t \in SomeTexts |-> CASE t = "n1" -> 1 [] t = "n-1" -> -1 [] t = "n9" -> 9 [] OTHER -> Null]

SomeInstant ==
    [t \in SomeTexts |-> CASE t = "date"  -> [local |-> 5, offset |-> 0]
                           [] t = "early" -> [local |-> 1, offset |-> 3]
                           [] OTHER       -> Null]

\* A blank line, a header or good row, one whose cells need stripping, a row
\* without content, a short row, a duplicate header and a record that is too wide.
Shapes ==
    {<<" ">>, <<"a", "b">>, <<" a", " ">>, <<" ", "b">>, <<"b">>, <<"a", " a">>,
     <<"a", "a", "a", "a", "a", "a", "a">>}

LoopFiles ==
    UNION {[records : [1..n -> Shapes], tail : Tails, mapping : {[content |-> " a"]}] :
            n \in 0..MaxRecords}

Wide == <<"c1", "c2", "c3", "c4", "c5", "c6">>

Plain == <<"t", "date", "t", "n1", "positive", "t">>

\* Rows that differ from Plain in at most two cells.
WideRows ==
    {[Plain EXCEPT ![i] = u, ![k] = v] : i, k \in 1..6, u, v \in Kinds \cup {" "}}

FullMapping ==
    [content |-> "c1", published_at |-> "c2", author |-> "c3", engagement_count |-> "c4",
     sentiment |-> "c5", source_name |-> "c6"]

\* A mapping may leave columns out.
ShortMapping == [content |-> "c1", engagement_count |-> "c2"]

RowFiles ==
    [records : {<<Wide, row>> : row \in WideRows} \cup {<<Wide, row, Plain>> : row \in WideRows},
     tail : {"eof"}, mapping : {FullMapping, ShortMapping}]

SomeFiles == LoopFiles \cup RowFiles

===============================================================================
