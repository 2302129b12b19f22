----------------------------- MODULE RowValidation -----------------------------
(***************************************************************************)
(* What becomes of one data row of an import: ImportRowValidator.validate  *)
(* with its six converters (services/import_row_validation.py) and then    *)
(* the table imported_records, which states most of the same rules again   *)
(* as column types and CHECK constraints (migration 0006).                 *)
(*                                                                         *)
(* Texts are what str.strip can leave of a cell.  What a converter reads   *)
(* in a text is given by functions on them, so that the operators hold for *)
(* any texts and any limits.                                               *)
(***************************************************************************)
EXTENDS Integers, SequencesExt

CONSTANTS
    Texts,          \* texts that are not empty
    Null,           \* None in the validator, NULL in the table
    Strip,          \* Strip[cell]: str.strip, with Null for "nothing left"
    Length,         \* Length[t]: characters of t
    Integer,        \* Integer[t]: int(t), Null when it raises ValueError
    Instant,        \* Instant[t]: local time and offset, Null when t is neither
                    \* a date nor a date-time with "T" and an offset
    Sentiments,     \* the texts "positive", "negative" and "neutral"
    WithNul,        \* texts that hold the character U+0000
    TextLimit,      \* 255
    ContentLimit,   \* 20000
    BigintMax,      \* 2^63 - 1
    LastInstant     \* the calendar of datetime is 0..LastInstant

ASSUME TextsAssumption ==
    /\ Null \notin Texts
    /\ \A cell \in DOMAIN Strip : Strip[cell] \in Texts \cup {Null}
    /\ Length \in [Texts -> Nat \ {0}]
    /\ Integer \in [Texts -> Int \cup {Null}] /\ Null \notin Int
    /\ Instant \in [Texts -> [local : Int, offset : Int] \cup {Null}]
    /\ Null \notin [local : Int, offset : Int]
    /\ Sentiments \subseteq Texts /\ WithNul \subseteq Texts
    /\ \A t \in Sentiments : t \notin WithNul

\* Some cell is blank, and some may be a content.
ASSUME CellsAssumption ==
    /\ \E cell \in DOMAIN Strip : Strip[cell] = Null
    /\ \E cell \in DOMAIN Strip : Strip[cell] \in Texts /\ Length[Strip[cell]] <= ContentLimit

ASSUME RowLimitsAssumption == {TextLimit, ContentLimit, BigintMax, LastInstant} \subseteq Nat

-------------------------------------------------------------------------------
(* The mapping of canonical fields to columns                                *)

CanonicalFields == {"published_at", "author", "content", "engagement_count", "sentiment", "source_name"}

\* The definitions of the validator, in its order.
Definitions == <<"content", "published_at", "author", "engagement_count", "sentiment", "source_name">>

\* validate_csv_mapping, when a job is prepared and again when it is executed.
MappingAccepted(mapping) ==
    /\ DOMAIN mapping \subseteq CanonicalFields
    /\ "content" \in DOMAIN mapping
    /\ \A f \in DOMAIN mapping : Strip[mapping[f]] # Null
    /\ \A f, g \in DOMAIN mapping : Strip[mapping[f]] = Strip[mapping[g]] => f = g

Normalized(mapping) == [f \in DOMAIN mapping |-> Strip[mapping[f]]]

-------------------------------------------------------------------------------
(* The validator on a row: a function from columns to cells                  *)

ColumnMissing(mapping, row, f) == f \in DOMAIN mapping /\ mapping[f] \notin DOMAIN row

\* _optional_value of the mapped cell.
Raw(mapping, row, f) == IF f \in DOMAIN mapping THEN Strip[row[mapping[f]]] ELSE Null

\* astimezone(UTC).
ToUtc(instant) == instant.local - instant.offset

\* It raises OverflowError outside the calendar, which no arm of the validator
\* catches: it leaves validate, and what was collected is lost.
Overflows(v) == v # Null /\ Instant[v] # Null /\ ToUtc(Instant[v]) \notin 0..LastInstant

Escapes(mapping, row) ==
    /\ ~ColumnMissing(mapping, row, "published_at")
    /\ Overflows(Raw(mapping, row, "published_at"))

\* The converters of texts: content; author and source_name.
TextRefusal(f, v) ==
    IF f = "content"
    THEN IF Length[v] > ContentLimit THEN "content_too_long" ELSE "none"
    ELSE IF Length[v] > TextLimit THEN "value_too_long" ELSE "none"

MutEngagementRefusal(v) == IF Integer[v] = Null THEN "invalid_integer" ELSE "none"

EngagementRefusal(v) ==
    IF Integer[v] = Null THEN "invalid_integer"
    ELSE IF Integer[v] < 0 THEN "negative_integer" ELSE "none"

\* The code of the ValueError a converter raises, or "required".
Refusal(f, v) ==
    IF v = Null THEN IF f = "content" THEN "required" ELSE "none"
    ELSE CASE f \in {"content", "author", "source_name"} -> TextRefusal(f, v)
           [] f = "published_at"     -> IF Instant[v] = Null THEN "invalid_datetime" ELSE "none"
           [] f = "engagement_count" -> EngagementRefusal(v)
           [] f = "sentiment"        -> IF v \notin Sentiments THEN "invalid_sentiment" ELSE "none"

Code(mapping, row, f) ==
    IF ColumnMissing(mapping, row, f) THEN "missing_source_column"
    ELSE Refusal(f, Raw(mapping, row, f))

Refused(mapping, row) == \E f \in CanonicalFields : Code(mapping, row, f) # "none"

\* The issue of one definition, if it has one.
IssueOf(mapping, row, f) ==
    IF Code(mapping, row, f) = "none" THEN <<>> ELSE <<[field |-> f, code |-> Code(mapping, row, f)]>>

MutIssues(mapping, row) ==
    SubSeq(FlattenSeq([k \in DOMAIN Definitions |-> IssueOf(mapping, row, Definitions[k])]), 1, 1)

\* Every definition is tried; the issues are in their order.
Issues(mapping, row) ==
    FlattenSeq([k \in DOMAIN Definitions |-> IssueOf(mapping, row, Definitions[k])])

Accepted(mapping, row) == ~Escapes(mapping, row) /\ ~Refused(mapping, row)

\* ValidatedImportRecord of an accepted row.
Validated(mapping, row) ==
    LET value(f) == Raw(mapping, row, f) IN
        [content          |-> value("content"),
         published_at     |-> IF value("published_at") = Null THEN Null
                              ELSE ToUtc(Instant[value("published_at")]),
         author           |-> value("author"),
         engagement_count |-> IF value("engagement_count") = Null THEN Null
                              ELSE Integer[value("engagement_count")],
         sentiment        |-> value("sentiment"),
         source_name      |-> value("source_name")]

-------------------------------------------------------------------------------
(* The table                                                                 *)

\* VARCHAR(limit): characters are counted the same way on both sides; the driver
\* refuses U+0000.
Varchar(v, limit) == v \in Texts \ WithNul /\ Length[v] <= limit

\* Column types and CHECKs of imported_records.
Storable(record) ==
    /\ Varchar(record.content, ContentLimit)
    /\ record.published_at \in 0..LastInstant \cup {Null}
    /\ record.author = Null \/ Varchar(record.author, TextLimit)
    /\ record.engagement_count \in 0..BigintMax \cup {Null}
    /\ record.sentiment \in Sentiments \cup {Null}
    /\ record.source_name = Null \/ Varchar(record.source_name, TextLimit)

\* What the table refuses and the validator does not look at: an integer beyond
\* BIGINT and a text with U+0000.
TooMuchForTheTable(record) ==
    \/ record.engagement_count # Null /\ record.engagement_count > BigintMax
    \/ {record.content, record.author, record.source_name} \cap WithNul # {}

===============================================================================
