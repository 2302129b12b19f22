----------------------------- MODULE CsvRecordScan -----------------------------
(***************************************************************************)
(* The two loops that read an uploaded CSV file record by record:          *)
(* CsvProcessingService._read_summary, which answers GET .../csv-summary   *)
(* before the columns are mapped, and                                      *)
(* CsvImportExecutionService._persist_records, which validates the rows    *)
(* and inserts them in batches.  The loops were written twice and share no *)
(* code, but the import must not meet a file the summary misdescribed.     *)
(*                                                                         *)
(* A file is the sequence of records csv.reader yields, the way it stops   *)
(* and the mapping its import was prepared with.  What the validator and   *)
(* the table make of a row is RowValidation.                               *)
(* CsvImportExecution abstracts this loop to a count of good rows and an   *)
(* end; AbstractedByFiles is the fact that lets it.                        *)
(***************************************************************************)
EXTENDS RowValidation

CONSTANTS
    Files,         \* [records : Seq(Seq(DOMAIN Strip)), tail : Tails, mapping : mappings]
    MaxRows,       \* settings.csv_max_rows
    MaxColumns,    \* settings.csv_max_columns
    BatchSize      \* settings.import_batch_size

ASSUME LimitsAssumption == {MaxRows, MaxColumns, BatchSize} \subseteq Nat \ {0}

\* "csv_error": csv.Error after the last record; "undecodable": a byte that is
\* not UTF-8 somewhere in the file.
Tails == {"eof", "csv_error", "undecodable"}

\* A job is only prepared with a mapping that validate_csv_mapping accepts.
ASSUME FilesAssumption ==
    \A f \in Files :
        /\ f.records \in Seq(Seq(DOMAIN Strip))
        /\ f.tail \in Tails
        /\ MappingAccepted(f.mapping)

VARIABLES
    file,          \* the uploaded file
    scan,          \* scan[r]: the local variables of the loop of reader r
    inserted       \* the batches insert_batch was called with, in order

vars == <<file, scan, inserted>>

Readers == {"summary", "import"}

Stripped(record) == [i \in DOMAIN record |-> Strip[record[i]]]

\* csv.reader yields an empty list for an empty line: blank as well.
Blank(record) == \A i \in DOMAIN record : Strip[record[i]] = Null

\* header is None: a record that is not blank is never empty.
NoHeader == <<>>

Start == [outcome |-> "reading", pos |-> 0, header |-> NoHeader, count |-> 0, batch |-> <<>>,
          issues |-> <<>>]

-------------------------------------------------------------------------------
(* One record                                                                *)

\* The scans share nothing, so the model runs them one after the other.
Reading(r) ==
    /\ scan[r].outcome = "reading"
    /\ r = "import" => scan["summary"].outcome # "reading"

HasRecord(r) == scan[r].pos < Len(file.records)

Record(r) == file.records[scan[r].pos + 1]

\* The mapping as _get_mapping reads it from the job.
Mapping == Normalized(file.mapping)

\* The summary only counts the columns; the import validates their names.
HeaderFault(r, record) ==
    LET header == Stripped(record) IN
        IF Len(record) > MaxColumns THEN "column_limit"
        ELSE IF r = "summary" THEN "none"
        ELSE IF Null \in Range(header) THEN "blank_header"
        ELSE IF Cardinality(Range(header)) # Len(header) THEN "duplicate_header"
        ELSE IF ~(Range(Mapping) \subseteq Range(header)) THEN "missing_column"
        ELSE "none"

\* SourceRow: the cells by the columns of a header, whose names are distinct.
SourceRow(header, record) ==
    [c \in Range(header) |-> record[CHOOSE i \in DOMAIN header : header[i] = c]]

MutRowFault(r, record) ==
    LET row == SourceRow(scan[r].header, record) IN
        IF Len(record) < Len(scan[r].header) THEN "row_width"
        ELSE IF scan[r].count + 1 > MaxRows THEN "row_limit"
        ELSE IF r = "import" /\ Escapes(Mapping, row) THEN "overflow"
        ELSE IF r = "import" /\ Refused(Mapping, row) THEN "invalid_row"
        ELSE "none"

MutLimitByOne(r, record) ==
    LET row == SourceRow(scan[r].header, record) IN
        IF Len(record) # Len(scan[r].header) THEN "row_width"
        ELSE IF scan[r].count + 1 >= MaxRows THEN "row_limit"
        ELSE IF r = "import" /\ Escapes(Mapping, row) THEN "overflow"
        ELSE IF r = "import" /\ Refused(Mapping, row) THEN "invalid_row"
        ELSE "none"

RowFault(r, record) ==
    LET row == SourceRow(scan[r].header, record) IN
        IF Len(record) # Len(scan[r].header) THEN "row_width"
        ELSE IF scan[r].count + 1 > MaxRows THEN "row_limit"
        ELSE IF r = "import" /\ Escapes(Mapping, row) THEN "overflow"
        ELSE IF r = "import" /\ Refused(Mapping, row) THEN "invalid_row"
        ELSE "none"

\* What InvalidImportedRecordError carries.
IssuesOf(r, fault, record) ==
    IF r = "import" /\ fault = "row_width" THEN <<[field |-> "row", code |-> "row_width"]>>
    ELSE IF fault = "invalid_row" THEN Issues(Mapping, SourceRow(scan[r].header, record))
    ELSE <<>>

\* An exception leaves the loop; the import's open transaction is rolled back
\* by execute, so `inserted` then only records what was sent.
Fail(r, fault) ==
    /\ scan' = [scan EXCEPT ![r].outcome = fault]
    /\ UNCHANGED <<file, inserted>>

MutSkipBlank(r) ==
    /\ Reading(r) /\ HasRecord(r)
    /\ Blank(Record(r))
    /\ scan' = [scan EXCEPT ![r].pos = @ + 1, ![r].count = @ + 1]
    /\ UNCHANGED <<file, inserted>>

SkipBlank(r) ==
    /\ Reading(r) /\ HasRecord(r)
    /\ Blank(Record(r))
    /\ scan' = [scan EXCEPT ![r].pos = @ + 1]
    /\ UNCHANGED <<file, inserted>>

ReadHeader(r) ==
    /\ Reading(r) /\ HasRecord(r)
    /\ ~Blank(Record(r)) /\ scan[r].header = NoHeader
    /\ HeaderFault(r, Record(r)) = "none"
    /\ scan' = [scan EXCEPT ![r].pos = @ + 1,
                            ![r].header = IF r = "import" THEN Stripped(Record(r)) ELSE Record(r)]
    /\ UNCHANGED <<file, inserted>>

RefuseHeader(r) ==
    /\ Reading(r) /\ HasRecord(r)
    /\ ~Blank(Record(r)) /\ scan[r].header = NoHeader
    /\ HeaderFault(r, Record(r)) # "none"
    /\ Fail(r, HeaderFault(r, Record(r)))

RefuseRow(r) ==
    /\ Reading(r) /\ HasRecord(r)
    /\ ~Blank(Record(r)) /\ scan[r].header # NoHeader
    /\ RowFault(r, Record(r)) # "none"
    /\ scan' = [scan EXCEPT ![r].outcome = RowFault(r, Record(r)),
                            ![r].issues = IssuesOf(r, RowFault(r, Record(r)), Record(r))]
    /\ UNCHANGED <<file, inserted>>

MutFull(batch) == Len(batch) > BatchSize

Full(batch) == Len(batch) = BatchSize

\* The summary counts the row.
CountRow ==
    /\ Reading("summary") /\ HasRecord("summary")
    /\ ~Blank(Record("summary")) /\ scan["summary"].header # NoHeader
    /\ RowFault("summary", Record("summary")) = "none"
    /\ scan' = [scan EXCEPT !["summary"].pos = @ + 1, !["summary"].count = @ + 1]
    /\ UNCHANGED <<file, inserted>>

RecordOf(i) == Validated(Mapping, SourceRow(scan["import"].header, file.records[i]))

\* insert_batch is one statement: the table takes all its rows or none.
TableTakes(batch) == \A k \in DOMAIN batch : Storable(RecordOf(batch[k]))

\* The import adds the row, by its record number, to the batch and sends a full one.
AddRow ==
    LET batch == Append(scan["import"].batch, scan["import"].pos + 1) IN
        /\ Reading("import") /\ HasRecord("import")
        /\ ~Blank(Record("import")) /\ scan["import"].header # NoHeader
        /\ RowFault("import", Record("import")) = "none"
        /\ Full(batch) => TableTakes(batch)
        /\ scan' = [scan EXCEPT !["import"].pos = @ + 1, !["import"].count = @ + 1,
                                !["import"].batch = IF Full(batch) THEN <<>> ELSE batch]
        /\ inserted' = IF Full(batch) THEN Append(inserted, batch) ELSE inserted
        /\ UNCHANGED file

\* A DataError of the INSERT: ImportedRecordPersistenceError, without issues.
BatchFails ==
    LET batch == Append(scan["import"].batch, scan["import"].pos + 1) IN
        /\ Reading("import") /\ HasRecord("import")
        /\ ~Blank(Record("import")) /\ scan["import"].header # NoHeader
        /\ RowFault("import", Record("import")) = "none"
        /\ Full(batch) /\ ~TableTakes(batch)
        /\ Fail("import", "unstorable")

-------------------------------------------------------------------------------
(* The end of the file                                                       *)

\* The decoder works on chunks of the file, so a bad byte may be met before
\* records in front of it are yielded.
Undecodable(r) ==
    /\ Reading(r)
    /\ file.tail = "undecodable"
    /\ Fail(r, "undecodable")

CsvError(r) ==
    /\ Reading(r) /\ ~HasRecord(r)
    /\ file.tail = "csv_error"
    /\ Fail(r, "csv_error")

NoHeaderFound(r) ==
    /\ Reading(r) /\ ~HasRecord(r)
    /\ file.tail = "eof" /\ scan[r].header = NoHeader
    /\ Fail(r, "empty")

MutFinish(r) ==
    /\ Reading(r) /\ ~HasRecord(r)
    /\ file.tail = "eof" /\ scan[r].header # NoHeader
    /\ scan' = [scan EXCEPT ![r].outcome = "done", ![r].batch = <<>>]
    /\ UNCHANGED <<file, inserted>>

\* The rest of the rows goes out as a batch of its own.
Finish(r) ==
    /\ Reading(r) /\ ~HasRecord(r)
    /\ file.tail = "eof" /\ scan[r].header # NoHeader
    /\ TableTakes(scan[r].batch)
    /\ scan' = [scan EXCEPT ![r].outcome = "done", ![r].batch = <<>>]
    /\ inserted' = IF scan[r].batch = <<>> THEN inserted ELSE Append(inserted, scan[r].batch)
    /\ UNCHANGED file

RestFails ==
    /\ Reading("import") /\ ~HasRecord("import")
    /\ file.tail = "eof" /\ scan["import"].header # NoHeader
    /\ ~TableTakes(scan["import"].batch)
    /\ Fail("import", "unstorable")

-------------------------------------------------------------------------------

Init ==
    /\ file \in Files
    /\ scan = [r \in Readers |-> Start]
    /\ inserted = <<>>

Next ==
    \/ \E r \in Readers :
         \/ SkipBlank(r) \/ ReadHeader(r) \/ RefuseHeader(r) \/ RefuseRow(r)
         \/ Undecodable(r) \/ CsvError(r) \/ NoHeaderFound(r) \/ Finish(r)
    \/ CountRow
    \/ AddRow \/ BatchFails \/ RestFails

Spec == Init /\ [][Next]_vars

-------------------------------------------------------------------------------
(* What the file says, without the loop                                      *)

\* The numbers of those of the first n records that are not blank.
NonBlankUpTo[n \in 0..Len(file.records)] ==
    IF n = 0 THEN <<>>
    ELSE IF Blank(file.records[n]) THEN NonBlankUpTo[n - 1]
    ELSE Append(NonBlankUpTo[n - 1], n)

\* The header, then the data.
NonBlankRows == NonBlankUpTo[Len(file.records)]

DataRows == IF NonBlankRows = <<>> THEN <<>> ELSE Tail(NonBlankRows)

Header == Stripped(file.records[Head(NonBlankRows)])

Row(i) == SourceRow(Header, file.records[i])

Good(i) == Len(file.records[i]) = Len(Header) /\ Accepted(Mapping, Row(i))

\* Number of data rows before the first that is not good or is over the limit.
GoodRows ==
    LET Upto(n) == \A k \in 1..n : k <= MaxRows /\ Good(DataRows[k]) IN
        CHOOSE n \in 0..Len(DataRows) : Upto(n) /\ (n < Len(DataRows) => ~Upto(n + 1))

Ended(outcome) == scan["import"].outcome = outcome

-------------------------------------------------------------------------------
(* Properties                                                                *)

\* A finished import has sent every data row of the file exactly once and in
\* order, whatever blank lines lie between them and however the batches fall,
\* and counts them for total_items.
CompletedImportsEveryRow ==
    Ended("done") => FlattenSeq(inserted) = DataRows /\ scan["import"].count = Len(DataRows)

\* Every INSERT carries import_batch_size rows, but for a shorter last one that
\* is never empty and only follows the last row of the file.
BatchesAreFull ==
    \A k \in 1..Len(inserted) :
        \/ Len(inserted[k]) = BatchSize
        \/ k = Len(inserted) /\ Ended("done") /\ Len(inserted[k]) \in 1..(BatchSize - 1)

\* The limit is exact: a file of csv_max_rows rows is read to its end by both
\* loops, and only one with more rows is refused for it.
RowLimitExact ==
    \A r \in Readers :
        /\ scan[r].outcome = "row_limit" => Len(DataRows) > MaxRows
        /\ scan[r].outcome = "done" => Len(DataRows) <= MaxRows

\* The summary told the client the number of rows the import goes on to store,
\* and it accepts every file whose import can succeed.
SummaryAgrees ==
    Ended("done") =>
        /\ scan["summary"].outcome = "done"
        /\ scan["summary"].count = Len(FlattenSeq(inserted))

\* The row a validation failure reports is the first bad one: every data row
\* before it is good, and it is not.
FailureNamesFirstBadRow ==
    scan["import"].outcome \in {"row_width", "invalid_row", "overflow"} =>
        /\ GoodRows < Len(DataRows)
        /\ scan["import"].pos + 1 = DataRows[GoodRows + 1]

\* CsvImportExecution's account of an import that raises: it had sent as many
\* full batches as fit into the good rows before the fault, and nothing else.
AbstractedByFiles ==
    scan["import"].outcome \in {"row_width", "invalid_row", "overflow", "row_limit", "csv_error"}
        /\ scan["import"].header # NoHeader =>
            FlattenSeq(inserted) = SubSeq(DataRows, 1, BatchSize * (GoodRows \div BatchSize))

Repaired(row, fields) ==
    LET blank == CHOOSE c \in DOMAIN Strip : Strip[c] = Null
        plain == CHOOSE c \in DOMAIN Strip : Strip[c] # Null /\ Refusal("content", Strip[c]) = "none"
        mended == {Mapping[f] : f \in fields}
    IN  [c \in DOMAIN row |-> IF c \notin mended THEN row[c]
                              ELSE IF c = Mapping["content"] THEN plain ELSE blank]

\* The issues of a refused row tell the client all there is to correct and no
\* more: mending the reported cells gives a row the validator takes, and leaving
\* any one of them as it is does not.  No field is reported twice.
IssuesAreTheFaults ==
    Ended("invalid_row") =>
        LET row == Row(scan["import"].pos + 1)
            issues == scan["import"].issues
            fields == {issues[k].field : k \in DOMAIN issues}
        IN  /\ fields # {} /\ Cardinality(fields) = Len(issues)
            /\ ~Refused(Mapping, Repaired(row, fields))
            /\ \A f \in fields : Refused(Mapping, Repaired(row, fields \ {f}))

\* The validator and the table state the same rules twice.  When every row passes
\* the first and the INSERT still fails, the batch has an engagement count beyond
\* BIGINT or a text with U+0000, which only the table refuses.
ValidatorCoversTable ==
    Ended("unstorable") =>
        \E i \in DOMAIN file.records :
            /\ i \in Range(scan["import"].batch) \cup {scan["import"].pos + 1}
            /\ TooMuchForTheTable(RecordOf(i))

===============================================================================
