-------------------------- MODULE CsvRecordScan_proofs --------------------------
(***************************************************************************)
(* What the validator accepts, the table takes: first for one row, then    *)
(* for the batches the import loop sends.  Then what the two loops make of *)
(* a whole file, compared with the definitions of CsvRecordScan that look  *)
(* at the file without a loop: ScanPlace says at each record where a loop  *)
(* stands in it and how it left it, SentOK what it has sent by then.       *)
(* Last, the issues of a refused row against its faults.                   *)
(***************************************************************************)
EXTENDS CsvRecordScan, FiniteSetTheorems, WellFoundedInduction, TLAPS

\* A mapping of some canonical fields to columns of the row.
MapsInto(mapping, row) ==
    /\ DOMAIN mapping \subseteq CanonicalFields
    /\ \A f \in DOMAIN mapping : mapping[f] \in DOMAIN row
    /\ \A c \in DOMAIN row : row[c] \in DOMAIN Strip

\* Raw is None or a text, for every canonical field.
LEMMA RawType ==
    ASSUME NEW mapping, NEW row, MapsInto(mapping, row), NEW f \in CanonicalFields
    PROVE  Raw(mapping, row, f) \in Texts \cup {Null}
BY TextsAssumption DEF Raw, MapsInto

\* A row whose mapped columns are all there misses none of them.
LEMMA NoColumnMissing ==
    ASSUME NEW mapping, NEW row, MapsInto(mapping, row), NEW f \in CanonicalFields
    PROVE  ~ColumnMissing(mapping, row, f)
BY DEF ColumnMissing, MapsInto

\* In an accepted row no converter refuses its value.
LEMMA NothingRefused ==
    ASSUME NEW mapping, NEW row, MapsInto(mapping, row), Accepted(mapping, row),
           NEW f \in CanonicalFields
    PROVE  Refusal(f, Raw(mapping, row, f)) = "none"
BY NoColumnMissing DEF Accepted, Refused, Code

\* The validator (services/import_row_validation.py) lets nothing through that
\* the columns and CHECKs of imported_records refuse, but for what
\* TooMuchForTheTable names: for every text, every mapping and every limit.
THEOREM TableTakesAcceptedRows ==
    ASSUME NEW mapping, NEW row, MapsInto(mapping, row), Accepted(mapping, row),
           ~TooMuchForTheTable(Validated(mapping, row))
    PROVE  Storable(Validated(mapping, row))
<1> DEFINE v(f) == Raw(mapping, row, f)
           record == Validated(mapping, row)
<1>1. /\ record.content = v("content") /\ record.author = v("author")
      /\ record.sentiment = v("sentiment") /\ record.source_name = v("source_name")
      /\ record.published_at = IF v("published_at") = Null THEN Null
                               ELSE ToUtc(Instant[v("published_at")])
      /\ record.engagement_count = IF v("engagement_count") = Null THEN Null
                                   ELSE Integer[v("engagement_count")]
  BY DEF Validated
<1>2. \A f \in CanonicalFields : v(f) \in Texts \cup {Null} /\ Refusal(f, v(f)) = "none"
  BY RawType, NothingRefused
<1>3. {record.content, record.author, record.source_name} \cap WithNul = {}
  BY DEF TooMuchForTheTable
<1>4. Varchar(record.content, ContentLimit)
  <2>1. v("content") \in Texts \cup {Null} /\ Refusal("content", v("content")) = "none"
    BY <1>2 DEF CanonicalFields
  <2>2. v("content") \in Texts /\ TextRefusal("content", v("content")) = "none"
    BY <2>1 DEF Refusal
  <2>3. Length[v("content")] <= ContentLimit
    BY <2>2, TextsAssumption, RowLimitsAssumption DEF TextRefusal
  <2> QED BY <1>1, <1>3, <2>2, <2>3 DEF Varchar
<1>5. ASSUME NEW f \in {"author", "source_name"}, v(f) \notin WithNul
      PROVE  v(f) = Null \/ Varchar(v(f), TextLimit)
  <2>1. v(f) \in Texts \cup {Null} /\ Refusal(f, v(f)) = "none"
    BY <1>2 DEF CanonicalFields
  <2>2. CASE v(f) # Null
    <3>1. TextRefusal(f, v(f)) = "none"
      BY <2>1, <2>2 DEF Refusal
    <3>2. Length[v(f)] <= TextLimit
      BY <3>1, <2>1, <2>2, TextsAssumption, RowLimitsAssumption DEF TextRefusal
    <3> QED BY <2>1, <2>2, <3>2, <1>5 DEF Varchar
  <2> QED BY <2>2
<1>6. record.published_at \in 0..LastInstant \cup {Null}
  <2>1. ~Overflows(v("published_at"))
    BY NoColumnMissing DEF Accepted, Escapes, CanonicalFields
  <2>2. v("published_at") # Null => Instant[v("published_at")] # Null
    BY <1>2 DEF Refusal, CanonicalFields
  <2> QED BY <1>1, <2>1, <2>2 DEF Overflows
<1>7. record.engagement_count \in 0..BigintMax \cup {Null}
  <2>1. record.engagement_count = Null \/ ~(record.engagement_count > BigintMax)
    BY DEF TooMuchForTheTable
  <2>2. CASE v("engagement_count") # Null
    <3>1. v("engagement_count") \in Texts /\ Refusal("engagement_count", v("engagement_count")) = "none"
      BY <1>2, <2>2 DEF CanonicalFields
    <3>2. EngagementRefusal(v("engagement_count")) = "none"
      BY <3>1, <2>2 DEF Refusal
    <3>3. Integer[v("engagement_count")] \in Int /\ Integer[v("engagement_count")] >= 0
      BY <3>1, <3>2, TextsAssumption DEF EngagementRefusal
    <3> QED BY <1>1, <2>1, <2>2, <3>3, TextsAssumption, RowLimitsAssumption
  <2> QED BY <1>1, <2>2
<1>8. record.sentiment \in Sentiments \cup {Null}
  BY <1>1, <1>2 DEF Refusal, CanonicalFields
<1>9. (record.author = Null \/ Varchar(record.author, TextLimit))
        /\ (record.source_name = Null \/ Varchar(record.source_name, TextLimit))
  BY <1>1, <1>3, <1>5
<1> QED BY <1>4, <1>6, <1>7, <1>8, <1>9 DEF Storable

-------------------------------------------------------------------------------
(* The batches of the import loop                                            *)

\* Row i has passed the width check and the validator.
Passed(header, i) ==
    /\ i \in DOMAIN file.records
    /\ MapsInto(Mapping, SourceRow(header, file.records[i]))
    /\ Accepted(Mapping, SourceRow(header, file.records[i]))

\* The loop's locals are a record of these fields.
IsLocals(s) ==
    s = [outcome |-> s.outcome, pos |-> s.pos, header |-> s.header, count |-> s.count,
         batch |-> s.batch, issues |-> s.issues]

\* What the loop knows of its batch between two records: the header has the
\* mapped columns, and every row of the batch has passed.
BatchOK ==
    LET s == scan["import"] IN
        /\ s.pos \in Nat
        /\ s.header \in Seq(Texts \cup {Null})
        /\ s.header = NoHeader => s.batch = <<>>
        /\ s.header # NoHeader => \A f \in DOMAIN Mapping : Mapping[f] \in Range(s.header)
        /\ s.batch \in Seq(Nat)
        /\ \A k \in DOMAIN s.batch : Passed(s.header, s.batch[k])

ScanInv ==
    /\ file \in Files
    /\ DOMAIN scan = Readers
    /\ \A r \in Readers : IsLocals(scan[r])
    /\ BatchOK
    /\ ValidatorCoversTable

\* Nothing is read at first.
LEMMA ScanInitial == Init => ScanInv
<1> SUFFICES ASSUME Init PROVE ScanInv
  OBVIOUS
<1>1. /\ file \in Files /\ DOMAIN scan = Readers
      /\ \A r \in Readers : scan[r] = Start
      /\ scan["import"] = Start
  BY DEF Init, Readers
<1>2. IsLocals(Start)
  BY DEF IsLocals, Start
<1>3. /\ Start.pos = 0 /\ Start.header = NoHeader /\ Start.batch = <<>>
      /\ Start.outcome = "reading"
  BY DEF Start
<1>4. BatchOK
  BY <1>1, <1>3 DEF BatchOK, NoHeader
<1>5. ValidatorCoversTable
  BY <1>1, <1>3 DEF ValidatorCoversTable, Ended
<1> QED BY <1>1, <1>2, <1>4, <1>5 DEF ScanInv

\* A step that leaves the import's locals alone keeps the invariant.
LEMMA ImportUntouched ==
    ASSUME ScanInv, file' = file, DOMAIN scan' = Readers, \A r \in Readers : IsLocals(scan'[r]),
           scan'["import"] = scan["import"]
    PROVE  ScanInv'
BY DEF ScanInv, BatchOK, ValidatorCoversTable, Passed, Ended, RecordOf, Mapping, IsLocals

\* So does one that only ends the import with a fault of its own.
LEMMA ImportEnded ==
    ASSUME ScanInv, file' = file, DOMAIN scan' = Readers, \A r \in Readers : IsLocals(scan'[r]),
           scan'["import"].outcome # "unstorable",
           scan'["import"].pos = scan["import"].pos,
           scan'["import"].header = scan["import"].header,
           scan'["import"].batch = scan["import"].batch
    PROVE  ScanInv'
BY DEF ScanInv, BatchOK, ValidatorCoversTable, Passed, Ended, Mapping, IsLocals

\* Records are sequences of cells, and the mapping is one of canonical fields.
LEMMA RecordType ==
    ASSUME file \in Files
    PROVE  /\ file.records \in Seq(Seq(DOMAIN Strip))
           /\ DOMAIN Mapping \subseteq CanonicalFields
BY FilesAssumption DEF Mapping, Normalized, MappingAccepted

\* A record as wide as the header makes a row with all mapped columns.
LEMMA RowMapped ==
    ASSUME ScanInv, HasRecord("import"), scan["import"].header # NoHeader,
           Len(Record("import")) = Len(scan["import"].header)
    PROVE  /\ scan["import"].pos + 1 \in DOMAIN file.records
           /\ MapsInto(Mapping, SourceRow(scan["import"].header, Record("import")))
<1> DEFINE i == scan["import"].pos + 1
           h == scan["import"].header
           row == SourceRow(h, file.records[i])
<1>1. file.records \in Seq(Seq(DOMAIN Strip)) /\ DOMAIN Mapping \subseteq CanonicalFields
  BY RecordType DEF ScanInv
<1>2. i \in DOMAIN file.records /\ Record("import") = file.records[i]
  BY <1>1 DEF ScanInv, BatchOK, HasRecord, Record
<1>3. file.records[i] \in Seq(DOMAIN Strip) /\ h \in Seq(Texts \cup {Null})
  BY <1>1, <1>2 DEF ScanInv, BatchOK
<1>4. Len(file.records[i]) = Len(h)
  BY <1>2
<1>5. \A c \in DOMAIN row : row[c] \in DOMAIN Strip
  <2>1. DOMAIN row = Range(h)
    BY DEF SourceRow
  <2>2. ASSUME NEW c \in Range(h) PROVE row[c] \in DOMAIN Strip
    <3>1. PICK w \in DOMAIN h : h[w] = c
      BY DEF Range
    <3> DEFINE m == CHOOSE k \in DOMAIN h : h[k] = c
    <3>2. m \in DOMAIN h
      BY <3>1
    <3>3. m \in DOMAIN file.records[i]
      BY <3>2, <1>3, <1>4
    <3>4. row[c] = file.records[i][m]
      BY DEF SourceRow
    <3>5. \A j \in DOMAIN file.records[i] : file.records[i][j] \in DOMAIN Strip
      BY <1>3
    <3> HIDE DEF m, row
    <3> QED BY <3>3, <3>4, <3>5
  <2> QED BY <2>1, <2>2
<1>6. \A f \in DOMAIN Mapping : Mapping[f] \in DOMAIN row
  BY DEF ScanInv, BatchOK, SourceRow
<1> HIDE DEF row
<1>7. MapsInto(Mapping, row)
  BY <1>1, <1>5, <1>6 DEF MapsInto
<1> QED BY <1>2, <1>7 DEF row

\* The row the loop has just validated passes.
LEMMA CurrentPasses ==
    ASSUME ScanInv, HasRecord("import"), scan["import"].header # NoHeader,
           RowFault("import", Record("import")) = "none"
    PROVE  Passed(scan["import"].header, scan["import"].pos + 1)
<1>1. /\ Len(Record("import")) = Len(scan["import"].header)
      /\ Accepted(Mapping, SourceRow(scan["import"].header, Record("import")))
  BY DEF RowFault, Accepted
<1> QED BY <1>1, RowMapped DEF Passed, Record

\* A batch of rows that have passed is only refused for what the table alone
\* refuses.
LEMMA RefusedBatch ==
    ASSUME NEW batch, \A k \in DOMAIN batch : Passed(scan["import"].header, batch[k]),
           ~TableTakes(batch)
    PROVE  \E k \in DOMAIN batch : TooMuchForTheTable(RecordOf(batch[k]))
BY TableTakesAcceptedRows DEF TableTakes, RecordOf, Passed

\* One step per action; <1>5 and <1>7 are where the two statements of the rules
\* meet.
LEMMA ScanStep == ScanInv /\ [Next]_vars => ScanInv'
<1> SUFFICES ASSUME ScanInv, [Next]_vars PROVE ScanInv'
  OBVIOUS
<1> DEFINE s == scan["import"]
<1>0. /\ file \in Files /\ DOMAIN scan = Readers
      /\ \A r \in Readers : IsLocals(scan[r])
      /\ "import" \in Readers
  BY DEF ScanInv, Readers
<1>1. ASSUME NEW r \in Readers,
             SkipBlank(r) \/ RefuseRow(r) \/ RefuseHeader(r) \/ Undecodable(r) \/ CsvError(r) \/ NoHeaderFound(r)
      PROVE ScanInv'
  <2>1. /\ file' = file /\ DOMAIN scan' = Readers
        /\ \A q \in Readers : IsLocals(scan'[q])
        /\ r # "import" => scan'["import"] = s
    BY <1>0, <1>1 DEF SkipBlank, RefuseRow, RefuseHeader, Undecodable, CsvError, NoHeaderFound, Fail, IsLocals
  <2>2. CASE r # "import"
    BY <2>1, <2>2, ImportUntouched
  <2>3. CASE r = "import" /\ SkipBlank(r)
    <3>1. /\ scan'["import"].pos = s.pos + 1 /\ scan'["import"].outcome = "reading"
          /\ scan'["import"].header = s.header /\ scan'["import"].batch = s.batch
      BY <1>0, <2>3 DEF SkipBlank, Reading, IsLocals
    <3> QED BY <3>1, <2>1, <1>0 DEF ScanInv, BatchOK, ValidatorCoversTable, Passed, Ended, Mapping
  <2>4. CASE r = "import" /\ ~SkipBlank(r)
    <3>1. /\ scan'["import"].pos = s.pos
          /\ scan'["import"].header = s.header /\ scan'["import"].batch = s.batch
      BY <1>0, <1>1, <2>4 DEF RefuseRow, RefuseHeader, Undecodable, CsvError, NoHeaderFound, Fail, IsLocals
    <3>2. scan'["import"].outcome # "unstorable"
      BY <1>0, <1>1, <2>4 DEF RefuseRow, RefuseHeader, Undecodable, CsvError, NoHeaderFound, Fail,
         IsLocals, RowFault, HeaderFault
    <3> QED BY <3>1, <3>2, <2>1, ImportEnded
  <2> QED BY <2>2, <2>3, <2>4
<1>2. ASSUME NEW r \in Readers, ReadHeader(r) PROVE ScanInv'
  <2>1. /\ file' = file /\ DOMAIN scan' = Readers
        /\ \A q \in Readers : IsLocals(scan'[q])
        /\ r # "import" => scan'["import"] = s
    BY <1>0, <1>2 DEF ReadHeader, IsLocals
  <2>2. CASE r # "import"
    BY <2>1, <2>2, ImportUntouched
  <2>3. CASE r = "import"
    <3> DEFINE header == Stripped(Record("import"))
    <3>1. /\ scan'["import"].pos = s.pos + 1 /\ scan'["import"].outcome = "reading"
          /\ scan'["import"].header = header
          /\ scan'["import"].batch = s.batch /\ s.batch = <<>>
      BY <1>0, <1>2, <2>3 DEF ReadHeader, Reading, IsLocals, ScanInv, BatchOK
    <3>2. Record("import") \in Seq(DOMAIN Strip)
      <4>1. file.records \in Seq(Seq(DOMAIN Strip))
        BY <1>0, RecordType
      <4> QED BY <4>1, <1>2, <2>3 DEF ReadHeader, HasRecord, Record, ScanInv, BatchOK
    <3>3. header \in Seq(Texts \cup {Null})
      BY <3>2, TextsAssumption DEF Stripped
    <3>4. \A f \in DOMAIN Mapping : Mapping[f] \in Range(header)
      <4>1. HeaderFault("import", Record("import")) = "none"
        BY <1>2, <2>3 DEF ReadHeader
      <4>2. Range(Mapping) \subseteq Range(header)
        BY <4>1 DEF HeaderFault
      <4> QED BY <4>2 DEF Range
    <3> QED BY <3>1, <3>3, <3>4, <2>1, <1>0
        DEF ScanInv, BatchOK, ValidatorCoversTable, Passed, Ended, Mapping
  <2> QED BY <2>2, <2>3
<1>3. CASE CountRow
  <2>1. file' = file /\ DOMAIN scan' = Readers /\ scan'["import"] = s
          /\ \A q \in Readers : IsLocals(scan'[q])
    BY <1>0, <1>3 DEF CountRow, IsLocals
  <2> QED BY <2>1, ImportUntouched
<1>4. CASE AddRow
  <2> DEFINE batch == Append(s.batch, s.pos + 1)
  <2>0. PICK b : /\ b \in {<<>>, batch}
                 /\ scan' = [scan EXCEPT !["import"].pos = @ + 1, !["import"].count = @ + 1,
                                         !["import"].batch = b]
    <3> DEFINE sent == IF Full(batch) THEN <<>> ELSE batch
    <3>1. sent \in {<<>>, batch}
      OBVIOUS
    <3>2. scan' = [scan EXCEPT !["import"].pos = @ + 1, !["import"].count = @ + 1,
                               !["import"].batch = sent]
      BY <1>4 DEF AddRow
    <3> QED BY <3>1, <3>2
  <2> HIDE DEF batch
  <2>1. /\ DOMAIN scan' = Readers
        /\ \A q \in Readers : IsLocals(scan'[q])
        /\ scan'["import"].pos = s.pos + 1 /\ scan'["import"].outcome = s.outcome
        /\ scan'["import"].header = s.header
        /\ scan'["import"].batch = b
    <3> DEFINE t == [outcome |-> s.outcome, pos |-> s.pos + 1, header |-> s.header,
                     count |-> s.count + 1, batch |-> b, issues |-> s.issues]
    <3>0. s = [outcome |-> s.outcome, pos |-> s.pos, header |-> s.header, count |-> s.count,
               batch |-> s.batch, issues |-> s.issues]
      BY <1>0 DEF IsLocals
    <3>1. scan'["import"] = t
      <4>1. scan'["import"] = [s EXCEPT !.pos = @ + 1, !.count = @ + 1, !.batch = b]
        BY <1>0, <2>0
      <4> QED BY <4>1, <3>0
    <3>2. DOMAIN scan' = Readers /\ \A q \in Readers : q # "import" => scan'[q] = scan[q]
      BY <1>0, <2>0
    <3>3. IsLocals(t)
      BY DEF IsLocals
    <3> HIDE DEF t
    <3>4. \A q \in Readers : IsLocals(scan'[q])
      BY <3>1, <3>2, <3>3, <1>0
    <3> QED BY <3>1, <3>2, <3>4 DEF t
  <2>1a. file' = file
    BY <1>4 DEF AddRow
  <2>2. /\ Passed(s.header, s.pos + 1) /\ s.header # NoHeader
        /\ s.outcome = "reading"
    BY <1>4, CurrentPasses DEF AddRow, Reading
  <2>3. /\ s.batch \in Seq(Nat) /\ s.pos \in Nat /\ s.header \in Seq(Texts \cup {Null})
        /\ \A f \in DOMAIN Mapping : Mapping[f] \in Range(s.header)
        /\ \A k \in DOMAIN s.batch : Passed(s.header, s.batch[k])
    BY <2>2 DEF ScanInv, BatchOK
  <2>4. batch \in Seq(Nat)
    BY <2>3 DEF batch
  <2>5. \A k \in DOMAIN batch : Passed(s.header, batch[k])
    BY <2>2, <2>3 DEF batch
  <2>6. b \in Seq(Nat) /\ \A k \in DOMAIN b : Passed(s.header, b[k])
    <3>1. CASE b = <<>>
      BY <3>1
    <3>2. CASE b = batch
      BY <3>2, <2>4, <2>5
    <3> QED BY <3>1, <3>2, <2>0
  <2>7. BatchOK'
    BY <2>1, <2>1a, <2>2, <2>3, <2>6 DEF BatchOK, Passed, Mapping
  <2>8. ValidatorCoversTable'
    BY <2>1, <2>2 DEF ValidatorCoversTable, Ended
  <2> QED BY <2>1, <2>1a, <2>7, <2>8, <1>0 DEF ScanInv
<1>5. CASE BatchFails
  <2> DEFINE batch == Append(s.batch, s.pos + 1)
  <2>1. /\ file' = file /\ DOMAIN scan' = Readers
        /\ \A q \in Readers : IsLocals(scan'[q])
        /\ scan'["import"].pos = s.pos /\ scan'["import"].header = s.header
        /\ scan'["import"].batch = s.batch
    BY <1>0, <1>5 DEF BatchFails, Fail, IsLocals
  <2>2. Passed(s.header, s.pos + 1)
    BY <1>5, CurrentPasses DEF BatchFails
  <2>3. s.batch \in Seq(Nat) /\ s.pos \in Nat /\ \A k \in DOMAIN s.batch : Passed(s.header, s.batch[k])
    BY DEF ScanInv, BatchOK
  <2>4. \A k \in DOMAIN batch : Passed(s.header, batch[k])
    BY <2>2, <2>3
  <2>5. PICK k \in DOMAIN batch : TooMuchForTheTable(RecordOf(batch[k]))
    BY <2>4, <1>5, RefusedBatch DEF BatchFails
  <2>6. /\ batch[k] \in DOMAIN file.records
        /\ batch[k] \in Range(s.batch) \cup {s.pos + 1}
    BY <2>3, <2>4 DEF Passed, Range
  <2>7. ValidatorCoversTable'
    BY <2>1, <2>5, <2>6 DEF ValidatorCoversTable, RecordOf, Mapping
  <2> QED BY <2>1, <2>7, <1>0 DEF ScanInv, BatchOK, Passed, Mapping
<1>6. ASSUME NEW r \in Readers, Finish(r) PROVE ScanInv'
  <2>1. /\ file' = file /\ DOMAIN scan' = Readers
        /\ \A q \in Readers : IsLocals(scan'[q])
        /\ r # "import" => scan'["import"] = s
    BY <1>0, <1>6 DEF Finish, IsLocals
  <2>2. CASE r # "import"
    BY <2>1, <2>2, ImportUntouched
  <2>3. CASE r = "import"
    <3>1. /\ scan'["import"].pos = s.pos /\ scan'["import"].outcome = "done"
          /\ scan'["import"].header = s.header /\ scan'["import"].batch = <<>>
      BY <1>0, <1>6, <2>3 DEF Finish, IsLocals
    <3> QED BY <3>1, <2>1, <1>0 DEF ScanInv, BatchOK, ValidatorCoversTable, Passed, Ended, Mapping
  <2> QED BY <2>2, <2>3
<1>7. CASE RestFails
  <2>1. /\ file' = file /\ DOMAIN scan' = Readers
        /\ \A q \in Readers : IsLocals(scan'[q])
        /\ scan'["import"].pos = s.pos /\ scan'["import"].header = s.header
        /\ scan'["import"].batch = s.batch
    BY <1>0, <1>7 DEF RestFails, Fail, IsLocals
  <2>2. \A k \in DOMAIN s.batch : Passed(s.header, s.batch[k])
    BY DEF ScanInv, BatchOK
  <2>3. PICK k \in DOMAIN s.batch : TooMuchForTheTable(RecordOf(s.batch[k]))
    BY <2>2, <1>7, RefusedBatch DEF RestFails
  <2>4. s.batch[k] \in DOMAIN file.records /\ s.batch[k] \in Range(s.batch)
    BY <2>2 DEF Passed, Range
  <2>5. ValidatorCoversTable'
    BY <2>1, <2>3, <2>4 DEF ValidatorCoversTable, RecordOf, Mapping
  <2> QED BY <2>1, <2>5, <1>0 DEF ScanInv, BatchOK, Passed, Mapping
<1>8. CASE UNCHANGED vars
  BY <1>0, <1>8, ImportUntouched DEF vars
<1> QED BY <1>1, <1>2, <1>3, <1>4, <1>5, <1>6, <1>7, <1>8 DEF Next

\* For every file, mapping and limit: an import whose rows all passed the
\* validator fails in the INSERT only for an engagement count beyond BIGINT or a
\* text with U+0000.
THEOREM ImportCoversTable == Spec => []ValidatorCoversTable
<1>1. Init => ScanInv
  BY ScanInitial
<1>2. ScanInv /\ [Next]_vars => ScanInv'
  BY ScanStep
<1>3. ScanInv => ValidatorCoversTable
  BY DEF ScanInv
<1> QED BY <1>1, <1>2, <1>3, PTL DEF Spec

-------------------------------------------------------------------------------
(* The sizes of the batches                                                  *)

\* Between two records the batch in memory is not full, and every batch that was
\* sent is; the summary sends none.
SizesOK ==
    /\ Len(scan["import"].batch) < BatchSize
    /\ scan["summary"].batch = <<>>
    /\ inserted \in Seq(Seq(Nat))
    /\ ~Ended("done") => \A k \in 1..Len(inserted) : Len(inserted[k]) = BatchSize
    /\ BatchesAreFull

\* Nothing is sent at first.
LEMMA SizesInitial == Init => SizesOK
<1> SUFFICES ASSUME Init PROVE SizesOK
  OBVIOUS
<1>1. scan["import"] = Start /\ scan["summary"] = Start /\ inserted = <<>>
  BY DEF Init, Readers
<1>2. Start.batch = <<>> /\ Start.outcome = "reading"
  BY DEF Start
<1> QED BY <1>1, <1>2, LimitsAssumption DEF SizesOK, Ended, BatchesAreFull

\* A step that sends nothing and does not finish the import keeps the sizes.
LEMMA NothingSent ==
    ASSUME SizesOK, ~Ended("done") \/ scan'["import"].outcome = "done",
           scan'["import"].outcome = "done" => Ended("done"), inserted' = inserted,
           scan'["import"].batch = scan["import"].batch, scan'["summary"].batch = scan["summary"].batch
    PROVE  SizesOK'
BY DEF SizesOK, Ended, BatchesAreFull

\* One step per action; only AddRow and Finish send a batch.
LEMMA SizesStep == ScanInv /\ SizesOK /\ [Next]_vars => SizesOK'
<1> SUFFICES ASSUME ScanInv, SizesOK, [Next]_vars PROVE SizesOK'
  OBVIOUS
<1> DEFINE s == scan["import"]
<1>0. /\ DOMAIN scan = Readers
      /\ \A r \in Readers : IsLocals(scan[r])
      /\ "import" \in Readers /\ "summary" \in Readers
      /\ s.batch \in Seq(Nat) /\ s.pos \in Nat
      /\ BatchSize \in Nat \ {0}
  BY LimitsAssumption DEF ScanInv, BatchOK, Readers
<1>1. ASSUME NEW r \in Readers,
             SkipBlank(r) \/ ReadHeader(r) \/ RefuseRow(r) \/ RefuseHeader(r)
               \/ Undecodable(r) \/ CsvError(r) \/ NoHeaderFound(r)
      PROVE SizesOK'
  <2>1. /\ inserted' = inserted
        /\ scan'["import"].batch = s.batch /\ scan'["summary"].batch = scan["summary"].batch
    BY <1>0, <1>1 DEF SkipBlank, ReadHeader, RefuseRow, RefuseHeader, Undecodable, CsvError,
       NoHeaderFound, Fail, IsLocals
  <2>2. scan'["import"].outcome = s.outcome \/ (scan'["import"].outcome # "done" /\ ~Ended("done"))
    BY <1>0, <1>1 DEF SkipBlank, ReadHeader, RefuseRow, RefuseHeader, Undecodable, CsvError,
       NoHeaderFound, Fail, IsLocals, RowFault, HeaderFault, Ended, Reading
  <2> QED BY <2>1, <2>2, NothingSent DEF Ended
<1>2. CASE CountRow
  <2>1. inserted' = inserted /\ scan'["import"] = s /\ scan'["summary"].batch = scan["summary"].batch
    BY <1>0, <1>2 DEF CountRow, IsLocals
  <2> QED BY <2>1, NothingSent DEF Ended
<1>3. CASE AddRow
  <2> DEFINE batch == Append(s.batch, s.pos + 1)
  <2>1. /\ scan'["import"].batch = IF Full(batch) THEN <<>> ELSE batch
        /\ scan'["import"].outcome = "reading" /\ s.outcome = "reading"
        /\ scan'["summary"] = scan["summary"]
        /\ inserted' = IF Full(batch) THEN Append(inserted, batch) ELSE inserted
    BY <1>0, <1>3 DEF AddRow, Reading, IsLocals
  <2>2. batch \in Seq(Nat) /\ Len(batch) = Len(s.batch) + 1
    BY <1>0
  <2>3. /\ inserted \in Seq(Seq(Nat)) /\ Len(s.batch) < BatchSize /\ Len(s.batch) \in Nat
        /\ \A k \in 1..Len(inserted) : Len(inserted[k]) = BatchSize
    BY <2>1, <1>0 DEF SizesOK, Ended
  <2> HIDE DEF batch
  <2>4. Len(scan'["import"].batch) < BatchSize
    <3>1. Full(batch) <=> Len(batch) = BatchSize
      BY DEF Full
    <3>2. CASE Full(batch)
      <4>1. scan'["import"].batch = <<>>
        BY <3>2, <2>1
      <4> QED BY <4>1, <1>0
    <3>3. CASE ~Full(batch)
      <4>1. scan'["import"].batch = batch
        BY <3>3, <2>1
      <4>2. Len(batch) # BatchSize
        BY <3>1, <3>3
      <4>3. ASSUME NEW n, NEW m, n \in Nat, m = n + 1, n < BatchSize, m # BatchSize
            PROVE  m < BatchSize
        BY <4>3, <1>0
      <4>4. Len(batch) < BatchSize
        BY <4>2, <4>3, <2>2, <2>3
      <4> QED BY <4>1, <4>4
    <3> QED BY <3>2, <3>3
  <2>5. /\ inserted' \in Seq(Seq(Nat))
        /\ \A k \in 1..Len(inserted') : Len(inserted'[k]) = BatchSize
    <3>1. CASE Full(batch)
      <4>1. inserted' = Append(inserted, batch) /\ Len(batch) = BatchSize
        BY <3>1, <2>1 DEF Full
      <4> HIDE <2>1
      <4>2. inserted' \in Seq(Seq(Nat)) /\ Len(inserted') = Len(inserted) + 1
        BY <4>1, <2>2, <2>3
      <4>3. \A k \in 1..Len(inserted) : inserted'[k] = inserted[k]
        BY <4>1, <2>3
      <4>4. inserted'[Len(inserted) + 1] = batch
        BY <4>1, <2>3
      <4> QED BY <4>1, <4>2, <4>3, <4>4, <2>3
    <3>2. CASE ~Full(batch)
      <4>1. inserted' = inserted
        BY <3>2, <2>1
      <4> QED BY <4>1, <2>3
    <3> QED BY <3>1, <3>2
  <2> QED BY <2>1, <2>4, <2>5 DEF SizesOK, Ended, BatchesAreFull
<1>4. CASE BatchFails \/ RestFails
  <2>1. /\ inserted' = inserted /\ s.outcome = "reading" /\ scan'["import"].outcome = "unstorable"
        /\ scan'["import"].batch = s.batch /\ scan'["summary"] = scan["summary"]
    BY <1>0, <1>4 DEF BatchFails, RestFails, Fail, IsLocals, Reading
  <2> QED BY <2>1, NothingSent DEF Ended
<1>5. CASE Finish("summary")
  <2>1. /\ inserted' = inserted /\ scan'["import"] = s
        /\ scan'["summary"].batch = <<>> /\ scan["summary"].batch = <<>>
    BY <1>0, <1>5 DEF Finish, IsLocals, SizesOK
  <2> QED BY <2>1, NothingSent DEF Ended
<1>6. CASE Finish("import")
  <2>1. /\ scan'["import"].batch = <<>> /\ scan'["import"].outcome = "done" /\ s.outcome = "reading"
        /\ scan'["summary"] = scan["summary"]
        /\ inserted' = IF s.batch = <<>> THEN inserted ELSE Append(inserted, s.batch)
    BY <1>0, <1>6 DEF Finish, Reading, IsLocals
  <2>2. /\ inserted \in Seq(Seq(Nat)) /\ Len(s.batch) < BatchSize /\ Len(s.batch) \in Nat
        /\ \A k \in 1..Len(inserted) : Len(inserted[k]) = BatchSize
    BY <2>1, <1>0 DEF SizesOK, Ended
  <2>3. /\ inserted' \in Seq(Seq(Nat))
        /\ \A k \in 1..Len(inserted') :
             \/ Len(inserted'[k]) = BatchSize
             \/ k = Len(inserted') /\ Len(inserted'[k]) \in 1..(BatchSize - 1)
    <3>1. CASE s.batch = <<>>
      BY <3>1, <2>1, <2>2
    <3>2. CASE s.batch # <<>>
      BY <3>2, <2>1, <2>2, <1>0
    <3> QED BY <3>1, <3>2
  <2> QED BY <2>1, <2>3, <1>0 DEF SizesOK, Ended, BatchesAreFull
<1>7. CASE UNCHANGED vars
  BY <1>7, NothingSent DEF vars, Ended
<1> QED BY <1>1, <1>2, <1>3, <1>4, <1>5, <1>6, <1>7 DEF Next, Readers

\* For every file and every batch size: each INSERT of an import is full, but for
\* a shorter last one that is not empty and follows the last row.
THEOREM BatchesFull == Spec => []BatchesAreFull
<1>1. Init => ScanInv /\ SizesOK
  BY ScanInitial, SizesInitial
<1>2. ScanInv /\ SizesOK /\ [Next]_vars => (ScanInv /\ SizesOK)'
  BY ScanStep, SizesStep
<1>3. SizesOK => BatchesAreFull
  BY DEF SizesOK
<1> QED BY <1>1, <1>2, <1>3, PTL DEF Spec

-------------------------------------------------------------------------------
(* Sequences built one element at a time                                     *)

\* Induction, with a set in place of a predicate: the smallest number outside of
\* S would have its predecessor in S.
LEMMA CountingUp ==
    ASSUME NEW S, 0 \in S, \A n \in Nat : n \in S => n + 1 \in S
    PROVE  Nat \subseteq S
<1> SUFFICES ASSUME ~(Nat \subseteq S) PROVE FALSE
  OBVIOUS
<1> DEFINE T == {n \in Nat : n \notin S}
           R == OpToRel(<, Nat)
<1>1. T \subseteq Nat /\ T # {}
  OBVIOUS
<1>2. IsWellFoundedOn(R, Nat)
  BY NatLessThanWellFounded, Zenon
<1> HIDE DEF T, R
<1>3. PICK x \in T : \A y \in T : ~(<<y, x>> \in R)
  BY <1>1, <1>2, WFMin, Zenon
<1>4. x \in Nat /\ x \notin S /\ x # 0
  BY <1>3 DEF T
<1>5. x - 1 \in T
  BY <1>4 DEF T
<1>6. <<x - 1, x>> \in R
  <2>1. x - 1 \in Nat /\ x \in Nat /\ x - 1 < x
    BY <1>4, <1>5 DEF T
  <2> QED BY <2>1 DEF R, OpToRel
<1> QED BY <1>3, <1>5, <1>6

\* f joins the first n elements of s, one after the other, as FlattenSeq does.
Joins(f, s, n) == f = [i \in 1..n |-> IF i = 1 THEN s[i] ELSE f[i - 1] \o s[i]]

\* One value after the other.
LEMMA JoinsStep ==
    ASSUME NEW f, NEW s, NEW n \in Nat, Joins(f, s, n), NEW i \in 1..n
    PROVE  f[i] = IF i = 1 THEN s[i] ELSE f[i - 1] \o s[i]
<1> DEFINE F == [k \in 1..n |-> IF k = 1 THEN s[k] ELSE f[k - 1] \o s[k]]
<1>1. f = F
  BY DEF Joins
<1>2. F[i] = IF i = 1 THEN s[i] ELSE f[i - 1] \o s[i]
  OBVIOUS
<1> HIDE DEF F
<1> QED BY <1>1, <1>2

\* Such a function exists for every n.
LEMMA JoinsExist ==
    ASSUME NEW A, NEW s \in Seq(Seq(A)), NEW n \in 0..Len(s)
    PROVE  \E f : Joins(f, s, n)
<1> DEFINE S == {m \in Nat : \E f : Joins(f, s, m)}
<1>1. 0 \in S
  <2>1. Joins(<<>>, s, 0)
    BY DEF Joins
  <2> QED BY <2>1
<1>2. ASSUME NEW m \in Nat, m \in S PROVE m + 1 \in S
  <2>1. PICK f : Joins(f, s, m)
    BY <1>2
  <2> DEFINE next == IF m = 0 THEN s[1] ELSE f[m] \o s[m + 1]
             g == [i \in 1..(m + 1) |-> IF i = m + 1 THEN next ELSE f[i]]
  <2>2. DOMAIN g = 1..(m + 1)
    OBVIOUS
  <2>3. ASSUME NEW i \in 1..(m + 1) PROVE g[i] = IF i = 1 THEN s[i] ELSE g[i - 1] \o s[i]
    <3>1. CASE i = m + 1
      BY <3>1
    <3>2. CASE i # m + 1
      <4>1. i \in 1..m /\ g[i] = f[i] /\ (i # 1 => g[i - 1] = f[i - 1])
        BY <3>2
      <4> QED BY <4>1, <2>1 DEF Joins
    <3> QED BY <3>1, <3>2
  <2> HIDE DEF g
  <2>4. g = [i \in 1..(m + 1) |-> g[i]]
    BY <2>2 DEF g
  <2>5. Joins(g, s, m + 1)
    BY <2>3, <2>4 DEF Joins
  <2> QED BY <2>5
<1> HIDE DEF S
<1>3. Nat \subseteq S
  BY <1>1, <1>2, CountingUp
<1>4. n \in S
  BY <1>3
<1> QED BY <1>4 DEF S

\* Its values are sequences and do not depend on how far it goes.
LEMMA JoinsAgree ==
    ASSUME NEW A, NEW s \in Seq(Seq(A)), NEW t \in Seq(Seq(A)), NEW f, NEW g,
           Len(s) <= Len(t), \A i \in 1..Len(s) : s[i] = t[i],
           Joins(f, s, Len(s)), Joins(g, t, Len(t))
    PROVE  \A i \in 1..Len(s) : f[i] = g[i] /\ f[i] \in Seq(A)
<1> DEFINE n == Len(s)
           m == Len(t)
<1>0. /\ n \in Nat /\ m \in Nat /\ n <= m /\ Joins(f, s, n) /\ Joins(g, t, m)
      /\ \A i \in 1..n : s[i] \in Seq(A) /\ s[i] = t[i]
  OBVIOUS
<1> HIDE DEF n, m
<1> DEFINE S == {i \in Nat : i \in 1..n => f[i] = g[i] /\ f[i] \in Seq(A)}
<1>1. 0 \in S
  BY <1>0
<1>2. ASSUME NEW i \in Nat, i \in S PROVE i + 1 \in S
  <2> SUFFICES ASSUME i + 1 \in 1..n PROVE f[i + 1] = g[i + 1] /\ f[i + 1] \in Seq(A)
    OBVIOUS
  <2>1. s[i + 1] \in Seq(A) /\ s[i + 1] = t[i + 1]
    BY <1>0
  <2>2. f[i + 1] = IF i = 0 THEN s[i + 1] ELSE f[i] \o s[i + 1]
    <3>1. f[i + 1] = IF i + 1 = 1 THEN s[i + 1] ELSE f[(i + 1) - 1] \o s[i + 1]
      BY <1>0, JoinsStep
    <3>2. (i + 1) - 1 = i /\ (i + 1 = 1 <=> i = 0)
      OBVIOUS
    <3> QED BY <3>1, <3>2, Zenon
  <2>3. g[i + 1] = IF i = 0 THEN t[i + 1] ELSE g[i] \o t[i + 1]
    <3>0. i + 1 \in 1..m /\ (i + 1) - 1 = i /\ (i + 1 = 1 <=> i = 0)
      BY <1>0
    <3>1. g[i + 1] = IF i + 1 = 1 THEN t[i + 1] ELSE g[(i + 1) - 1] \o t[i + 1]
      BY <1>0, <3>0, JoinsStep
    <3> QED BY <3>0, <3>1, Zenon
  <2>4. i # 0 => f[i] = g[i] /\ f[i] \in Seq(A)
    BY <1>0, <1>2
  <2> QED BY <2>1, <2>2, <2>3, <2>4
<1> HIDE DEF S
<1>3. Nat \subseteq S
  BY <1>1, <1>2, CountingUp
<1> QED BY <1>0, <1>3 DEF S, n

\* FlattenSeq is the last value of any such function.
LEMMA FlattenJoins ==
    ASSUME NEW A, NEW s \in Seq(Seq(A)), s # <<>>, NEW f, Joins(f, s, Len(s))
    PROVE  FlattenSeq(s) = f[Len(s)] /\ f[Len(s)] \in Seq(A)
<1> DEFINE c == CHOOSE g : Joins(g, s, Len(s))
<1>1. Joins(c, s, Len(s))
  OBVIOUS
<1>2. FlattenSeq(s) = c[Len(s)]
  BY DEF FlattenSeq, Joins
<1>3. Len(s) \in 1..Len(s) /\ Len(s) <= Len(s) /\ \A i \in 1..Len(s) : s[i] = s[i]
  OBVIOUS
<1> HIDE DEF c
<1>4. \A i \in 1..Len(s) : f[i] = c[i] /\ f[i] \in Seq(A)
  BY <1>1, <1>3, JoinsAgree, Zenon
<1> QED BY <1>2, <1>3, <1>4

\* One more batch adds its elements at the end.
LEMMA FlattenAppend ==
    ASSUME NEW A, NEW s \in Seq(Seq(A)), NEW b \in Seq(A)
    PROVE  FlattenSeq(Append(s, b)) = FlattenSeq(s) \o b /\ FlattenSeq(s) \in Seq(A)
<1> DEFINE t == Append(s, b)
<1>1. /\ t \in Seq(Seq(A)) /\ Len(t) = Len(s) + 1 /\ Len(s) \in Nat
      /\ t[Len(t)] = b /\ \A i \in 1..Len(s) : s[i] = t[i]
  OBVIOUS
<1> HIDE DEF t
<1>1a. t # <<>> /\ Len(t) \in 0..Len(t) /\ Len(s) \in 0..Len(s)
  BY <1>1
<1>2. PICK g : Joins(g, t, Len(t))
  BY <1>1, <1>1a, JoinsExist
<1>3. FlattenSeq(t) = g[Len(t)]
  BY <1>1, <1>1a, <1>2, FlattenJoins
<1>4. g[Len(t)] = IF Len(t) = 1 THEN b ELSE g[Len(s)] \o b
  <2>1. Len(t) \in Nat /\ Len(t) \in 1..Len(t)
    BY <1>1
  <2>2. g[Len(t)] = IF Len(t) = 1 THEN t[Len(t)] ELSE g[Len(t) - 1] \o t[Len(t)]
    BY <1>2, <2>1, JoinsStep, Zenon
  <2> QED BY <1>1, <2>2
<1>5. CASE s = <<>>
  <2>1. FlattenSeq(s) = <<>>
    BY <1>5 DEF FlattenSeq
  <2>2. Len(t) = 1
    BY <1>1, <1>5
  <2> QED BY <2>1, <2>2, <1>3, <1>4 DEF t
<1>6. CASE s # <<>>
  <2>1. PICK f : Joins(f, s, Len(s))
    BY <1>1a, JoinsExist
  <2>2. FlattenSeq(s) = f[Len(s)] /\ f[Len(s)] \in Seq(A)
    BY <1>6, <2>1, FlattenJoins
  <2>3. f[Len(s)] = g[Len(s)]
    <3>1. Len(s) \in 1..Len(s) /\ Len(s) <= Len(t) /\ t \in Seq(Seq(A))
      BY <1>1, <1>6
    <3>1a. \A i \in 1..Len(s) : s[i] = t[i]
      BY <1>1
    <3>2. \A i \in 1..Len(s) : f[i] = g[i] /\ f[i] \in Seq(A)
      BY <1>2, <2>1, <3>1, <3>1a, JoinsAgree, Zenon
    <3> QED BY <3>1, <3>2
  <2>4. Len(t) # 1
    BY <1>1, <1>6
  <2> QED BY <2>2, <2>3, <2>4, <1>3, <1>4 DEF t
<1> QED BY <1>5, <1>6

-------------------------------------------------------------------------------
(* The records that are not blank                                            *)

\* f lists the records that are not blank among the first k, for each k up to n.
Lists(f, n) ==
    f = [k \in 0..n |-> IF k = 0 THEN <<>>
                        ELSE IF Blank(file.records[k]) THEN f[k - 1]
                        ELSE Append(f[k - 1], k)]

\* One value after the other.
LEMMA ListsStep ==
    ASSUME NEW f, NEW n \in Nat, Lists(f, n), NEW k \in 0..n
    PROVE  f[k] = IF k = 0 THEN <<>>
                  ELSE IF Blank(file.records[k]) THEN f[k - 1] ELSE Append(f[k - 1], k)
<1> DEFINE F == [i \in 0..n |-> IF i = 0 THEN <<>>
                                ELSE IF Blank(file.records[i]) THEN f[i - 1] ELSE Append(f[i - 1], i)]
<1>1. f = F
  BY DEF Lists
<1>2. F[k] = IF k = 0 THEN <<>>
             ELSE IF Blank(file.records[k]) THEN f[k - 1] ELSE Append(f[k - 1], k)
  OBVIOUS
<1> HIDE DEF F
<1> QED BY <1>1, <1>2

\* Such a function exists for every n.
LEMMA ListsExist ==
    ASSUME NEW n \in Nat
    PROVE  \E f : Lists(f, n)
<1> DEFINE S == {m \in Nat : \E f : Lists(f, m)}
<1>1. 0 \in S
  <2> DEFINE z == [k \in {0} |-> <<>>]
  <2>1. z = [k \in 0..0 |-> IF k = 0 THEN <<>>
                            ELSE IF Blank(file.records[k]) THEN z[k - 1] ELSE Append(z[k - 1], k)]
    OBVIOUS
  <2> HIDE DEF z
  <2>2. Lists(z, 0)
    BY <2>1 DEF Lists
  <2> QED BY <2>2
<1>2. ASSUME NEW m \in Nat, m \in S PROVE m + 1 \in S
  <2>1. PICK f : Lists(f, m)
    BY <1>2
  <2> DEFINE next == IF Blank(file.records[m + 1]) THEN f[m] ELSE Append(f[m], m + 1)
             g == [k \in 0..(m + 1) |-> IF k = m + 1 THEN next ELSE f[k]]
  <2>2. DOMAIN g = 0..(m + 1) /\ g[m + 1] = next /\ \A k \in 0..m : g[k] = f[k]
    OBVIOUS
  <2> HIDE DEF g
  <2>3. ASSUME NEW k \in 0..(m + 1)
        PROVE  g[k] = IF k = 0 THEN <<>>
                      ELSE IF Blank(file.records[k]) THEN g[k - 1] ELSE Append(g[k - 1], k)
    <3>1. CASE k = m + 1
      <4>1. g[k - 1] = f[m] /\ k # 0
        BY <3>1, <2>2
      <4> QED BY <4>1, <3>1, <2>2
    <3>2. CASE k # m + 1
      <4>1. k \in 0..m /\ g[k] = f[k] /\ (k # 0 => g[k - 1] = f[k - 1])
        BY <3>2, <2>2
      <4>2. f[k] = IF k = 0 THEN <<>>
                   ELSE IF Blank(file.records[k]) THEN f[k - 1] ELSE Append(f[k - 1], k)
        BY <4>1, <2>1, ListsStep
      <4> QED BY <4>1, <4>2
    <3> QED BY <3>1, <3>2
  <2>4. g = [k \in 0..(m + 1) |-> g[k]]
    BY <2>2 DEF g
  <2>5. Lists(g, m + 1)
    BY <2>3, <2>4 DEF Lists
  <2> QED BY <2>5
<1> HIDE DEF S
<1>3. Nat \subseteq S
  BY <1>1, <1>2, CountingUp
<1>4. n \in S
  BY <1>3
<1> QED BY <1>4 DEF S

\* So NonBlankUpTo is the function its definition describes.
LEMMA NonBlankStep ==
    ASSUME file.records \in Seq(Seq(DOMAIN Strip)), NEW n \in 0..Len(file.records)
    PROVE  NonBlankUpTo[n] = IF n = 0 THEN <<>>
                             ELSE IF Blank(file.records[n]) THEN NonBlankUpTo[n - 1]
                             ELSE Append(NonBlankUpTo[n - 1], n)
<1>1. Len(file.records) \in Nat
  OBVIOUS
<1>2. PICK f : Lists(f, Len(file.records))
  BY <1>1, ListsExist
<1>3. Lists(NonBlankUpTo, Len(file.records))
  BY <1>2 DEF NonBlankUpTo, Lists
<1> QED BY <1>1, <1>3, ListsStep

\* Its values are sequences of record numbers, and it only grows at the end.
LEMMA NonBlankGrows ==
    ASSUME file.records \in Seq(Seq(DOMAIN Strip)), NEW n \in 0..Len(file.records)
    PROVE  \A m \in n..Len(file.records) :
             /\ NonBlankUpTo[n] \in Seq(Nat) /\ NonBlankUpTo[m] \in Seq(Nat)
             /\ Len(NonBlankUpTo[n]) <= Len(NonBlankUpTo[m])
             /\ \A k \in 1..Len(NonBlankUpTo[n]) : NonBlankUpTo[m][k] = NonBlankUpTo[n][k]
<1> DEFINE L == Len(file.records)
           T == {m \in Nat : m \in 0..L => NonBlankUpTo[m] \in Seq(Nat)}
<1>1. L \in Nat
  OBVIOUS
<1> HIDE DEF L
<1>2. ASSUME NEW m \in Nat, m + 1 \in 0..L
      PROVE  NonBlankUpTo[m + 1] = NonBlankUpTo[m] \/ NonBlankUpTo[m + 1] = Append(NonBlankUpTo[m], m + 1)
  <2>1. m + 1 # 0 /\ (m + 1) - 1 = m
    OBVIOUS
  <2>2. NonBlankUpTo[m + 1] = IF m + 1 = 0 THEN <<>>
                              ELSE IF Blank(file.records[m + 1]) THEN NonBlankUpTo[(m + 1) - 1]
                              ELSE Append(NonBlankUpTo[(m + 1) - 1], m + 1)
    BY <1>2, NonBlankStep DEF L
  <2> QED BY <2>1, <2>2, Zenon
<1>3. NonBlankUpTo[0] = <<>> /\ NonBlankUpTo[0] \in Seq(Nat)
  <2>1. NonBlankUpTo[0] = <<>>
    BY <1>1, NonBlankStep DEF L
  <2> QED BY <2>1
<1>4. \A m \in 0..L : NonBlankUpTo[m] \in Seq(Nat)
  <2>1. 0 \in T
    BY <1>3
  <2>2. ASSUME NEW m \in Nat, m \in T PROVE m + 1 \in T
    <3> SUFFICES ASSUME m + 1 \in 0..L PROVE NonBlankUpTo[m + 1] \in Seq(Nat)
      OBVIOUS
    <3>1. m \in 0..L
      BY <1>1
    <3> DEFINE u == NonBlankUpTo[m]
               v == NonBlankUpTo[m + 1]
    <3>2. u \in Seq(Nat)
      BY <2>2, <3>1
    <3>3. v = u \/ v = Append(u, m + 1)
      BY <1>2
    <3> HIDE DEF u, v
    <3>4. v \in Seq(Nat)
      <4>1. Append(u, m + 1) \in Seq(Nat)
        BY <3>2
      <4> QED BY <3>2, <3>3, <4>1, Zenon
    <3> QED BY <3>4 DEF v
  <2> HIDE DEF T
  <2>3. Nat \subseteq T
    BY <2>1, <2>2, CountingUp
  <2> QED BY <2>3, <1>1 DEF T
<1> DEFINE Grown(m) == /\ Len(NonBlankUpTo[n]) <= Len(NonBlankUpTo[m])
                       /\ \A k \in 1..Len(NonBlankUpTo[n]) : NonBlankUpTo[m][k] = NonBlankUpTo[n][k]
           S == {m \in Nat : m \in n..L => Grown(m)}
<1>5. n \in 0..L /\ n \in Nat
  BY DEF L
<1>6. 0 \in S
  <2>1. 0 \in n..L => n = 0
    BY <1>5
  <2>2. Grown(n)
    BY <1>4, <1>5
  <2> QED BY <2>1, <2>2
<1>7. ASSUME NEW m \in Nat, m \in S PROVE m + 1 \in S
  <2> SUFFICES ASSUME m + 1 \in n..L PROVE Grown(m + 1)
    OBVIOUS
  <2>1. CASE m + 1 = n
    BY <2>1, <1>4, <1>5
  <2>2. CASE m + 1 # n
    <3>1. m \in n..L /\ m \in 0..L /\ m + 1 \in 0..L
      BY <2>2, <1>1, <1>5
    <3> DEFINE w == NonBlankUpTo[n]
               u == NonBlankUpTo[m]
               v == NonBlankUpTo[m + 1]
    <3>2. Len(w) <= Len(u) /\ \A k \in 1..Len(w) : u[k] = w[k]
      BY <3>1, <1>7
    <3>3. v = u \/ v = Append(u, m + 1)
      BY <1>2, <3>1
    <3>4. u \in Seq(Nat) /\ w \in Seq(Nat)
      BY <1>4, <3>1, <1>5
    <3> HIDE DEF u, v, w
    <3>5. Len(w) <= Len(v) /\ \A k \in 1..Len(w) : v[k] = w[k]
      <4>1. CASE v = u
        BY <3>2, <4>1
      <4>2. CASE v = Append(u, m + 1)
        BY <3>2, <3>4, <4>2
      <4> QED BY <3>3, <4>1, <4>2
    <3> QED BY <3>5 DEF v, w
  <2> QED BY <2>1, <2>2
<1> HIDE DEF S
<1>8. Nat \subseteq S
  BY <1>6, <1>7, CountingUp
<1>9. \A m \in n..L : Grown(m)
  BY <1>8, <1>5 DEF S
<1>10. \A m \in n..L : m \in 0..L
  BY <1>5
<1> QED BY <1>4, <1>5, <1>9, <1>10 DEF L

\* A loop that has passed n records and finds the next one not blank is at the
\* record that comes after those it has listed.
LEMMA NextRow ==
    ASSUME file.records \in Seq(Seq(DOMAIN Strip)), NEW n \in Nat, n < Len(file.records)
    PROVE  /\ n + 1 \in 0..Len(file.records) /\ n \in 0..Len(file.records)
           /\ NonBlankUpTo[n] \in Seq(Nat)
           /\ Blank(file.records[n + 1]) => NonBlankUpTo[n + 1] = NonBlankUpTo[n]
           /\ ~Blank(file.records[n + 1]) =>
                /\ Len(NonBlankUpTo[n + 1]) = Len(NonBlankUpTo[n]) + 1
                /\ Len(NonBlankUpTo[n]) < Len(NonBlankRows)
                /\ NonBlankRows[Len(NonBlankUpTo[n]) + 1] = n + 1
<1> DEFINE L == Len(file.records)
           u == NonBlankUpTo[n]
           v == NonBlankUpTo[n + 1]
<1>1. L \in Nat /\ n + 1 \in 0..L /\ n \in 0..L /\ L \in (n + 1)..L /\ n + 1 # 0 /\ (n + 1) - 1 = n /\ L \in n..L
  OBVIOUS
<1>2. v = IF n + 1 = 0 THEN <<>> ELSE IF Blank(file.records[n + 1]) THEN NonBlankUpTo[(n + 1) - 1]
          ELSE Append(NonBlankUpTo[(n + 1) - 1], n + 1)
  BY <1>1, NonBlankStep
<1>3. /\ v \in Seq(Nat) /\ NonBlankRows \in Seq(Nat)
      /\ Len(v) <= Len(NonBlankRows)
      /\ \A k \in 1..Len(v) : NonBlankRows[k] = v[k]
  BY <1>1, NonBlankGrows DEF NonBlankRows
<1>4. u \in Seq(Nat)
  BY <1>1, NonBlankGrows
<1>5. Blank(file.records[n + 1]) => v = u
  BY <1>1, <1>2
<1>6. ~Blank(file.records[n + 1]) => v = Append(u, n + 1)
  BY <1>1, <1>2
<1> HIDE DEF L, u, v
<1>7. ASSUME ~Blank(file.records[n + 1])
      PROVE  Len(v) = Len(u) + 1 /\ Len(u) < Len(NonBlankRows) /\ NonBlankRows[Len(u) + 1] = n + 1
  <2>1. Len(v) = Len(u) + 1 /\ v[Len(u) + 1] = n + 1 /\ Len(u) \in Nat /\ Len(NonBlankRows) \in Nat
    BY <1>3, <1>4, <1>6, <1>7
  <2>2. Len(u) + 1 \in 1..Len(v)
    BY <2>1
  <2>3. NonBlankRows[Len(u) + 1] = v[Len(u) + 1]
    BY <1>3, <2>2
  <2> QED BY <1>3, <2>1, <2>3
<1> QED BY <1>1, <1>4, <1>5, <1>7 DEF L, u, v

\* The data rows are those behind the header.
LEMMA DataRowsBehind ==
    ASSUME file.records \in Seq(Seq(DOMAIN Strip))
    PROVE  /\ NonBlankRows \in Seq(Nat) /\ DataRows \in Seq(Nat)
           /\ NonBlankRows = <<>> => DataRows = <<>>
           /\ NonBlankRows # <<>> =>
                /\ Len(NonBlankRows) = Len(DataRows) + 1
                /\ Head(NonBlankRows) = NonBlankRows[1]
                /\ \A k \in 1..Len(DataRows) : DataRows[k] = NonBlankRows[k + 1]
<1>1. Len(file.records) \in 0..Len(file.records) /\ Len(file.records) \in Len(file.records)..Len(file.records)
  OBVIOUS
<1>2. NonBlankRows \in Seq(Nat)
  BY <1>1, NonBlankGrows DEF NonBlankRows
<1> QED BY <1>2 DEF DataRows

-------------------------------------------------------------------------------
(* Where the loops stand in the file                                         *)

\* The width the header gives every row.
Width == Len(file.records[Head(NonBlankRows)])

\* Reader r takes row i.
Takes(r, i) ==
    /\ Len(file.records[i]) = Width
    /\ r = "import" => Accepted(Mapping, Row(i))

\* A loop with the locals s stands behind the rows it has counted, all of which
\* it took; the header is the first record that is not blank.
PlaceOf(r, s) ==
    /\ s.pos \in 0..Len(file.records)
    /\ s.count \in 0..MaxRows
    /\ s.header = NoHeader => s.count = 0 /\ NonBlankUpTo[s.pos] = <<>>
    /\ s.header # NoHeader =>
          /\ Len(NonBlankUpTo[s.pos]) = s.count + 1
          /\ NonBlankRows # <<>>
          /\ Len(s.header) = Width /\ Width <= MaxColumns
          /\ r = "import" => s.header = Header
    /\ \A k \in 1..s.count : Takes(r, DataRows[k])

\* Its next record is the data row after those it has counted.
AtRow(s) ==
    /\ s.header # NoHeader
    /\ s.count < Len(DataRows)
    /\ s.pos + 1 = DataRows[s.count + 1]

\* What is true of the file when the loop has been left the way s says.
OutcomeOf(r, s) ==
    \/ s.outcome = "reading"
    \/ s.outcome = "done" /\ file.tail = "eof" /\ s.pos = Len(file.records) /\ s.header # NoHeader
    \/ s.outcome = "undecodable" /\ file.tail = "undecodable"
    \/ s.outcome = "csv_error" /\ file.tail = "csv_error" /\ s.pos = Len(file.records)
    \/ s.outcome = "empty" /\ NonBlankRows = <<>>
    \/ s.outcome = "column_limit" /\ NonBlankRows # <<>> /\ ~(Width <= MaxColumns)
    \/ s.outcome = "row_limit" /\ AtRow(s) /\ s.count = MaxRows
    \/ /\ s.outcome \in {"row_width", "invalid_row", "overflow"} /\ AtRow(s)
       /\ ~Takes(r, DataRows[s.count + 1])
    \/ r = "import" /\ s.outcome \in {"blank_header", "duplicate_header", "missing_column", "unstorable"}

ScanPlace == \A r \in Readers : PlaceOf(r, scan[r]) /\ OutcomeOf(r, scan[r])

\* The file says the same as long as it is the same.
LEMMA FileStays ==
    ASSUME file' = file
    PROVE  /\ NonBlankUpTo' = NonBlankUpTo /\ NonBlankRows' = NonBlankRows
           /\ DataRows' = DataRows /\ Header' = Header /\ Width' = Width /\ Mapping' = Mapping
           /\ \A i : Row(i)' = Row(i)
<1>1. NonBlankUpTo' = NonBlankUpTo
  BY DEF NonBlankUpTo
<1>2. NonBlankRows' = NonBlankRows
  BY <1>1 DEF NonBlankRows
<1>3. DataRows' = DataRows /\ Header' = Header /\ Width' = Width
  BY <1>2 DEF DataRows, Header, Width
<1> QED BY <1>1, <1>2, <1>3 DEF Mapping, Row

\* One loop moves at a time.
LEMMA OneMoves ==
    ASSUME ScanPlace, file' = file, NEW r \in Readers, PlaceOf(r, scan'[r]), OutcomeOf(r, scan'[r]),
           \A q \in Readers : q # r => scan'[q] = scan[q]
    PROVE  ScanPlace'
<1> SUFFICES ASSUME NEW q \in Readers PROVE PlaceOf(q, scan[q])' /\ OutcomeOf(q, scan[q])'
  BY DEF ScanPlace
<1>1. PlaceOf(q, scan'[q]) /\ OutcomeOf(q, scan'[q])
  BY DEF ScanPlace
<1> HIDE DEF ScanPlace
<1>2. PlaceOf(q, scan[q])'
  BY <1>1, FileStays DEF PlaceOf, Takes
<1>3. OutcomeOf(q, scan[q])'
  BY <1>1, FileStays DEF OutcomeOf, AtRow, Takes
<1> QED BY <1>2, <1>3

\* At a record that is not blank, behind the header, the loop is at a data row.
LEMMA AtTheRow ==
    ASSUME file \in Files, NEW r \in Readers, NEW s, PlaceOf(r, s), s.header # NoHeader,
           s.pos < Len(file.records), ~Blank(file.records[s.pos + 1])
    PROVE  /\ AtRow(s) /\ DataRows[s.count + 1] = s.pos + 1
           /\ Len(NonBlankUpTo[s.pos + 1]) = s.count + 2
<1>1. file.records \in Seq(Seq(DOMAIN Strip)) /\ s.pos \in Nat /\ s.count \in Nat
  BY RecordType DEF PlaceOf
<1>2. /\ Len(NonBlankUpTo[s.pos + 1]) = Len(NonBlankUpTo[s.pos]) + 1
      /\ Len(NonBlankUpTo[s.pos]) < Len(NonBlankRows)
      /\ NonBlankRows[Len(NonBlankUpTo[s.pos]) + 1] = s.pos + 1
  BY <1>1, NextRow
<1>3. Len(NonBlankUpTo[s.pos]) = s.count + 1 /\ NonBlankRows # <<>>
  BY DEF PlaceOf
<1>4. /\ DataRows \in Seq(Nat) /\ Len(NonBlankRows) = Len(DataRows) + 1
      /\ \A k \in 1..Len(DataRows) : DataRows[k] = NonBlankRows[k + 1]
  BY <1>1, <1>3, DataRowsBehind
<1>5. Len(DataRows) \in Nat
  BY <1>4
<1>6. s.count + 1 \in 1..Len(DataRows) /\ (s.count + 1) + 1 = s.count + 2
  <2>1. s.count + 1 < Len(DataRows) + 1
    BY <1>2, <1>3, <1>4
  <2> QED BY <1>1, <1>5, <2>1
<1>7. DataRows[s.count + 1] = s.pos + 1
  BY <1>2, <1>3, <1>4, <1>6
<1> QED BY <1>1, <1>2, <1>3, <1>5, <1>6, <1>7 DEF AtRow

\* Without a header yet, it is at the header.
LEMMA AtTheHeader ==
    ASSUME file \in Files, NEW r \in Readers, NEW s, PlaceOf(r, s), s.header = NoHeader,
           s.pos < Len(file.records), ~Blank(file.records[s.pos + 1])
    PROVE  /\ NonBlankRows # <<>> /\ Head(NonBlankRows) = s.pos + 1
           /\ Len(NonBlankUpTo[s.pos + 1]) = 1
           /\ file.records[s.pos + 1] \in Seq(DOMAIN Strip)
<1>1. file.records \in Seq(Seq(DOMAIN Strip)) /\ s.pos \in Nat
  BY RecordType DEF PlaceOf
<1>2. /\ Len(NonBlankUpTo[s.pos + 1]) = Len(NonBlankUpTo[s.pos]) + 1
      /\ Len(NonBlankUpTo[s.pos]) < Len(NonBlankRows)
      /\ NonBlankRows[Len(NonBlankUpTo[s.pos]) + 1] = s.pos + 1
  BY <1>1, NextRow
<1>3. NonBlankUpTo[s.pos] = <<>> /\ Len(NonBlankUpTo[s.pos]) = 0
  BY DEF PlaceOf
<1>4. NonBlankRows # <<>>
  BY <1>2, <1>3
<1>5. Head(NonBlankRows) = NonBlankRows[1]
  BY <1>1, <1>4, DataRowsBehind
<1> QED BY <1>1, <1>2, <1>3, <1>4, <1>5

\* Passing a blank record changes nothing of what has been counted.
LEMMA PassBlank ==
    ASSUME file \in Files, NEW r \in Readers, NEW s, NEW t, PlaceOf(r, s),
           s.pos < Len(file.records), Blank(file.records[s.pos + 1]),
           t.pos = s.pos + 1, t.header = s.header, t.count = s.count
    PROVE  PlaceOf(r, t)
<1>1. file.records \in Seq(Seq(DOMAIN Strip)) /\ s.pos \in Nat
  BY RecordType DEF PlaceOf
<1>2. NonBlankUpTo[t.pos] = NonBlankUpTo[s.pos] /\ t.pos \in 0..Len(file.records)
  BY <1>1, NextRow
<1> QED BY <1>2 DEF PlaceOf

\* The header that passes its checks is the one the file has.
LEMMA PassHeader ==
    ASSUME file \in Files, NEW r \in Readers, NEW s, NEW t, PlaceOf(r, s), s.header = NoHeader,
           s.pos < Len(file.records), ~Blank(file.records[s.pos + 1]),
           HeaderFault(r, file.records[s.pos + 1]) = "none",
           t.pos = s.pos + 1, t.count = s.count,
           t.header = IF r = "import" THEN Stripped(file.records[s.pos + 1]) ELSE file.records[s.pos + 1]
    PROVE  PlaceOf(r, t)
<1> DEFINE record == file.records[s.pos + 1]
<1>1. /\ NonBlankRows # <<>> /\ Head(NonBlankRows) = s.pos + 1
      /\ Len(NonBlankUpTo[t.pos]) = 1 /\ record \in Seq(DOMAIN Strip)
  BY AtTheHeader
<1>2. Width = Len(record) /\ Header = Stripped(record)
  BY <1>1 DEF Width, Header
<1>3. Len(record) <= MaxColumns
  BY <1>1, LimitsAssumption DEF HeaderFault
<1>4. s.count = 0 /\ t.count = 0 /\ t.pos \in 0..Len(file.records)
  BY RecordType DEF PlaceOf
<1>5. Len(record) # 0 /\ Len(record) \in Nat /\ Len(Stripped(record)) = Len(record)
  <2>1. DOMAIN record # {}
    BY DEF Blank
  <2> QED BY <1>1, <2>1 DEF Stripped
<1>6. Len(t.header) = Width /\ t.header # NoHeader /\ (r = "import" => t.header = Header)
  BY <1>2, <1>5 DEF NoHeader
<1> QED BY <1>1, <1>2, <1>3, <1>4, <1>6, LimitsAssumption DEF PlaceOf

\* A row that passes the checks of reader r is one it takes, within the limit.
LEMMA PassRow ==
    ASSUME file \in Files, NEW r \in Readers, PlaceOf(r, scan[r]), scan[r].header # NoHeader,
           HasRecord(r), ~Blank(Record(r)), RowFault(r, Record(r)) = "none", NEW t,
           t.pos = scan[r].pos + 1, t.header = scan[r].header, t.count = scan[r].count + 1
    PROVE  PlaceOf(r, t)
<1> DEFINE s == scan[r]
           record == file.records[s.pos + 1]
<1>1. AtRow(s) /\ DataRows[s.count + 1] = s.pos + 1 /\ Len(NonBlankUpTo[s.pos + 1]) = s.count + 2
  BY AtTheRow DEF HasRecord, Record
<1>2. RowFault(r, record) = "none"
  BY DEF Record
<1>3. /\ Len(record) = Len(s.header) /\ s.count + 1 <= MaxRows
      /\ r = "import" => Accepted(Mapping, SourceRow(s.header, record))
  <2>1. s.count \in Nat /\ MaxRows \in Nat
    BY LimitsAssumption DEF PlaceOf
  <2> QED BY <1>2, <2>1 DEF RowFault, Accepted
<1>4. Takes(r, DataRows[s.count + 1])
  BY <1>1, <1>3 DEF Takes, PlaceOf, Row
<1>5. s.count \in Nat /\ s.pos \in Nat /\ Len(file.records) \in Nat
  BY RecordType DEF PlaceOf
<1>6. \A k \in 1..t.count : k \in 1..s.count \/ k = s.count + 1
  BY <1>5
<1>7. t.pos \in 0..Len(file.records) /\ t.count \in 0..MaxRows /\ Len(NonBlankUpTo[t.pos]) = t.count + 1
  <2>1. t.pos \in 0..Len(file.records)
    BY <1>5 DEF HasRecord
  <2>2. t.count \in 0..MaxRows
    BY <1>3, <1>5, LimitsAssumption
  <2>3. Len(NonBlankUpTo[t.pos]) = s.count + 2
    BY <1>1
  <2> QED BY <2>1, <2>2, <2>3, <1>5
<1> HIDE DEF record
<1> QED BY <1>4, <1>6, <1>7 DEF PlaceOf

\* A header that is refused for its width is the file's.
LEMMA HeaderRefused ==
    ASSUME file \in Files, NEW r \in Readers, PlaceOf(r, scan[r]), scan[r].header = NoHeader,
           HasRecord(r), ~Blank(Record(r)), HeaderFault(r, Record(r)) # "none", NEW t,
           t.outcome = HeaderFault(r, Record(r))
    PROVE  OutcomeOf(r, t)
<1> DEFINE record == file.records[scan[r].pos + 1]
<1>1. NonBlankRows # <<>> /\ Width = Len(record)
  BY AtTheHeader DEF HasRecord, Record, Width
<1>2. \/ (t.outcome = "column_limit" /\ ~(Len(record) <= MaxColumns))
      \/ r = "import" /\ t.outcome \in {"blank_header", "duplicate_header", "missing_column"}
  <2>1. Len(record) > MaxColumns => ~(Len(record) <= MaxColumns)
    <3>1. record \in Seq(DOMAIN Strip)
      BY AtTheHeader DEF HasRecord, Record
    <3> QED BY <3>1, LimitsAssumption
  <2> QED BY <2>1 DEF HeaderFault, Record, Readers
<1> QED BY <1>1, <1>2 DEF OutcomeOf

\* A row that is refused is the first that reader r does not take, or one row too
\* many.
LEMMA RowRefused ==
    ASSUME file \in Files, NEW r \in Readers, PlaceOf(r, scan[r]), scan[r].header # NoHeader,
           HasRecord(r), ~Blank(Record(r)), RowFault(r, Record(r)) # "none", NEW t,
           t.outcome = RowFault(r, Record(r)), t.pos = scan[r].pos, t.header = scan[r].header,
           t.count = scan[r].count
    PROVE  OutcomeOf(r, t)
<1> DEFINE s == scan[r]
           record == file.records[s.pos + 1]
<1>1. AtRow(s) /\ DataRows[s.count + 1] = s.pos + 1
  BY AtTheRow DEF HasRecord, Record
<1>2. AtRow(t)
  BY <1>1 DEF AtRow
<1>3. /\ Len(s.header) = Width /\ (r = "import" => s.header = Header)
      /\ s.count \in Nat /\ s.count <= MaxRows
  BY LimitsAssumption DEF PlaceOf
<1>4. CASE Len(record) # Len(s.header)
  <2>1. t.outcome = "row_width"
    BY <1>4 DEF RowFault, Record
  <2>2. ~Takes(r, DataRows[t.count + 1])
    BY <1>1, <1>3, <1>4 DEF Takes
  <2> QED BY <2>1, <2>2, <1>2 DEF OutcomeOf
<1>5. CASE Len(record) = Len(s.header) /\ s.count + 1 > MaxRows
  <2>1. t.outcome = "row_limit"
    BY <1>5 DEF RowFault, Record
  <2>2. t.count = MaxRows
    BY <1>3, <1>5, LimitsAssumption
  <2> QED BY <2>1, <2>2, <1>2 DEF OutcomeOf
<1>6. CASE Len(record) = Len(s.header) /\ ~(s.count + 1 > MaxRows)
  <2>1. /\ r = "import" /\ t.outcome \in {"overflow", "invalid_row"}
        /\ ~Accepted(Mapping, SourceRow(s.header, record))
    BY <1>6 DEF RowFault, Record, Accepted
  <2>2. ~Takes(r, DataRows[t.count + 1])
    BY <1>1, <1>3, <2>1 DEF Takes, Row
  <2> QED BY <2>1, <2>2, <1>2 DEF OutcomeOf
<1> QED BY <1>4, <1>5, <1>6

\* Nothing is read at first.
LEMMA PlaceInitial == Init => ScanPlace
<1> SUFFICES ASSUME Init, NEW r \in Readers PROVE PlaceOf(r, scan[r]) /\ OutcomeOf(r, scan[r])
  BY DEF ScanPlace
<1>1. scan[r] = Start /\ file \in Files
  BY DEF Init
<1>2. Start.pos = 0 /\ Start.count = 0 /\ Start.header = NoHeader /\ Start.outcome = "reading"
  BY DEF Start
<1>3. file.records \in Seq(Seq(DOMAIN Strip)) /\ Len(file.records) \in Nat
  BY <1>1, RecordType
<1>4. NonBlankUpTo[0] = <<>> /\ 0 \in 0..Len(file.records) /\ 0 \in 0..MaxRows
  BY <1>3, NonBlankStep, LimitsAssumption
<1> QED BY <1>1, <1>2, <1>4 DEF PlaceOf, OutcomeOf

\* One step per action; the other loop stays where it is.
LEMMA PlaceStep == ScanInv /\ ScanPlace /\ [Next]_vars => ScanPlace'
<1> SUFFICES ASSUME ScanInv, ScanPlace, [Next]_vars PROVE ScanPlace'
  OBVIOUS
<1>0. /\ file \in Files /\ DOMAIN scan = Readers /\ "import" \in Readers /\ "summary" \in Readers
      /\ \A r \in Readers : IsLocals(scan[r]) /\ PlaceOf(r, scan[r]) /\ OutcomeOf(r, scan[r])
  BY DEF ScanInv, ScanPlace, Readers
<1>1. ASSUME NEW r \in Readers, SkipBlank(r) PROVE ScanPlace'
  <2>1. /\ file' = file /\ \A q \in Readers : q # r => scan'[q] = scan[q]
        /\ scan'[r].pos = scan[r].pos + 1 /\ scan'[r].header = scan[r].header
        /\ scan'[r].count = scan[r].count /\ scan'[r].outcome = "reading"
    BY <1>0, <1>1 DEF SkipBlank, Reading, IsLocals
  <2>2. PlaceOf(r, scan'[r])
    BY <1>0, <1>1, <2>1, PassBlank DEF SkipBlank, HasRecord, Record
  <2>3. OutcomeOf(r, scan'[r])
    BY <2>1 DEF OutcomeOf
  <2> QED BY <2>1, <2>2, <2>3, OneMoves
<1>2. ASSUME NEW r \in Readers, ReadHeader(r) PROVE ScanPlace'
  <2>1. /\ file' = file /\ \A q \in Readers : q # r => scan'[q] = scan[q]
        /\ scan'[r].pos = scan[r].pos + 1 /\ scan'[r].count = scan[r].count
        /\ scan'[r].header = IF r = "import" THEN Stripped(Record(r)) ELSE Record(r)
        /\ scan'[r].outcome = "reading"
    BY <1>0, <1>2 DEF ReadHeader, Reading, IsLocals
  <2>2. PlaceOf(r, scan'[r])
    BY <1>0, <1>2, <2>1, PassHeader DEF ReadHeader, HasRecord, Record
  <2>3. OutcomeOf(r, scan'[r])
    BY <2>1 DEF OutcomeOf
  <2> QED BY <2>1, <2>2, <2>3, OneMoves
<1>3. ASSUME NEW r \in Readers, scan'[r].pos = scan[r].pos, scan'[r].count = scan[r].count,
             scan'[r].header = scan[r].header, OutcomeOf(r, scan'[r]), file' = file,
             \A q \in Readers : q # r => scan'[q] = scan[q]
      PROVE  ScanPlace'
  <2>1. PlaceOf(r, scan'[r])
    BY <1>0, <1>3 DEF PlaceOf
  <2> QED BY <1>3, <2>1, OneMoves
<1>4. ASSUME NEW r \in Readers, RefuseHeader(r) PROVE ScanPlace'
  <2>1. /\ file' = file /\ \A q \in Readers : q # r => scan'[q] = scan[q]
        /\ scan'[r].pos = scan[r].pos /\ scan'[r].header = scan[r].header
        /\ scan'[r].count = scan[r].count /\ scan'[r].outcome = HeaderFault(r, Record(r))
    BY <1>0, <1>4 DEF RefuseHeader, Fail, IsLocals
  <2>2. OutcomeOf(r, scan'[r])
    BY <1>0, <1>4, <2>1, HeaderRefused DEF RefuseHeader
  <2> QED BY <2>1, <2>2, <1>3
<1>5. ASSUME NEW r \in Readers, RefuseRow(r) PROVE ScanPlace'
  <2>1. /\ file' = file /\ \A q \in Readers : q # r => scan'[q] = scan[q]
        /\ scan'[r].pos = scan[r].pos /\ scan'[r].header = scan[r].header
        /\ scan'[r].count = scan[r].count /\ scan'[r].outcome = RowFault(r, Record(r))
    BY <1>0, <1>5 DEF RefuseRow, IsLocals
  <2>2. OutcomeOf(r, scan'[r])
    BY <1>0, <1>5, <2>1, RowRefused DEF RefuseRow
  <2> QED BY <2>1, <2>2, <1>3
<1>6. ASSUME NEW r \in Readers, Undecodable(r) \/ CsvError(r) \/ NoHeaderFound(r) \/ Finish(r)
      PROVE ScanPlace'
  <2>1. /\ file' = file /\ \A q \in Readers : q # r => scan'[q] = scan[q]
        /\ scan'[r].pos = scan[r].pos /\ scan'[r].header = scan[r].header
        /\ scan'[r].count = scan[r].count
    BY <1>0, <1>6 DEF Undecodable, CsvError, NoHeaderFound, Finish, Fail, IsLocals
  <2>2. ~HasRecord(r) => scan[r].pos = Len(file.records)
    BY <1>0, RecordType DEF HasRecord, PlaceOf
  <2>3. ~HasRecord(r) /\ scan[r].header = NoHeader => NonBlankRows = <<>>
    BY <1>0, <2>2 DEF PlaceOf, NonBlankRows
  <2>4. \/ scan'[r].outcome = "undecodable" /\ file.tail = "undecodable"
        \/ scan'[r].outcome = "csv_error" /\ file.tail = "csv_error" /\ ~HasRecord(r)
        \/ scan'[r].outcome = "empty" /\ ~HasRecord(r) /\ scan[r].header = NoHeader
        \/ scan'[r].outcome = "done" /\ file.tail = "eof" /\ ~HasRecord(r) /\ scan[r].header # NoHeader
    BY <1>0, <1>6 DEF Undecodable, CsvError, NoHeaderFound, Finish, Fail, IsLocals
  <2>5. OutcomeOf(r, scan'[r])
    BY <2>1, <2>2, <2>3, <2>4 DEF OutcomeOf
  <2> QED BY <2>1, <2>5, <1>3
<1>7. ASSUME NEW r \in Readers, (CountRow /\ r = "summary") \/ (AddRow /\ r = "import") PROVE ScanPlace'
  <2>1. /\ file' = file /\ \A q \in Readers : q # r => scan'[q] = scan[q]
        /\ scan'[r].pos = scan[r].pos + 1 /\ scan'[r].header = scan[r].header
        /\ scan'[r].count = scan[r].count + 1 /\ scan'[r].outcome = "reading"
    BY <1>0, <1>7 DEF CountRow, AddRow, Reading, IsLocals
  <2>2. /\ HasRecord(r) /\ ~Blank(Record(r)) /\ scan[r].header # NoHeader
        /\ RowFault(r, Record(r)) = "none"
    BY <1>7 DEF CountRow, AddRow
  <2>3. PlaceOf(r, scan'[r])
    BY <1>0, <2>1, <2>2, PassRow
  <2>4. OutcomeOf(r, scan'[r])
    BY <2>1 DEF OutcomeOf
  <2> QED BY <2>1, <2>3, <2>4, OneMoves
<1>8. ASSUME BatchFails \/ RestFails PROVE ScanPlace'
  <2>1. /\ file' = file /\ \A q \in Readers : q # "import" => scan'[q] = scan[q]
        /\ scan'["import"].pos = scan["import"].pos /\ scan'["import"].header = scan["import"].header
        /\ scan'["import"].count = scan["import"].count /\ scan'["import"].outcome = "unstorable"
    BY <1>0, <1>8 DEF BatchFails, RestFails, Fail, IsLocals
  <2>2. OutcomeOf("import", scan'["import"])
    BY <2>1 DEF OutcomeOf
  <2> QED BY <1>0, <2>1, <2>2, <1>3
<1>9. CASE UNCHANGED vars
  <2>1. file' = file /\ \A q \in Readers : scan'[q] = scan[q]
    BY <1>9 DEF vars
  <2> QED BY <1>0, <2>1, OneMoves
<1> QED BY <1>0, <1>1, <1>2, <1>4, <1>5, <1>6, <1>7, <1>8, <1>9 DEF Next

-------------------------------------------------------------------------------
(* What the import has sent                                                  *)

\* The batches sent and the one in memory are the data rows counted so far; full
\* batches make up what was sent before the end.  The import does not begin before
\* the summary has ended.
SentOK ==
    /\ FlattenSeq(inserted) \o scan["import"].batch = SubSeq(DataRows, 1, scan["import"].count)
    /\ Ended("done") => scan["import"].batch = <<>>
    /\ ~Ended("done") => Len(FlattenSeq(inserted)) = BatchSize * Len(inserted)
    /\ scan["summary"].outcome = "reading" => scan["import"].outcome = "reading"

\* The first elements of a sequence.
LEMMA FirstOnes ==
    ASSUME NEW s \in Seq(Nat), NEW n \in Nat, n <= Len(s)
    PROVE  /\ SubSeq(s, 1, n) \in Seq(Nat) /\ Len(SubSeq(s, 1, n)) = n
           /\ \A k \in 1..n : SubSeq(s, 1, n)[k] = s[k]
OBVIOUS

\* One more element of a sequence.
LEMMA OneMore ==
    ASSUME NEW s \in Seq(Nat), NEW n \in Nat, n < Len(s)
    PROVE  SubSeq(s, 1, n + 1) = Append(SubSeq(s, 1, n), s[n + 1])
<1>1. Len(s) \in Nat /\ n + 1 \in 1..Len(s) /\ s[n + 1] \in Nat
  OBVIOUS
<1>2. SubSeq(s, 1, n) \in Seq(Nat) /\ Len(SubSeq(s, 1, n)) = n /\ \A k \in 1..n : SubSeq(s, 1, n)[k] = s[k]
  BY <1>1, FirstOnes
<1>3. /\ SubSeq(s, 1, n + 1) \in Seq(Nat) /\ Len(SubSeq(s, 1, n + 1)) = n + 1
      /\ \A k \in 1..(n + 1) : SubSeq(s, 1, n + 1)[k] = s[k]
  BY <1>1
<1> DEFINE u == SubSeq(s, 1, n)
           v == SubSeq(s, 1, n + 1)
<1> HIDE DEF u, v
<1>4. v = Append(u, s[n + 1])
  BY <1>1, <1>2, <1>3 DEF u, v
<1> QED BY <1>4 DEF u, v

\* Joining is associative where the loop needs it.
LEMMA JoinOne ==
    ASSUME NEW u \in Seq(Nat), NEW v \in Seq(Nat), NEW x \in Nat
    PROVE  u \o Append(v, x) = Append(u \o v, x) /\ u \o <<>> = u
OBVIOUS

\* And adds the lengths.
LEMMA JoinedLength ==
    ASSUME NEW u \in Seq(Nat), NEW v \in Seq(Nat)
    PROVE  /\ u \o v \in Seq(Nat) /\ Len(u \o v) = Len(u) + Len(v)
           /\ \A k \in 1..Len(u) : (u \o v)[k] = u[k]
OBVIOUS

\* Nothing is sent at first.
LEMMA SentInitial == Init => SentOK
<1> SUFFICES ASSUME Init PROVE SentOK
  OBVIOUS
<1>1. scan["import"] = Start /\ inserted = <<>> /\ file \in Files
  BY DEF Init, Readers
<1>2. Start.batch = <<>> /\ Start.outcome = "reading" /\ Start.count = 0
  BY DEF Start
<1>3. FlattenSeq(<<>>) = <<>>
  BY DEF FlattenSeq
<1>4. DataRows \in Seq(Nat)
  BY <1>1, RecordType, DataRowsBehind
<1>5. SubSeq(DataRows, 1, 0) = <<>>
  BY <1>4
<1>6. FlattenSeq(<<>>) \o <<>> = <<>> /\ Len(<<>>) = 0 /\ 0 = BatchSize * 0
  BY <1>3, LimitsAssumption
<1> QED BY <1>1, <1>2, <1>3, <1>5, <1>6 DEF SentOK, Ended

\* A step that sends nothing and adds no row.
LEMMA SentKept ==
    ASSUME SentOK, file' = file, inserted' = inserted,
           scan'["import"].batch = scan["import"].batch, scan'["import"].count = scan["import"].count,
           scan'["import"].outcome = "done" <=> Ended("done"),
           scan'["summary"].outcome = "reading" => scan'["import"].outcome = "reading"
    PROVE  SentOK'
<1>1. DataRows' = DataRows
  BY FileStays
<1> QED BY <1>1 DEF SentOK, Ended

\* One step per action; AddRow adds a row to what is sent or held, and Finish
\* sends what is held.
LEMMA SentStep == ScanInv /\ SizesOK /\ ScanPlace /\ SentOK /\ [Next]_vars => SentOK'
<1> SUFFICES ASSUME ScanInv, SizesOK, ScanPlace, SentOK, [Next]_vars PROVE SentOK'
  OBVIOUS
<1> DEFINE s == scan["import"]
           t == scan'["import"]
           F == FlattenSeq(inserted)
<1>0. /\ file \in Files /\ DOMAIN scan = Readers /\ "import" \in Readers /\ "summary" \in Readers
      /\ \A r \in Readers : IsLocals(scan[r])
  BY DEF ScanInv, Readers
<1>p. /\ s.batch \in Seq(Nat) /\ s.pos \in Nat /\ s.count \in Nat
      /\ inserted \in Seq(Seq(Nat)) /\ F \in Seq(Nat) /\ DataRows \in Seq(Nat)
      /\ BatchSize \in Nat /\ PlaceOf("import", s)
  <2>1. /\ s.batch \in Seq(Nat) /\ s.pos \in Nat
        /\ inserted \in Seq(Seq(Nat)) /\ BatchSize \in Nat /\ PlaceOf("import", s)
    BY <1>0, LimitsAssumption DEF ScanInv, BatchOK, SizesOK, ScanPlace
  <2>2. F \in Seq(Nat)
    BY <2>1, FlattenAppend
  <2>3. DataRows \in Seq(Nat)
    BY <1>0, RecordType, DataRowsBehind
  <2>4. s.count \in Nat
    BY <2>1 DEF PlaceOf
  <2> QED BY <2>1, <2>2, <2>3, <2>4
<1>1. ASSUME NEW r \in Readers,
             SkipBlank(r) \/ ReadHeader(r) \/ RefuseRow(r) \/ RefuseHeader(r)
               \/ Undecodable(r) \/ CsvError(r) \/ NoHeaderFound(r)
      PROVE SentOK'
  <2>1. /\ file' = file /\ inserted' = inserted /\ t.batch = s.batch /\ t.count = s.count
        /\ \A q \in Readers : q # r => scan'[q] = scan[q]
    BY <1>0, <1>1 DEF SkipBlank, ReadHeader, RefuseRow, RefuseHeader, Undecodable, CsvError,
       NoHeaderFound, Fail, IsLocals
  <2>2. scan[r].outcome = "reading" /\ scan'[r].outcome # "done"
    BY <1>0, <1>1 DEF SkipBlank, ReadHeader, RefuseRow, RefuseHeader, Undecodable, CsvError,
       NoHeaderFound, Fail, IsLocals, RowFault, HeaderFault, Reading
  <2>3. r = "import" => scan["summary"].outcome # "reading"
    BY <1>1 DEF SkipBlank, ReadHeader, RefuseRow, RefuseHeader, Undecodable, CsvError,
       NoHeaderFound, Reading
  <2>4. t.outcome = "done" <=> Ended("done")
    BY <1>0, <2>1, <2>2 DEF Ended
  <2>5. scan'["summary"].outcome = "reading" => t.outcome = "reading"
    BY <1>0, <2>1, <2>2, <2>3 DEF SentOK, Readers
  <2> QED BY <2>1, <2>4, <2>5, SentKept
<1>2. CASE CountRow
  <2>1. /\ file' = file /\ inserted' = inserted /\ t = s /\ scan["summary"].outcome = "reading"
    BY <1>0, <1>2 DEF CountRow, IsLocals, Reading
  <2> QED BY <2>1, SentKept DEF SentOK, Ended
<1>3. CASE AddRow
  <2> DEFINE batch == Append(s.batch, s.pos + 1)
  <2>1. /\ t.batch = IF Full(batch) THEN <<>> ELSE batch
        /\ t.outcome = "reading" /\ s.outcome = "reading" /\ t.count = s.count + 1
        /\ scan'["summary"].outcome # "reading" /\ file' = file
        /\ inserted' = IF Full(batch) THEN Append(inserted, batch) ELSE inserted
    BY <1>0, <1>3 DEF AddRow, Reading, IsLocals
  <2>2. s.count < Len(DataRows) /\ DataRows[s.count + 1] = s.pos + 1
    BY <1>0, <1>p, <1>3, AtTheRow DEF AddRow, HasRecord, Record, AtRow
  <2>3. F \o batch = SubSeq(DataRows, 1, t.count)
    <3>1. F \o s.batch = SubSeq(DataRows, 1, s.count)
      BY DEF SentOK
    <3>2. F \o batch = Append(F \o s.batch, s.pos + 1)
      <4>1. s.pos + 1 \in Nat
        BY <1>p
      <4> QED BY <1>p, <4>1, JoinOne
    <3>3. SubSeq(DataRows, 1, s.count + 1) = Append(SubSeq(DataRows, 1, s.count), s.pos + 1)
      BY <1>p, <2>2, OneMore
    <3> QED BY <2>1, <3>1, <3>2, <3>3
  <2>4. batch \in Seq(Nat) /\ Len(F) = BatchSize * Len(inserted)
    <3>1. batch \in Seq(Nat)
      BY <1>p
    <3>2. Len(F) = BatchSize * Len(inserted)
      BY <2>1 DEF SentOK, Ended
    <3> QED BY <3>1, <3>2
  <2>5. DataRows' = DataRows
    BY <2>1, FileStays
  <2> HIDE DEF batch, F
  <2>6. CASE Full(batch)
    <3>1. inserted' = Append(inserted, batch) /\ t.batch = <<>> /\ Len(batch) = BatchSize
      BY <2>1, <2>6 DEF Full
    <3>2. FlattenSeq(inserted') = F \o batch
      BY <1>p, <2>4, <3>1, FlattenAppend DEF F
    <3>3. F \o batch \in Seq(Nat) /\ Len(F \o batch) = Len(F) + BatchSize
      BY <1>p, <2>4, <3>1, JoinedLength
    <3>4. FlattenSeq(inserted') \o t.batch = SubSeq(DataRows, 1, t.count)
      BY <2>3, <3>1, <3>2, <3>3, JoinOne
    <3>5. Len(inserted') = Len(inserted) + 1 /\ Len(inserted) \in Nat
      BY <1>p, <3>1
    <3>6. Len(FlattenSeq(inserted')) = BatchSize * Len(inserted')
      BY <1>p, <2>4, <3>2, <3>3, <3>5
    <3> QED BY <2>1, <2>5, <3>4, <3>6 DEF SentOK, Ended
  <2>7. CASE ~Full(batch)
    <3>1. inserted' = inserted /\ t.batch = batch
      BY <2>1, <2>7
    <3> QED BY <2>1, <2>3, <2>4, <2>5, <3>1 DEF SentOK, Ended, F
  <2> QED BY <2>6, <2>7
<1>4. CASE BatchFails \/ RestFails
  <2>1. /\ inserted' = inserted /\ s.outcome = "reading" /\ t.outcome = "unstorable" /\ file' = file
        /\ t.batch = s.batch /\ t.count = s.count /\ scan'["summary"].outcome # "reading"
    BY <1>0, <1>4 DEF BatchFails, RestFails, Fail, IsLocals, Reading
  <2> QED BY <2>1, SentKept DEF Ended
<1>5. CASE Finish("summary")
  <2>1. /\ inserted' = inserted /\ t = s /\ scan["summary"].outcome = "reading" /\ file' = file
        /\ scan'["summary"].outcome = "done"
    BY <1>0, <1>5 DEF Finish, IsLocals, SizesOK, Reading
  <2> QED BY <2>1, SentKept DEF Ended
<1>6. CASE Finish("import")
  <2>1. /\ t.batch = <<>> /\ t.outcome = "done" /\ s.outcome = "reading" /\ t.count = s.count
        /\ file' = file /\ scan'["summary"].outcome # "reading"
        /\ inserted' = IF s.batch = <<>> THEN inserted ELSE Append(inserted, s.batch)
    BY <1>0, <1>6 DEF Finish, Reading, IsLocals
  <2>2. FlattenSeq(inserted') = F \o s.batch
    <3>1. CASE s.batch = <<>>
      BY <1>p, <2>1, <3>1, JoinOne
    <3>2. CASE s.batch # <<>>
      BY <1>p, <2>1, <3>2, FlattenAppend
    <3> QED BY <3>1, <3>2
  <2>3. F \o s.batch \in Seq(Nat)
    BY <1>p
  <2>4. FlattenSeq(inserted') \o t.batch = SubSeq(DataRows, 1, t.count)
    BY <2>1, <2>2, <2>3, JoinOne DEF SentOK
  <2>5. DataRows' = DataRows
    BY <2>1, FileStays
  <2> QED BY <2>1, <2>4, <2>5 DEF SentOK, Ended
<1>7. CASE UNCHANGED vars
  <2>1. file' = file /\ scan' = scan /\ inserted' = inserted
    BY <1>7 DEF vars
  <2> QED BY <2>1, SentKept DEF Ended, SentOK
<1> QED BY <1>1, <1>2, <1>3, <1>4, <1>5, <1>6, <1>7 DEF Next, Readers

-------------------------------------------------------------------------------
(* What both loops make of a whole file                                      *)

FileInv == ScanInv /\ SizesOK /\ ScanPlace /\ SentOK

\* For every file, whatever becomes of the summary and the import.
THEOREM FileInvariance == Spec => []FileInv
<1>1. Init => FileInv
  BY ScanInitial, SizesInitial, PlaceInitial, SentInitial DEF FileInv
<1>2. FileInv /\ [Next]_vars => FileInv'
  BY ScanStep, SizesStep, PlaceStep, SentStep DEF FileInv
<1> QED BY <1>1, <1>2, PTL DEF Spec

\* A loop that has a header and has read to the end has counted every data row.
LEMMA AllCounted ==
    ASSUME file \in Files, NEW r \in Readers, NEW s, PlaceOf(r, s), s.header # NoHeader,
           s.pos = Len(file.records)
    PROVE  s.count = Len(DataRows)
<1>1. Len(NonBlankRows) = s.count + 1 /\ NonBlankRows # <<>> /\ s.count \in Nat
  BY DEF PlaceOf, NonBlankRows
<1>2. Len(NonBlankRows) = Len(DataRows) + 1 /\ DataRows \in Seq(Nat)
  BY <1>1, RecordType, DataRowsBehind
<1>3. Len(DataRows) \in Nat /\ s.count + 1 = Len(DataRows) + 1
  BY <1>1, <1>2
<1> QED BY <1>1, <1>3

\* What the outcome of a loop says, by outcome.
LEMMA WhenDone ==
    ASSUME FileInv, NEW r \in Readers, scan[r].outcome = "done"
    PROVE  /\ scan[r].count = Len(DataRows) /\ file.tail = "eof" /\ scan[r].header # NoHeader
           /\ scan[r].count <= MaxRows
<1>1. PlaceOf(r, scan[r]) /\ OutcomeOf(r, scan[r]) /\ file \in Files
  BY DEF FileInv, ScanPlace, ScanInv
<1>2. file.tail = "eof" /\ scan[r].pos = Len(file.records) /\ scan[r].header # NoHeader
  BY <1>1 DEF OutcomeOf
<1>3. scan[r].count <= MaxRows
  BY <1>1, LimitsAssumption DEF PlaceOf
<1> QED BY <1>1, <1>2, <1>3, AllCounted

\* No data row is lost, repeated or moved, for every file, every batch size and
\* however its blank lines fall (services/csv_import_execution.py:151-196).
THEOREM ImportsEveryRow == Spec => []CompletedImportsEveryRow
<1>1. FileInv => CompletedImportsEveryRow
  <2> SUFFICES ASSUME FileInv, Ended("done")
               PROVE  FlattenSeq(inserted) = DataRows /\ scan["import"].count = Len(DataRows)
    BY DEF CompletedImportsEveryRow
  <2> DEFINE F == FlattenSeq(inserted)
  <2>1. scan["import"].count = Len(DataRows)
    BY WhenDone DEF Ended, Readers
  <2>2. F \o <<>> = SubSeq(DataRows, 1, Len(DataRows))
    BY <2>1 DEF FileInv, SentOK
  <2>3. F \in Seq(Nat)
    BY FlattenAppend DEF FileInv, SizesOK
  <2>4. DataRows \in Seq(Nat)
    BY RecordType, DataRowsBehind DEF FileInv, ScanInv
  <2>5. SubSeq(DataRows, 1, Len(DataRows)) = DataRows /\ F \o <<>> = F
    BY <2>3, <2>4
  <2> QED BY <2>1, <2>2, <2>5
<1> QED BY <1>1, FileInvariance, PTL

\* csv_max_rows is the number of rows that may be imported, not one less or more,
\* for the summary and for the import alike (services/csv_processing.py:69-71,
\* services/csv_import_execution.py:177-179).
THEOREM LimitExact == Spec => []RowLimitExact
<1>1. FileInv => RowLimitExact
  <2> SUFFICES ASSUME FileInv, NEW r \in Readers
               PROVE  /\ scan[r].outcome = "row_limit" => Len(DataRows) > MaxRows
                      /\ scan[r].outcome = "done" => Len(DataRows) <= MaxRows
    BY DEF RowLimitExact
  <2>1. ASSUME scan[r].outcome = "row_limit" PROVE Len(DataRows) > MaxRows
    <3>1. OutcomeOf(r, scan[r])
      BY DEF FileInv, ScanPlace
    <3>2. AtRow(scan[r]) /\ scan[r].count = MaxRows
      BY <2>1, <3>1 DEF OutcomeOf
    <3>3. DataRows \in Seq(Nat)
      BY RecordType, DataRowsBehind DEF FileInv, ScanInv
    <3>4. MaxRows < Len(DataRows) /\ Len(DataRows) \in Nat /\ MaxRows \in Nat
      BY <3>2, <3>3, LimitsAssumption DEF AtRow
    <3> QED BY <3>4
  <2>2. ASSUME scan[r].outcome = "done" PROVE Len(DataRows) <= MaxRows
    BY <2>2, WhenDone
  <2> QED BY <2>1, <2>2
<1> QED BY <1>1, FileInvariance, PTL

\* The two loops, written twice, agree: an import that succeeds had a summary that
\* did, with the same number of rows (services/csv_processing.py:45-77,
\* services/csv_import_execution.py:151-196).
THEOREM LoopsAgree == Spec => []SummaryAgrees
<1>1. FileInv => SummaryAgrees
  <2> SUFFICES ASSUME FileInv, Ended("done")
               PROVE  /\ scan["summary"].outcome = "done"
                      /\ scan["summary"].count = Len(FlattenSeq(inserted))
    BY DEF SummaryAgrees
  <2> DEFINE s == scan["summary"]
             t == scan["import"]
  <2>0. "summary" \in Readers /\ "import" \in Readers
    BY DEF Readers
  <2>1. t.count = Len(DataRows) /\ file.tail = "eof" /\ t.header # NoHeader /\ t.count <= MaxRows
    BY <2>0, WhenDone DEF Ended
  <2>2. PlaceOf("import", t) /\ PlaceOf("summary", s) /\ OutcomeOf("summary", s)
    BY <2>0 DEF FileInv, ScanPlace
  <2>3. NonBlankRows # <<>> /\ Width <= MaxColumns /\ \A k \in 1..t.count : Len(file.records[DataRows[k]]) = Width
    BY <2>1, <2>2 DEF PlaceOf, Takes
  <2>4. s.outcome # "reading"
    BY DEF FileInv, SentOK, Ended
  <2>5. DataRows \in Seq(Nat) /\ s.count \in Nat /\ MaxRows \in Nat
    BY <2>2, RecordType, DataRowsBehind, LimitsAssumption DEF FileInv, ScanInv, PlaceOf
  <2>6. ~AtRow(s) \/ (s.count < MaxRows /\ Takes("summary", DataRows[s.count + 1]))
    <3> SUFFICES ASSUME AtRow(s) PROVE s.count < MaxRows /\ Takes("summary", DataRows[s.count + 1])
      OBVIOUS
    <3>1. s.count < Len(DataRows) /\ Len(DataRows) \in Nat
      BY <2>5 DEF AtRow
    <3>2. s.count + 1 \in 1..t.count /\ s.count < MaxRows
      BY <3>1, <2>1, <2>5
    <3> QED BY <3>2, <2>3 DEF Takes
  <2>7. s.count < MaxRows => s.count # MaxRows
    BY <2>5
  <2>8. s.outcome = "done"
    BY <2>1, <2>2, <2>3, <2>4, <2>6, <2>7 DEF OutcomeOf
  <2>9. s.count = Len(DataRows)
    BY <2>0, <2>8, WhenDone
  <2>10. FlattenSeq(inserted) = DataRows
    <3> DEFINE F == FlattenSeq(inserted)
    <3>1. F \o <<>> = SubSeq(DataRows, 1, Len(DataRows))
      BY <2>1 DEF FileInv, SentOK
    <3>1a. F \in Seq(Nat)
      BY FlattenAppend DEF FileInv, SizesOK
    <3>2. SubSeq(DataRows, 1, Len(DataRows)) = DataRows /\ F \o <<>> = F
      BY <2>5, <3>1a
    <3> QED BY <3>1, <3>2
  <2> QED BY <2>8, <2>9, <2>10
<1> QED BY <1>1, FileInvariance, PTL

\* GoodRows is where the good rows end.
LEMMA GoodRowsEnd ==
    ASSUME DataRows \in Seq(Nat), NEW n \in 0..Len(DataRows),
           \A k \in 1..n : k <= MaxRows /\ Good(DataRows[k]),
           n < Len(DataRows) => ~(n + 1 <= MaxRows /\ Good(DataRows[n + 1]))
    PROVE  GoodRows = n
<1> DEFINE L == Len(DataRows)
           Upto(m) == \A k \in 1..m : k <= MaxRows /\ Good(DataRows[k])
           End(m) == m \in 0..L /\ Upto(m) /\ (m < L => ~Upto(m + 1))
           c == CHOOSE m \in 0..L : Upto(m) /\ (m < L => ~Upto(m + 1))
<1>1. L \in Nat
  OBVIOUS
<1>2. End(n)
  <2>1. n < L => ~Upto(n + 1)
    <3> SUFFICES ASSUME n < L, Upto(n + 1) PROVE FALSE
      OBVIOUS
    <3>1. n + 1 \in 1..(n + 1)
      OBVIOUS
    <3> QED BY <3>1
  <2> QED BY <2>1
<1>3. End(c)
  BY <1>2
<1>4. GoodRows = c
  BY DEF GoodRows
<1> HIDE DEF L, c
<1>5. c \in Nat /\ n \in Nat /\ c \in 0..L /\ n \in 0..L
  BY <1>1, <1>3 DEF L
<1>6. ~(c < n)
  <2> SUFFICES ASSUME c < n PROVE FALSE
    OBVIOUS
  <2>1. c < L /\ ~Upto(c + 1)
    BY <1>1, <1>3, <1>5
  <2>2. 1..(c + 1) \subseteq 1..n
    BY <1>5
  <2> QED BY <2>1, <2>2, <1>2
<1>7. ~(n < c)
  <2> SUFFICES ASSUME n < c PROVE FALSE
    OBVIOUS
  <2>1. n < L /\ ~Upto(n + 1)
    BY <1>1, <1>2, <1>5
  <2>2. 1..(n + 1) \subseteq 1..c
    BY <1>5
  <2> QED BY <2>1, <2>2, <1>3
<1>8. c = n
  BY <1>5, <1>6, <1>7
<1> QED BY <1>4, <1>8

\* The import has counted the good rows when it stops at the first that is not, at
\* one too many or at the end of the file.
LEMMA GoodRowsCounted ==
    ASSUME FileInv, scan["import"].header # NoHeader,
           scan["import"].outcome \in {"row_width", "invalid_row", "overflow", "row_limit", "csv_error"}
    PROVE  /\ GoodRows = scan["import"].count
           /\ scan["import"].outcome # "csv_error" => AtRow(scan["import"])
<1> DEFINE s == scan["import"]
<1>1. /\ PlaceOf("import", s) /\ OutcomeOf("import", s) /\ file \in Files
  BY DEF FileInv, ScanPlace, ScanInv, Readers
<1>2. DataRows \in Seq(Nat) /\ s.count \in Nat /\ s.count <= MaxRows /\ MaxRows \in Nat
  BY <1>1, RecordType, DataRowsBehind, LimitsAssumption DEF PlaceOf
<1>3. Len(Header) = Width
  BY <1>1 DEF PlaceOf
<1>4. \A i : Good(i) <=> Takes("import", i)
  BY <1>3 DEF Good, Takes
<1>5. \A k \in 1..s.count : k <= MaxRows /\ Good(DataRows[k])
  BY <1>1, <1>2, <1>4 DEF PlaceOf
<1>6. CASE s.outcome \in {"row_width", "invalid_row", "overflow"}
  <2>1. AtRow(s) /\ ~Good(DataRows[s.count + 1])
    BY <1>1, <1>4, <1>6 DEF OutcomeOf
  <2>2. s.count \in 0..Len(DataRows)
    BY <1>2, <2>1 DEF AtRow
  <2> QED BY <1>2, <1>5, <2>1, <2>2, GoodRowsEnd
<1>7. CASE s.outcome = "row_limit"
  <2>1. AtRow(s) /\ s.count = MaxRows
    BY <1>1, <1>7 DEF OutcomeOf
  <2>2. s.count \in 0..Len(DataRows) /\ ~(s.count + 1 <= MaxRows)
    BY <1>2, <2>1 DEF AtRow
  <2> QED BY <1>2, <1>5, <2>1, <2>2, GoodRowsEnd
<1>8. CASE s.outcome = "csv_error"
  <2>1. s.pos = Len(file.records)
    BY <1>1, <1>8 DEF OutcomeOf
  <2>2. s.count = Len(DataRows)
    BY <1>1, <2>1, AllCounted DEF Readers
  <2>3. s.count \in 0..Len(DataRows) /\ ~(s.count < Len(DataRows))
    BY <1>2, <2>2
  <2> QED BY <1>2, <1>5, <1>8, <2>3, GoodRowsEnd
<1> QED BY <1>6, <1>7, <1>8

\* The header is there whenever a row is at fault.
LEMMA FaultHasHeader ==
    ASSUME FileInv, scan["import"].outcome \in {"row_width", "invalid_row", "overflow", "row_limit"}
    PROVE  scan["import"].header # NoHeader
<1>1. OutcomeOf("import", scan["import"])
  BY DEF FileInv, ScanPlace, Readers
<1> QED BY <1>1 DEF OutcomeOf, AtRow

\* The record number of a validation failure is that of the first bad row of the
\* file (services/csv_import_execution.py:164-187).
THEOREM FirstBadRowNamed == Spec => []FailureNamesFirstBadRow
<1>1. FileInv => FailureNamesFirstBadRow
  <2> SUFFICES ASSUME FileInv, scan["import"].outcome \in {"row_width", "invalid_row", "overflow"}
               PROVE  /\ GoodRows < Len(DataRows)
                      /\ scan["import"].pos + 1 = DataRows[GoodRows + 1]
    BY DEF FailureNamesFirstBadRow
  <2>1. GoodRows = scan["import"].count /\ AtRow(scan["import"])
    BY FaultHasHeader, GoodRowsCounted
  <2> QED BY <2>1 DEF AtRow
<1> QED BY <1>1, FileInvariance, PTL

\* The quotient of what full batches and a rest make up.
LEMMA FullBatches ==
    ASSUME NEW b \in Nat \ {0}, NEW m \in Nat, NEW x \in Nat, b * m <= x, x < b * m + b
    PROVE  x \div b = m
OBVIOUS

\* CsvImportExecution may take an import for a number of good rows and an end: what
\* a failed one has sent is the full batches of the good rows
\* (services/csv_import_execution.py:151-196).
THEOREM FilesAbstracted == Spec => []AbstractedByFiles
<1>1. FileInv => AbstractedByFiles
  <2> DEFINE s == scan["import"]
             F == FlattenSeq(inserted)
  <2> SUFFICES ASSUME FileInv, s.header # NoHeader,
                      s.outcome \in {"row_width", "invalid_row", "overflow", "row_limit", "csv_error"}
               PROVE  F = SubSeq(DataRows, 1, BatchSize * (GoodRows \div BatchSize))
    BY DEF AbstractedByFiles
  <2>1. GoodRows = s.count
    BY GoodRowsCounted
  <2>2. /\ F \o s.batch = SubSeq(DataRows, 1, s.count)
        /\ Len(F) = BatchSize * Len(inserted) /\ Len(s.batch) < BatchSize
    BY DEF FileInv, SentOK, SizesOK, Ended
  <2>3. /\ s.batch \in Seq(Nat) /\ inserted \in Seq(Seq(Nat)) /\ F \in Seq(Nat)
        /\ DataRows \in Seq(Nat) /\ BatchSize \in Nat \ {0}
    BY FlattenAppend, RecordType, DataRowsBehind, LimitsAssumption DEF FileInv, SizesOK, ScanInv, BatchOK
  <2>4. s.count \in Nat /\ s.count <= Len(DataRows)
    <3>1. PlaceOf("import", s) /\ OutcomeOf("import", s) /\ file \in Files
      BY DEF FileInv, ScanPlace, ScanInv, Readers
    <3>2. s.outcome = "csv_error" => s.count = Len(DataRows)
      BY <3>1, AllCounted DEF OutcomeOf, Readers
    <3>3. s.outcome # "csv_error" => s.count < Len(DataRows)
      BY GoodRowsCounted DEF AtRow
    <3>4. s.count \in Nat /\ Len(DataRows) \in Nat
      BY <2>3, <3>1 DEF PlaceOf
    <3> QED BY <3>2, <3>3, <3>4
  <2> DEFINE D == SubSeq(DataRows, 1, s.count)
             n == BatchSize * Len(inserted)
  <2>5. D \in Seq(Nat) /\ Len(D) = s.count /\ \A k \in 1..s.count : D[k] = DataRows[k]
    BY <2>3, <2>4, FirstOnes
  <2> HIDE DEF D, F
  <2>6. /\ Len(F) \in Nat /\ Len(s.batch) \in Nat /\ Len(inserted) \in Nat
        /\ s.count = Len(F) + Len(s.batch) /\ \A k \in 1..Len(F) : D[k] = F[k]
    <3>1. D = F \o s.batch
      BY <2>2 DEF D
    <3>2. Len(F \o s.batch) = Len(F) + Len(s.batch) /\ \A k \in 1..Len(F) : (F \o s.batch)[k] = F[k]
      BY <2>3, JoinedLength
    <3>3. Len(F) \in Nat /\ Len(s.batch) \in Nat /\ Len(inserted) \in Nat
      BY <2>3
    <3> QED BY <2>5, <3>1, <3>2, <3>3
  <2>7. s.count \div BatchSize = Len(inserted)
    <3>1. n <= s.count /\ s.count < n + BatchSize
      BY <2>2, <2>3, <2>6
    <3> QED BY <3>1, <2>3, <2>4, <2>6, FullBatches
  <2>8. F = SubSeq(DataRows, 1, Len(F))
    BY <2>3, <2>4, <2>5, <2>6
  <2> QED BY <2>1, <2>2, <2>7, <2>8
<1> QED BY <1>1, FileInvariance, PTL

-------------------------------------------------------------------------------
(* The issues of a row                                                       *)

Faulty(mapping, row, D) == {f \in D : Code(mapping, row, f) # "none"}

FieldsOf(issues) == {issues[k].field : k \in DOMAIN issues}

\* The issues that have been collected name the faulty ones of the fields D, each
\* of them once.
Listing(mapping, row, issues, D) ==
    /\ issues \in Seq([field : CanonicalFields, code : {Code(mapping, row, f) : f \in CanonicalFields}])
    /\ FieldsOf(issues) = Faulty(mapping, row, D)
    /\ IsFiniteSet(FieldsOf(issues)) /\ Cardinality(FieldsOf(issues)) = Len(issues)

\* One more definition is tried.
LEMMA OneMoreField ==
    ASSUME NEW mapping, NEW row, NEW issues, NEW D, NEW f \in CanonicalFields, f \notin D,
           Listing(mapping, row, issues, D)
    PROVE  Listing(mapping, row, issues \o IssueOf(mapping, row, f), D \cup {f})
<1> DEFINE A == [field : CanonicalFields, code : {Code(mapping, row, g) : g \in CanonicalFields}]
           c == Code(mapping, row, f)
           issue == [field |-> f, code |-> c]
<1>0. issues \in Seq(A)
  BY DEF Listing
<1>1. CASE c = "none"
  <2>1. IssueOf(mapping, row, f) = <<>> /\ issues \o <<>> = issues
    BY <1>0, <1>1 DEF IssueOf
  <2>2. Faulty(mapping, row, D \cup {f}) = Faulty(mapping, row, D)
    BY <1>1 DEF Faulty
  <2> QED BY <2>1, <2>2 DEF Listing
<1>2. CASE c # "none"
  <2> DEFINE next == Append(issues, issue)
  <2>1. issue \in A /\ issue.field = f
    OBVIOUS
  <2>2. IssueOf(mapping, row, f) = <<issue>>
    BY <1>2 DEF IssueOf
  <2> HIDE DEF A, issue
  <2>3. issues \o <<issue>> = next /\ next \in Seq(A) /\ Len(next) = Len(issues) + 1
    BY <1>0, <2>1
  <2>4. FieldsOf(next) = FieldsOf(issues) \cup {f}
    <3>1. DOMAIN next = DOMAIN issues \cup {Len(issues) + 1}
      BY <1>0, <2>1
    <3>2. next[Len(issues) + 1] = issue /\ \A k \in DOMAIN issues : next[k] = issues[k]
      BY <1>0, <2>1
    <3> HIDE DEF next
    <3> QED BY <3>1, <3>2, <2>1 DEF FieldsOf
  <2>5. Faulty(mapping, row, D \cup {f}) = Faulty(mapping, row, D) \cup {f}
    BY <1>2 DEF Faulty
  <2>6. f \notin FieldsOf(issues) /\ IsFiniteSet(FieldsOf(issues))
        /\ Cardinality(FieldsOf(issues)) = Len(issues)
    BY DEF Listing, Faulty
  <2>7. /\ IsFiniteSet(FieldsOf(issues) \cup {f})
        /\ Cardinality(FieldsOf(issues) \cup {f}) = Len(issues) + 1
    BY <2>6, FS_AddElement
  <2> HIDE DEF next
  <2>8. FieldsOf(next) = Faulty(mapping, row, D \cup {f})
    BY <2>4, <2>5 DEF Listing
  <2>9. IssueOf(mapping, row, f) = <<issue>> /\ issues \o <<issue>> = next
    BY <2>2, <2>3
  <2> QED BY <2>3, <2>4, <2>7, <2>8, <2>9 DEF Listing, A
<1> QED BY <1>1, <1>2

\* All six: the issues of a row name its faulty fields, each of them once.
LEMMA IssuesListed ==
    ASSUME NEW mapping, NEW row
    PROVE  Listing(mapping, row, Issues(mapping, row), CanonicalFields)
<1> DEFINE A == [field : CanonicalFields, code : {Code(mapping, row, g) : g \in CanonicalFields}]
           Tried(n) == [k \in 1..n |-> IssueOf(mapping, row, Definitions[k])]
           First(n) == {Definitions[k] : k \in 1..n}
           S == {n \in Nat : n <= 6 => Listing(mapping, row, FlattenSeq(Tried(n)), First(n))}
<1>0. /\ \A k \in 1..6 : Definitions[k] \in CanonicalFields
      /\ \A k, m \in 1..6 : Definitions[k] = Definitions[m] => k = m
      /\ DOMAIN Definitions = 1..6 /\ First(6) = CanonicalFields
  <2>1. /\ Definitions[1] = "content" /\ Definitions[2] = "published_at" /\ Definitions[3] = "author"
        /\ Definitions[4] = "engagement_count" /\ Definitions[5] = "sentiment"
        /\ Definitions[6] = "source_name" /\ DOMAIN Definitions = 1..6
    BY DEF Definitions
  <2>2. \A k \in 1..6 : k \in {1, 2, 3, 4, 5, 6}
    OBVIOUS
  <2>3. \A k \in 1..6 : Definitions[k] \in CanonicalFields
    BY <2>1, <2>2 DEF CanonicalFields
  <2>4. \A k, m \in 1..6 : Definitions[k] = Definitions[m] => k = m
    BY <2>1, <2>2
  <2>5. CanonicalFields \subseteq First(6)
    BY <2>1 DEF CanonicalFields
  <2> QED BY <2>1, <2>3, <2>4, <2>5
<1>1. \A k \in 1..6 : IssueOf(mapping, row, Definitions[k]) \in Seq(A)
  <2>1. ASSUME NEW f \in CanonicalFields PROVE IssueOf(mapping, row, f) \in Seq(A)
    <3>1. [field |-> f, code |-> Code(mapping, row, f)] \in A
      OBVIOUS
    <3> HIDE DEF A
    <3> QED BY <3>1 DEF IssueOf
  <2> QED BY <1>0, <2>1
<1>2. 0 \in S
  <2>1. Tried(0) = <<>> /\ FlattenSeq(<<>>) = <<>> /\ First(0) = {}
    BY DEF FlattenSeq
  <2>2. FieldsOf(<<>>) = {} /\ Faulty(mapping, row, {}) = {}
    BY DEF FieldsOf, Faulty
  <2>3. Listing(mapping, row, <<>>, {})
    BY <2>2, FS_EmptySet DEF Listing
  <2> QED BY <2>1, <2>3
<1>3. ASSUME NEW n \in Nat, n \in S PROVE n + 1 \in S
  <2> SUFFICES ASSUME n + 1 <= 6
               PROVE  Listing(mapping, row, FlattenSeq(Tried(n + 1)), First(n + 1))
    OBVIOUS
  <2> DEFINE g == Definitions[n + 1]
             issue == IssueOf(mapping, row, g)
  <2>1. n + 1 \in 1..6 /\ 1..n \subseteq 1..6 /\ n + 1 \notin 1..n
    OBVIOUS
  <2>2. Listing(mapping, row, FlattenSeq(Tried(n)), First(n))
    BY <1>3, <2>1
  <2>3. g \in CanonicalFields /\ g \notin First(n) /\ First(n + 1) = First(n) \cup {g}
    BY <1>0, <2>1
  <2>4. issue \in Seq(A) /\ \A k \in 1..n : IssueOf(mapping, row, Definitions[k]) \in Seq(A)
    BY <1>1, <2>1
  <2>5. Tried(n) \in Seq(Seq(A)) /\ Len(Tried(n)) = n
    BY <2>4
  <2>6. Tried(n + 1) = Append(Tried(n), issue)
    BY <2>5
  <2> HIDE DEF Tried, First, A, issue, g
  <2>7. FlattenSeq(Tried(n + 1)) = FlattenSeq(Tried(n)) \o issue
    BY <2>4, <2>5, <2>6, FlattenAppend
  <2>8. Listing(mapping, row, FlattenSeq(Tried(n)) \o IssueOf(mapping, row, g), First(n) \cup {g})
    BY <2>2, <2>3, OneMoreField, Zenon
  <2> QED BY <2>3, <2>7, <2>8 DEF issue
<1> HIDE DEF S
<1>4. 6 \in S
  BY <1>2, <1>3, CountingUp
<1>5. Listing(mapping, row, FlattenSeq(Tried(6)), CanonicalFields)
  BY <1>0, <1>4 DEF S
<1>6. Issues(mapping, row) = FlattenSeq(Tried(6))
  BY <1>0 DEF Issues
<1> QED BY <1>5, <1>6

\* What the cells of the mapped columns become when some are mended.
LEMMA MendedCells ==
    ASSUME file \in Files, NEW row, MapsInto(Mapping, row), NEW F \in SUBSET DOMAIN Mapping,
           NEW f \in CanonicalFields
    PROVE  /\ f \notin F => Code(Mapping, Repaired(row, F), f) = Code(Mapping, row, f)
           /\ f \in F => Code(Mapping, Repaired(row, F), f) = "none"
<1> DEFINE M == Mapping
           blank == CHOOSE c \in DOMAIN Strip : Strip[c] = Null
           plain == CHOOSE c \in DOMAIN Strip : Strip[c] # Null /\ Refusal("content", Strip[c]) = "none"
           mended == {M[g] : g \in F}
           R == [c \in DOMAIN row |-> IF c \notin mended THEN row[c]
                                      ELSE IF c = M["content"] THEN plain ELSE blank]
<1>1. R = Repaired(row, F)
  BY DEF Repaired
<1>2. Strip[blank] = Null
  BY CellsAssumption
<1>3. Strip[plain] # Null /\ Refusal("content", Strip[plain]) = "none"
  <2>1. PICK c \in DOMAIN Strip : Strip[c] \in Texts /\ Length[Strip[c]] <= ContentLimit
    BY CellsAssumption
  <2>2. Length[Strip[c]] \in Nat /\ ContentLimit \in Nat
    BY <2>1, TextsAssumption, RowLimitsAssumption
  <2>3. ~(Length[Strip[c]] > ContentLimit)
    BY <2>1, <2>2
  <2>4. Refusal("content", Strip[c]) = "none"
    BY <2>1, <2>3, TextsAssumption DEF Refusal, TextRefusal
  <2> QED BY <2>1, <2>4, TextsAssumption
<1>4. /\ "content" \in DOMAIN M /\ DOMAIN M \subseteq CanonicalFields
      /\ \A g, h \in DOMAIN M : M[g] = M[h] => g = h
  BY FilesAssumption DEF Mapping, Normalized, MappingAccepted
<1>5. \A g \in DOMAIN M : M[g] \in DOMAIN row
  BY DEF MapsInto
<1> HIDE DEF M, blank, plain
<1>6. DOMAIN R = DOMAIN row
  OBVIOUS
<1>7. \A g \in DOMAIN M : R[M[g]] = IF M[g] \notin mended THEN row[M[g]]
                                    ELSE IF M[g] = M["content"] THEN plain ELSE blank
  BY <1>5
<1>8. F \subseteq DOMAIN M
  BY DEF M
<1>9. \A g \in DOMAIN M : M[g] \in mended <=> g \in F
  BY <1>4, <1>8
<1> HIDE DEF R, mended
<1>10. ColumnMissing(M, R, f) <=> ColumnMissing(M, row, f)
  BY <1>6 DEF ColumnMissing
<1>11. CASE f \notin F
  <2>1. Raw(M, R, f) = Raw(M, row, f)
    BY <1>7, <1>9, <1>11 DEF Raw
  <2> QED BY <1>1, <1>10, <1>11, <2>1 DEF Code, M
<1>12. CASE f \in F
  <2>1. /\ f \in DOMAIN M /\ ~ColumnMissing(M, R, f)
        /\ Raw(M, R, f) = Strip[IF f = "content" THEN plain ELSE blank]
    BY <1>4, <1>5, <1>6, <1>7, <1>8, <1>9, <1>12 DEF Raw, ColumnMissing
  <2>2. Refusal(f, Raw(M, R, f)) = "none"
    <3>1. CASE f = "content"
      BY <2>1, <3>1, <1>3
    <3>2. CASE f # "content"
      BY <2>1, <3>2, <1>2 DEF Refusal
    <3> QED BY <3>1, <3>2
  <2> QED BY <1>1, <1>12, <2>1, <2>2 DEF Code, M
<1> QED BY <1>11, <1>12

\* A faulty field is mapped: an unmapped one has no value, which only the content
\* must have, and the content is mapped.
LEMMA FaultyIsMapped ==
    ASSUME file \in Files, NEW row, MapsInto(Mapping, row)
    PROVE  Faulty(Mapping, row, CanonicalFields) \subseteq DOMAIN Mapping
<1> SUFFICES ASSUME NEW f \in CanonicalFields, f \notin DOMAIN Mapping
             PROVE  Code(Mapping, row, f) = "none"
  BY DEF Faulty
<1>1. "content" \in DOMAIN Mapping
  BY FilesAssumption DEF Mapping, Normalized, MappingAccepted
<1>2. ~ColumnMissing(Mapping, row, f) /\ Raw(Mapping, row, f) = Null /\ f # "content"
  BY <1>1 DEF ColumnMissing, Raw
<1> QED BY <1>2 DEF Code, Refusal

\* The issues of a refused row are its faults.
LEMMA IssuesOfRefused ==
    ASSUME file \in Files, NEW row, MapsInto(Mapping, row), Refused(Mapping, row),
           NEW issues, issues = Issues(Mapping, row)
    PROVE  /\ FieldsOf(issues) # {} /\ Cardinality(FieldsOf(issues)) = Len(issues)
           /\ ~Refused(Mapping, Repaired(row, FieldsOf(issues)))
           /\ \A f \in FieldsOf(issues) : Refused(Mapping, Repaired(row, FieldsOf(issues) \ {f}))
<1> DEFINE fields == FieldsOf(issues)
<1>1. /\ fields = Faulty(Mapping, row, CanonicalFields)
      /\ Cardinality(fields) = Len(issues)
  BY IssuesListed DEF Listing
<1> HIDE DEF fields
<1>2. fields \subseteq DOMAIN Mapping /\ fields \subseteq CanonicalFields
  BY <1>1, FaultyIsMapped DEF Faulty
<1>3. fields # {}
  BY <1>1 DEF Faulty, Refused
<1>4. ~Refused(Mapping, Repaired(row, fields))
  <2>1. ASSUME NEW f \in CanonicalFields PROVE Code(Mapping, Repaired(row, fields), f) = "none"
    <3>1. fields \in SUBSET DOMAIN Mapping
      BY <1>2
    <3>2. f \notin fields => Code(Mapping, row, f) = "none"
      BY <1>1 DEF Faulty
    <3> QED BY <3>1, <3>2, MendedCells
  <2> QED BY <2>1 DEF Refused
<1>5. ASSUME NEW f \in fields PROVE Refused(Mapping, Repaired(row, fields \ {f}))
  <2>1. f \in CanonicalFields /\ Code(Mapping, row, f) # "none"
    BY <1>1 DEF Faulty
  <2>2. fields \ {f} \in SUBSET DOMAIN Mapping /\ f \notin fields \ {f}
    BY <1>2
  <2>3. Code(Mapping, Repaired(row, fields \ {f}), f) = Code(Mapping, row, f)
    BY <2>1, <2>2, MendedCells
  <2> QED BY <2>1, <2>3 DEF Refused
<1> QED BY <1>1, <1>3, <1>4, <1>5 DEF fields

\* What a refusal of the validator has kept: the issues of the row it stopped at.
IssuesOK ==
    Ended("invalid_row") =>
        /\ MapsInto(Mapping, Row(scan["import"].pos + 1))
        /\ Refused(Mapping, Row(scan["import"].pos + 1))
        /\ scan["import"].issues = Issues(Mapping, Row(scan["import"].pos + 1))

\* The issues come with the refusal, and nothing follows it.
LEMMA IssuesStep == ScanInv /\ ScanPlace /\ IssuesOK /\ [Next]_vars => IssuesOK'
<1> SUFFICES ASSUME ScanInv, ScanPlace, IssuesOK, [Next]_vars PROVE IssuesOK'
  OBVIOUS
<1> DEFINE s == scan["import"]
<1>0. /\ file \in Files /\ DOMAIN scan = Readers /\ "import" \in Readers
      /\ \A r \in Readers : IsLocals(scan[r])
      /\ PlaceOf("import", s)
  BY DEF ScanInv, ScanPlace, Readers
<1>1. file' = file
  BY DEF Next, SkipBlank, ReadHeader, RefuseHeader, RefuseRow, Undecodable, CsvError, NoHeaderFound,
     Finish, CountRow, AddRow, BatchFails, RestFails, Fail, vars
<1>2. CASE scan'["import"] = s
  BY <1>1, <1>2, FileStays DEF IssuesOK, Ended
<1>3. CASE RefuseRow("import")
  <2> DEFINE row == SourceRow(s.header, Record("import"))
  <2>1. /\ scan'["import"].pos = s.pos /\ scan'["import"].outcome = RowFault("import", Record("import"))
        /\ scan'["import"].issues = IssuesOf("import", RowFault("import", Record("import")), Record("import"))
    BY <1>0, <1>3 DEF RefuseRow, IsLocals
  <2>2. CASE RowFault("import", Record("import")) = "invalid_row"
    <3>1. /\ Len(Record("import")) = Len(s.header) /\ Refused(Mapping, row)
          /\ scan'["import"].issues = Issues(Mapping, row)
      BY <2>1, <2>2 DEF RowFault, IssuesOf
    <3>2. s.header # NoHeader /\ HasRecord("import")
      BY <1>3 DEF RefuseRow
    <3>3. MapsInto(Mapping, row)
      BY <3>1, <3>2, RowMapped
    <3>4. row = Row(s.pos + 1)
      BY <1>0, <3>2 DEF PlaceOf, Row, Record
    <3> HIDE DEF row
    <3>5. /\ Mapping' = Mapping /\ Row(scan["import"].pos + 1)' = row
      BY <1>1, <2>1, <3>4, FileStays DEF Row
    <3> QED BY <3>1, <3>3, <3>5 DEF IssuesOK
  <2>3. CASE RowFault("import", Record("import")) # "invalid_row"
    BY <2>1, <2>3 DEF IssuesOK, Ended
  <2> QED BY <2>2, <2>3
<1>4. CASE scan'["import"] # s /\ ~RefuseRow("import")
  <2>1. scan'["import"].outcome # "invalid_row"
    <3>1. ASSUME NEW r \in Readers, SkipBlank(r) \/ ReadHeader(r) \/ RefuseHeader(r) \/ RefuseRow(r)
                   \/ Undecodable(r) \/ CsvError(r) \/ NoHeaderFound(r) \/ Finish(r)
          PROVE  scan'["import"].outcome # "invalid_row"
      <4>1. CASE r = "import"
        BY <1>0, <1>4, <3>1, <4>1 DEF SkipBlank, ReadHeader, RefuseHeader, Undecodable, CsvError,
           NoHeaderFound, Finish, Fail, Reading, HeaderFault, IsLocals
      <4>2. CASE r # "import"
        BY <1>0, <1>4, <3>1, <4>2 DEF SkipBlank, ReadHeader, RefuseHeader, RefuseRow, Undecodable,
           CsvError, NoHeaderFound, Finish, Fail
      <4> QED BY <4>1, <4>2
    <3>2. CASE CountRow
      BY <1>0, <1>4, <3>2 DEF CountRow
    <3>3. CASE AddRow \/ BatchFails \/ RestFails
      BY <1>0, <3>3 DEF AddRow, BatchFails, RestFails, Fail, Reading, IsLocals
    <3>4. CASE UNCHANGED vars
      BY <1>4, <3>4 DEF vars
    <3> QED BY <3>1, <3>2, <3>3, <3>4 DEF Next
  <2> QED BY <2>1 DEF IssuesOK, Ended
<1> QED BY <1>2, <1>3, <1>4

\* For every row, mapping and limit: correcting the cells that the issues name,
\* and no fewer, gives a row the validator takes, and no field is named twice
\* (services/import_row_validation.py:76-123).
THEOREM IssuesExact == Spec => []IssuesAreTheFaults
<1>1. Init => ScanInv /\ ScanPlace /\ IssuesOK
  <2>1. ASSUME Init PROVE IssuesOK
    <3>1. scan["import"] = Start
      BY <2>1 DEF Init, Readers
    <3> QED BY <3>1 DEF IssuesOK, Ended, Start
  <2> QED BY <2>1, ScanInitial, PlaceInitial
<1>2. ScanInv /\ ScanPlace /\ IssuesOK /\ [Next]_vars => (ScanInv /\ ScanPlace /\ IssuesOK)'
  BY ScanStep, PlaceStep, IssuesStep
<1>3. ScanInv /\ IssuesOK => IssuesAreTheFaults
  <2> SUFFICES ASSUME ScanInv, IssuesOK, Ended("invalid_row") PROVE IssuesAreTheFaults
    BY DEF IssuesAreTheFaults
  <2> DEFINE row == Row(scan["import"].pos + 1)
             issues == scan["import"].issues
  <2>1. file \in Files /\ MapsInto(Mapping, row) /\ Refused(Mapping, row) /\ issues = Issues(Mapping, row)
    BY DEF ScanInv, IssuesOK
  <2>2. /\ FieldsOf(issues) # {} /\ Cardinality(FieldsOf(issues)) = Len(issues)
        /\ ~Refused(Mapping, Repaired(row, FieldsOf(issues)))
        /\ \A f \in FieldsOf(issues) : Refused(Mapping, Repaired(row, FieldsOf(issues) \ {f}))
    <3> HIDE DEF row, issues
    <3> QED BY <2>1, IssuesOfRefused
  <2> QED BY <2>2 DEF IssuesAreTheFaults, FieldsOf
<1> QED BY <1>1, <1>2, <1>3, PTL DEF Spec

===============================================================================
