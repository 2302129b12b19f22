SPECIFICATION Spec
CONSTANTS
    MaxRecords = 5
    Null = Null
    Texts <- SomeTexts
    Strip <- SomeStrip
    Length <- SomeLength
    Integer <- SomeInteger
    Instant <- SomeInstant
    Sentiments = {"positive"}
    WithNul = {"nul"}
    TextLimit = 255
    ContentLimit = 20000
    BigintMax = 8
    LastInstant = 10
    Files <- SomeFiles
    MaxRows = 3
    MaxColumns = 6
    BatchSize = 2
INVARIANTS CompletedImportsEveryRow BatchesAreFull RowLimitExact SummaryAgrees FailureNamesFirstBadRow AbstractedByFiles
INVARIANTS IssuesAreTheFaults ValidatorCoversTable
CHECK_DEADLOCK FALSE
