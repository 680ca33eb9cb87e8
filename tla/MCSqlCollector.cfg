SPECIFICATION FairSpec
CONSTANTS
    QueryTables <- Tables
    ResultSets <- MCResultSets
    MaxRows = 3
INVARIANTS
    TypeOK
    SuccessMatchesRows
    RowKeysNeverMissing
    ExportsListed
PROPERTIES
    OnlyIncompleteAnswersFail
    CollectTerminates
