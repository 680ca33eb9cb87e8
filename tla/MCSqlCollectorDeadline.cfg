SPECIFICATION Spec
CONSTANTS
    QueryTables <- Tables
    ResultSets <- MCResultSets
    MaxRows = 2
INVARIANT
    DeadlineIsAnError
