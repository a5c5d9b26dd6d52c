SPECIFICATION MCSpec
CONSTANTS
    Null = Null
    NaN = NaN
    Tables <- MCTables
    Queries <- MCQueries
    Here = 0
    GroupRows = 2
INVARIANTS PruneKeepsMatches AnswerWhole
CHECK_DEADLOCK FALSE
