CONSTANTS
    N = 5
    State <- MCState
    Parents <- MCParents
    Flaky <- MCFlaky
    Branch = {main}
    Homes = {main, 2}
    NoState = NoState
    Nested = {"reset", "checkout"}
SPECIFICATION FairSpec
INVARIANTS TypeOK SearchSound WayBack
PROPERTIES ReportCorrect SearchEnds
