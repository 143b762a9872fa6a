SPECIFICATION FairSpec
CONSTANT MaxInput = 3
INVARIANTS TypeOK ZeroMeansDone
PROPERTIES LinesAnswered ConsoleEnds
CHECK_DEADLOCK FALSE
