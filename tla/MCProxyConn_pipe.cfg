SPECIFICATION FairSpec
CHECK_DEADLOCK FALSE
CONSTANT Room = 2
INVARIANT WholeResponse
PROPERTIES StreamReturned ConnEnds PumpsEnd
