SPECIFICATION Spec
CONSTANTS
    MinN = 1
    MaxN = 7
    MaxVote = 3
INVARIANTS WithinVotes QuorumsIntersect
CHECK_DEADLOCK FALSE
