SPECIFICATION FairSpec
CONSTANTS
    q1 = q1
    q2 = q2
    w1 = w1
    Requests = {q1, q2}
    Workers = {w1}
    Specialists = {"finance", "knowledge"}
    ToolUsers = {"finance"}
    MaxTurns = 2
    MaxFailures = 1
    MaxDeaths = 1
INVARIANTS
    TypeOK
    AnswerIsWhole
    AnswerIsLogged
    UsageIsAccounted
PROPERTIES
    MessageIsAnswered
CHECK_DEADLOCK FALSE
