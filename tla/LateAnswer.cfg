CONSTANTS
    Commands = {"a", "b"}
    MaxTrouble = 3
SPECIFICATION FtpSpec
INVARIANTS
    LateAnswersNobody
CHECK_DEADLOCK FALSE
