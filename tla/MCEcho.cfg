CONSTANTS
    Peers = {1, 2, 3}
    Tokens = {"x", "nl", "exit"}
    MaxSent <- MCMaxSent
    BufSize = 2
    Room = 1
SPECIFICATION FairSpec
CHECK_DEADLOCK FALSE
INVARIANTS
    NothingLost
    OwnTokensInOrder
    OneSocketPerClient
PROPERTY
    AnswerDelivered
