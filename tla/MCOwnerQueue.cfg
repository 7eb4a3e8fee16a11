SPECIFICATION FairSpec
CONSTANTS
    a = a
    b = b
    c = c
    Msgs = {a, b, c}
    TgId <- MCTgId
    QueueCap = 2
    PullLimit = 2
    FirstCursor = 0
    MaxFaults = 2
INVARIANTS
    NoLoss
    AtMostOneRedone
PROPERTIES
    ImplementsMailbox
    EverySettled
