SPECIFICATION ConversationSpec
CONSTANTS
    a = a
    b = b
    Clients <- TwoClients
    Messages <- FiveMessages
    MemoryModes <- TwoModes
    Sometimes = {"remote"}
    Never = {}
    Padded <- PaddedTexts
    MinCount = 6
    DefaultCount = 16
    MaxCount = 40
    MinRadius = 1
    DefaultRadius = 4
    MaxRadius = 7
    MaxVersions = 3
    MaxRequests = 2
CHECK_DEADLOCK FALSE
INVARIANTS
    RecordedIsExecuted
