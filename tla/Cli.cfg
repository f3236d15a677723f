SPECIFICATION Spec
CONSTANTS
    any = any
    keeper = keeper
    MaxPayload = 4
    Processes <- MCProcesses
    Sessions <- MCSessions
    Seeds = {"first", "second"}
    Passes = {"passphrase"}
    Provider = "regtest"
    SyncRetries = 2
    ShownCount = 1
    ListCount = 1
    SendCount = 2
    GapLimit = 3
    Group = 2
    Width = 5
    LineWidth = 4
    TagSize = 1
    PhraseLength <- MCPhraseLength
INVARIANTS
    KeysNotLost
    KeystoreOpens
    CoinsCanBeSigned
    SentIsAccepted
    VarintExact
    OneReading
PROPERTIES
    CommandEnds
