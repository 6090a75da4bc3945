CONSTANTS
    r1 = r1  r2 = r2  stream = stream
    phrase1 = phrase1  phrase2 = phrase2
    Run = {r1, r2}
    Slice = {slice1, slice2}
    Failing = {slice2}
    PhraseOf <- MCPhraseOf
    NoPhrase = NoPhrase
    Callback <- MCCallback
    ChannelOf <- MCChannelOf
    Message <- MCMessage
    ReceiverOf <- MCReceiverOf
    RankOf <- MCRankOf
SPECIFICATION FairRuntimesSpec
INVARIANTS
    NothingOutlivesRun
PROPERTIES
    AlertsCoverOwnChunks
    RunsEnd
CHECK_DEADLOCK FALSE
