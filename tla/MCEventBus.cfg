CONSTANTS
    stream = stream  agent = agent  tools = tools
    chunk = chunk  request = request  alert = alert
    Callback <- MCCallback
    ChannelOf <- MCChannelOf
    Message <- MCMessage
    ReceiverOf <- MCReceiverOf
    RankOf <- MCRankOf
SPECIFICATION FairSpec
INVARIANTS
    AtMostOnce
    StopQuiesces
PROPERTIES
    NobodyLeftOut
    MessagesAreTaken
    StopReturns
