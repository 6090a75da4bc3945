CONSTANTS
    worker = worker  large = large
    groq = groq  gemini = gemini  openrouter = openrouter
    llama = llama  flash = flash  sonnet = sonnet  pro = pro
    Call <- MCCall
    Entry <- MCEntry
    Provider <- MCProvider
    ProviderOf <- MCProviderOf
    PrimaryOf <- MCPrimaryOf
    RoutingChainOf <- MCRoutingChainOf
    TooSmallFor <- MCTooSmallFor
    OverflowChain <- MCOverflowChain
    MAX_RETRIES_PER_PROVIDER = 1
    Cooldown = 2
    MaxTime = 3
    MaxDepth = 1
SPECIFICATION FairSpec
INVARIANTS
    LoopbackIsLastResort
    AttemptsBounded
PROPERTIES
    NeverTurnsToResting
    RestsRunTheirTime
    CallsEnd
