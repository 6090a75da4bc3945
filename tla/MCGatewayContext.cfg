CONSTANTS
    r1 = r1  r2 = r2  r3 = r3
    alice = alice  c1 = c1  c2 = c2
    ask = ask  tell = tell  reask = reask  manual = manual
    work = work  verify = verify
    dir = dir  other = other  file1 = file1  file2 = file2
    NoConversation = NoConversation
    Request <- MCRequest
    Session = {alice}
    Prompt = {ask, tell, reask}
    Node = {work, verify}
    Conversation = {c1, c2}
    Dir = {dir, other}
    File = {file1, file2}
    Verification = {verify}
    SessionOf <- MCSessionOf
    ConversationOf <- MCConversationOf
    PromptOf <- MCPromptOf
    Similar <- MCSimilar
    Close <- MCClose
    Known <- MCKnown
    _get_path <- MC_get_path
    TurnFile <- MCTurnFile
    Plan <- MCPlan
    max_requests_per_min = 2
    Window = 2
    TTL = 2
    MaxTime = 2
    MaxFailures = 1
SPECIFICATION Spec
PROPERTIES
    ContextReachesCompiler
CHECK_DEADLOCK FALSE
