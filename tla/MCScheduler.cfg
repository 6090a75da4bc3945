CONSTANTS
    p1 = p1  p2 = p2  p3 = p3
    a = a  b = b  c = c  d = d  e = e  f = f
    w1 = w1  w2 = w2  w3 = w3  x1 = x1  x2 = x2
    u1 = u1  u2 = u2  u3 = u3
    Plan <- MCPlan
    Node <- MCNode
    PlanOf <- MCPlanOf
    LayerOf <- MCLayerOf
    DepsOf <- MCDepsOf
    RuntimeOf <- MCRuntimeOf
    DepthOf <- MCDepthOf
    Id <- MCId
    IdOf <- MCIdOf
    Dir <- MCDir
    _get_path <- MCget_path
    TcbIdOf <- MCTcbIdOf
    Permits = 2
SPECIFICATION FairSpec
INVARIANTS
    PermitConservation
    LayerBarrier
    NothingLeftBehind
    ResultTellsOutcome
    NeverOnRejectedInput
    NoResidue
PROPERTIES
    
    ImplementsLayeredExecution
    EveryPlanComesBack
