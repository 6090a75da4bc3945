CONSTANTS
    s1 = s1  s2 = s2  s3 = s3  missing = missing
    Step <- MCStep
    Drafts <- MCDrafts
    BudgetLimit = 100
    RiskThreshold = 15
SPECIFICATION FairSpec
INVARIANTS
    TopologicalOrder
    LayersRespectDependencies
    LayersAreTight
    LoopsDecideRight
    CompiledPlansHaveLayers
PROPERTIES
    EveryDraftIsDecided
