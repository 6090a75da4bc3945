CONSTANTS
    groq = groq  gemini = gemini  w1 = w1
    Provider <- MCProvider
    Probes <- MCProbes
    Workflow <- MCWorkflow
    Profile <- MCProfile
    TwinProfile <- MCTwinProfile
    FallbackHead = groq
SPECIFICATION FairSpec
INVARIANTS
    CountersMatchStates
PROPERTIES
    ProbesTellTheTruth
    TwinsDiffer
