CONSTANTS
    MaxLength = 5
    Relevance <- ThreeRelevances
    relevance_threshold = 1
    max_chunks = 2
    confidence_threshold = 3
    max_rounds = 3
SPECIFICATION FairSpec
INVARIANTS
    NoDuplicateChunks
    LowIsJustified
PROPERTY
    AsksForWhatIsMissing
    RefinementEnds
