CONSTANTS
    MaxLength = 5
    Relevance <- ThreeRelevances
    relevance_threshold = 1
    max_chunks = 3
    confidence_threshold = 3
    max_rounds = 5
SPECIFICATION AnsweredSpec
CHECK_DEADLOCK FALSE
PROPERTY
    RefinedUntilConfident
