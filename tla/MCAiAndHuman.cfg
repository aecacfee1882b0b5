\* A criterion for the AI and one for a human: the first phase has no score.
SPECIFICATION Spec
CONSTANTS
    WeightOf <- MCWeights
    Top = 2
    Heavy = 2
    Low = 45
    High = 65
    None = None
    Rejected = Rejected
INVARIANTS
    OnlyTheUnansweredFail
CHECK_DEADLOCK FALSE
