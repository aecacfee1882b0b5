SPECIFICATION Spec
CONSTANTS
    WeightOf <- MCWeights
    Top = 2
    Heavy = 2
    Low = 45
    High = 65
    None = None
    Rejected = Rejected
INVARIANTS
    TwoPhasesAgree
    AnAnswerIsAGrade
    ReviewedIsTheRubric
PROPERTIES
    ShownStays
CHECK_DEADLOCK FALSE
