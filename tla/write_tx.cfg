SPECIFICATION Spec
CONSTANTS
    Requests = {r1, r2}
    None = None
    Rows = {a, b, c}
    MaxDepth = 3
INVARIANTS TypeOK AnswerIsTruth DeniedIsUndone RolledBackBeforePool OwnCompany
PROPERTY InnerFailureContained
CONSTRAINT BeforeStray
CHECK_DEADLOCK FALSE
