CONSTANTS
    Requests = {r1}
    Mappings = {m1, m2}
    FirstMapping = m1
    MaxChanges = 2
    MaxRemaps = 2
    MaxFaults = 2
    None = None
SPECIFICATION Spec
INVARIANTS
    TypeOK
    AnswersAreFresh
    PreviousIsKept
