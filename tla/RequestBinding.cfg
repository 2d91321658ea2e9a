SPECIFICATION Spec
CONSTANTS
    Caller = {c1, c2, c3}
    Request = {r1}
    JobSpec = {s1, s2}
    DuplicateSpec = {s1}
    Job = {j1, j2, j3}
    None = None
    MaxCalls = 3
    MaxDeaths = 1
    MaxLosses = 1
SYMMETRY Symmetry
CHECK_DEADLOCK FALSE
INVARIANTS
    BindingInv
    OneLaunchPerRequest
    AnswersAgree
    OneJobPerSpec
