SPECIFICATION Spec
CONSTANTS
    n = n
    m = m
    r = r
    Numbers = {n, m}
    Array = Array
    Text = Text
    None = None
    Sign = Sign
    Huge = Huge
    Registers = {r}
    REGISTER_MAX = 1
    STACK_MAX = 2
    CardRuns = FALSE
INVARIANTS
    UndoIsPrior
    FailurePutBack
SYMMETRY Symmetric
VIEW View
