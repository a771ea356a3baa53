CONSTANTS
    N = 3
    Skip <- MCSkip
    Users = {"root", "alice"}
    Invokers <- MCInvokers
SPECIFICATION Spec
INVARIANTS NamedConfigRuns
CHECK_DEADLOCK FALSE
