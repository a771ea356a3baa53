CONSTANTS
    N = 3
    Skip <- MCSkip
    Users = {"root", "alice"}
    Invokers <- MCInvokers
SPECIFICATION Spec
INVARIANTS TypeOK ZeroIsSuccess RunsAsConfigured
CHECK_DEADLOCK FALSE
