\* The --iterations flag set to zero or a negative number.
CONSTANTS
    Names <- MCNames
    IterationFlags <- MCEdgeIterations
    Modes = {"rest", "grpc"}

SPECIFICATION Spec
INVARIANT SuccessMeansInferred
CHECK_DEADLOCK FALSE
