\* Both modes and an unknown one; one, two and three iterations, so that a
\* summary can count a name twice.  Infer returns and the CLI exits, so a
\* finished call has no successor.
CONSTANTS
    Names <- MCNames
    IterationFlags = {1, 2, 3}
    Modes = {"rest", "grpc", "other"}

SPECIFICATION Spec
INVARIANT TypeOK
INVARIANT SummaryMatchesResponses
CHECK_DEADLOCK FALSE
