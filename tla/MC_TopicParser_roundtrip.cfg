\* Names of up to two segments, one source per step: enough for a name
\* without a dot.
CONSTANTS
    Segments = {"m", "outputs", "t", ""}
    MaxSegments = 2
    MaxSources = 1

SPECIFICATION Spec
INVARIANT ParseSourceRoundTrip
