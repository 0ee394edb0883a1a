\* Names of up to three segments over a topic segment, the "outputs"
\* suffix, a tensor segment and the empty segment (for "m" and "m."), in
\* lists of up to two sources.
CONSTANTS
    Segments = {"m", "outputs", "t", ""}
    MaxSegments = 3
    MaxSources = 2

SPECIFICATION Spec
INVARIANT TypeOK
INVARIANT ParseSourcesMatchesReference
