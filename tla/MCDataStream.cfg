CONSTANT Streams <- MCStreams
SPECIFICATION Spec
INVARIANT TypeOK
INVARIANT CursorWithinData
INVARIANT BoundaryIsStartLine
PROPERTY ResyncTerminates
CHECK_DEADLOCK FALSE
