SPECIFICATION EventSpec
CONSTANTS
    Emitter = {engine, cli}
    Rotator = engine
    MaxLines = 2
    MaxRecords = 5
INVARIANT CorruptLinesSkipped
\* The log stops at the bound of its records.
CHECK_DEADLOCK FALSE
