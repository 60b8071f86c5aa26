\* Conversations of two answers and the user's moves around them, on any wire each
\* time, where an answer calls no tool, one or two; streams of up to five pieces;
\* two media requests and two consumers of the queue, with edges around every limit.
CONSTANTS
    MaxTurns = 5
    MaxCalls = 2
    MaxFiles = 1
    Tools = {"look"}
    Types = {"image", "video"}
    StreamWires = {"responses", "completions", "gemini", "converse", "anthropic"}
    MaxPieces = 5
    MaxTools = 2
    First = "r1"
    Second = "r2"
    Consumers = {"c1", "c2"}
    BatchSize = 2
    Edges = {0, 8, 24, 333, 768, 1024, 1080, 1792, 2047, 2048, 3072, 3840, 3841, 10000}
    MaxCopies = 2

SPECIFICATION Spec
INVARIANT FallsBackToTable
CHECK_DEADLOCK FALSE
