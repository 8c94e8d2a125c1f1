CONSTANTS
    MAX_CMD_LEN <- MC_MAX_CMD_LEN
    MAX_ARGS <- MC_MAX_ARGS
    FIFO_DEPTH <- MC_FIFO_DEPTH
    Printable <- MC_Printable
    CommandNames <- MC_CommandNames
    MaxInput <- MC_MaxInput

SPECIFICATION Spec

\* After MaxInput bytes the user stops typing and the loop polls an empty
\* FIFO for ever, which is a stuttering state, not a deadlock of the code.
CHECK_DEADLOCK FALSE

INVARIANTS
    ConsoleTypeOK

PROPERTIES
    EnterAnswered
