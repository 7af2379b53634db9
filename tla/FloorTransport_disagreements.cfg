CONSTANTS
    MaxTxns = 2
    MaxNotes = 3
    MaxRetransmits = 1
    LateDatagrams = TRUE
    PromptTick = FALSE
SPECIFICATION TransportSpec
INVARIANTS ExecutedOnce HeardInOrder
CHECK_DEADLOCK FALSE
