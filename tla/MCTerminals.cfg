\* A queue of two and five chunks: more than the queue, the pump and the reader hold.
\* Three messages of two pieces at a terminal that holds three, two chunks a stream.
SPECIFICATION Spec
CONSTANTS
    Cap = 2
    MaxChunks = 5
    Room = 3
    MaxPrints = 2
    MaxTyped = 3
INVARIANTS TypeOK OutputKept AllSentAtEnd InputKept
PROPERTIES ReaderEnds SessionsEnd
CHECK_DEADLOCK FALSE
