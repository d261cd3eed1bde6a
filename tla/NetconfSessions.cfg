\* Two channels of up to three messages: chunks that end anywhere, clients
\* that wait for replies and clients that do not.
SPECIFICATION Spec
CONSTANTS
    Operations = {"done", "unknown", "close", "fragile"}
    MaxMessages = 3
    MaxChannels = 2
INVARIANTS TypeOK PerformedInOrder RepliesInStep NothingAfterClose
PROPERTIES ImplementsExchange RequestsAnswered
\* a client may stop sending
CHECK_DEADLOCK FALSE
