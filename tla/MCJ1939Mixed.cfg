CONSTANTS
    Nodes <- TwoNodes
    Listening <- TwoNodes
    Messages <- MixedMessages
    Handled = {1, 2}
    BufferSize = 21
    TimeoutTicks = 2
    MaxTransfers <- TwoAndNone
    MaxQueue = 2
    MaxFailures = 1
SPECIFICATION Spec
INVARIANT
    HandlersGetOneMessage
