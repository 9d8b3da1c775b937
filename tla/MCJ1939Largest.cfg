CONSTANTS
    Nodes <- TwoNodes
    Listening <- TwoNodes
    Messages <- LargestMessage
    Handled = {1, 2}
    BufferSize = 1785
    TimeoutTicks = 15
    MaxTransfers <- OneAndNone
    MaxQueue = 2
    MaxFailures = 0
SPECIFICATION Spec
INVARIANT
    MessagesUpToBufferSizeArrive
