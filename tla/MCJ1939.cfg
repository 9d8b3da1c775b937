CONSTANTS
    Nodes <- TwoNodes
    Listening <- TwoNodes
    Messages <- SmallMessages
    Handled = {1, 2}
    BufferSize = 21
    TimeoutTicks = 2
    MaxTransfers <- TwoAndOne
    MaxQueue = 2
    MaxFailures = 1
SPECIFICATION Spec
INVARIANTS
    TypeOK
    WholeUnlessSendFailed
    SessionsSound
    PromptMessagesArrive
