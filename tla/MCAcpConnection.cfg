\* Two requests, a permission request and an unknown request through queues of one frame.
SPECIFICATION AcpFairSpec
CONSTANTS
    Requests = {1, 2}
    Asks = {"permission"}
    Calls = {"fs"}
    PendingLimit = 1
    OutgoingCapacity = 1
    EventCapacity = 1
    PipeCapacity = 1
    MaxFrames = 2
    MaxStderr = 1
INVARIANTS PendingMapIsSound
PROPERTIES UpdatesComeFirst DeadAgentIsNoticed DecisionsArrive ChannelSpec
CHECK_DEADLOCK FALSE
