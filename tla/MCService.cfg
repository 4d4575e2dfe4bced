SPECIFICATION FairSpec
CONSTANTS
    Service = service
    Senders = {service, other}
    Free = free
    HeaderSize = 2
    Requests <- MCRequests
    MaxRequests = 2
    MaxNotes = 1
INVARIANTS
    NoTornPackets
    DispatchesNextRequest
    NothingKept
PROPERTIES
    KeepsPromise
    EveryRequestAnswered
    ServiceEnds
CHECK_DEADLOCK FALSE
