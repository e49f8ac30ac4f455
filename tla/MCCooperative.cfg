SPECIFICATION Spec
CONSTANTS
    SlotCount = 2
    GenerationMax = 2
    MessageBound = 3
    Messages <- MCMessages
    RightsRequests <- MCRightsRequests
INVARIANTS
    ValidateAccepts
    ExactlyOnceInOrder
    PeerExitedAfterDrain
    StaleHandlesStayDead
    AuthorityConfined
PROPERTIES
    BlockedReceiverWokenWithCause
    ImplementsDispatcher
