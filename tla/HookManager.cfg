SPECIFICATION Spec
CONSTANTS
    w1 = w1
    w2 = w2
    waiting = waiting
    notifier = notifier
    auditor = auditor
    Threads <- MCThreads
    EventTypes = {waiting}
    Handlers <- MCHandlers
    Raising <- MCRaising
    MaxEmits = 2
    MaxHandlers = 2
INVARIANTS Delivery
PROPERTIES EventuallyHeard
