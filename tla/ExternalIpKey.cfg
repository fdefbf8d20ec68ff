CONSTANTS
    Dests = {d1}
    Callers = {}
    Streams = {}
    Networks = {net1, net2}
    Candidates = 1
    StreamLimit = 1
    MaxEvents = 1
CHECK_DEADLOCK FALSE
SPECIFICATION Spec
INVARIANT ShownAddressIsCurrent
