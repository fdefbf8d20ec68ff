\* Two callers that share a destination with two candidates each, one stream, two
\* networks, and two changes of the network or the configuration.
CONSTANTS
    Dests = {d1}
    Callers = {c1, c2}
    Streams = {s1}
    Networks = {net1, net2}
    Candidates = 2
    StreamLimit = 1
    MaxEvents = 2
SPECIFICATION Spec
SYMMETRY CallerSymmetry
INVARIANTS TypeOK IndexesAgree OwedOnce StoppedIsCancelled OffShowsNothing
