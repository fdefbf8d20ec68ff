\* Two files that take turns in one recycled tile of the dialog, one worker, a
\* lost graphics context and a recovery that may fail once before it gives up.
SPECIFICATION FairSpec
CONSTANTS
    Keys = {k1, k2}
    Workers = {w1}
    Slots = {s1}
    MaxResets = 1
    MaxAttempts = 2
INVARIANTS TypeOK TexturesOwned OneDecodeEach ResultsAreNoticed NoForeignTexture
PROPERTY KeptIsDecided
