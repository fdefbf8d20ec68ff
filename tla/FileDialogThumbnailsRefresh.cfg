\* The same dialog without a reset: an uploaded thumbnail against the tile that
\* is bound to it.
SPECIFICATION Spec
CONSTANTS
    Keys = {k1, k2}
    Workers = {w1}
    Slots = {s1}
    MaxResets = 0
    MaxAttempts = 2
INVARIANT ReadyTilesShow
