CONSTANTS
    Behaviors = {b1, b2}
    MaxGeneration = 2
    MaxEvents = 1
    Clients = {c1, c2}
    MaxCookies = 2
SPECIFICATION FairSpec
INVARIANTS TypeOK FadeHasEnd NoForgottenIdle LocksHaveReasons
PROPERTIES ActionAfterFade FadeIsOver
