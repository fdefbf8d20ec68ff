------------------------- MODULE ScreenSaverService -------------------------
(***************************************************************************)
(* The idle inhibits: src/src/dbus/idle/screensaver_service.cpp.  A client *)
(* of the session bus takes a lock and gets a cookie for it; anybody who   *)
(* knows the cookie may give it back.  The cookies of an owner that leaves *)
(* the bus, or gives up any name it has there, are dropped.  One more lock *)
(* stands for the idle blocks of logind.  Cookies are counted by owner;    *)
(* a cookie nobody holds is ignored.                                       *)
(***************************************************************************)
EXTENDS Integers, FiniteSets

CONSTANTS
    Clients,           \* the bus names that take locks
    MaxCookies         \* bound: cookies of one client

ASSUME ScreenSaverConstants == IsFiniteSet(Clients) /\ MaxCookies \in Nat

VARIABLES
    cookies,           \* m_cookies: how many each client holds
    logindInhibited,   \* m_logindIdleInhibited
    inhibitLocks       \* m_inhibitLocks

serviceVars == <<cookies, logindInhibited, inhibitLocks>>

ScreenSaverTypeOK ==
    /\ cookies \in [Clients -> 0 .. MaxCookies]
    /\ logindInhibited \in BOOLEAN
    /\ inhibitLocks \in Nat

\* The cookies that are out, each with the client that holds it.
Held == {cookie \in Clients \X (1 .. MaxCookies) : cookie[2] <= cookies[cookie[1]]}

\* The locks there are a reason for.
Reasons == Cardinality(Held) + (IF logindInhibited THEN 1 ELSE 0)

ScreenSaverInit ==
    /\ cookies = [c \in Clients |-> 0]
    /\ logindInhibited \in BOOLEAN
    /\ inhibitLocks = IF logindInhibited THEN 1 ELSE 0

OnInhibitDelta(delta) ==
    inhibitLocks' = IF inhibitLocks + delta < 0 THEN 0 ELSE inhibitLocks + delta

OnInhibit(c) ==
    /\ cookies[c] < MaxCookies
    /\ cookies' = [cookies EXCEPT ![c] = @ + 1]
    /\ OnInhibitDelta(1)
    /\ UNCHANGED logindInhibited

OnUninhibit(c) ==
    /\ cookies[c] > 0
    /\ cookies' = [cookies EXCEPT ![c] = @ - 1]
    /\ OnInhibitDelta(-1)
    /\ UNCHANGED logindInhibited

\* Variant: one lock is given back for all the cookies of an owner.
UnregisterOnce(c) ==
    /\ cookies[c] > 0
    /\ cookies' = [cookies EXCEPT ![c] = 0]
    /\ OnInhibitDelta(-1)
    /\ UNCHANGED logindInhibited

\* The owner of a bus name is gone: a lock less for each cookie.  Only the last
\* of these changes can be the end of the inhibit.
UnregisterOwnerCookies(c) ==
    /\ cookies[c] > 0
    /\ cookies' = [cookies EXCEPT ![c] = 0]
    /\ OnInhibitDelta(-cookies[c])
    /\ UNCHANGED logindInhibited

\* BlockInhibited has changed; what it was before is in the flag.
ApplyLogindBlockInhibited(idleBlocked) ==
    /\ idleBlocked # logindInhibited
    /\ logindInhibited' = idleBlocked
    /\ OnInhibitDelta(IF idleBlocked THEN 1 ELSE -1)
    /\ UNCHANGED cookies
=============================================================================
