----------------------------- MODULE ExternalIp -----------------------------
(***************************************************************************)
(* The external address shown in the bar and the network tab:              *)
(* src/src/dbus/network/external_ip_service.cpp.  A network is the pair of *)
(* local IPv4 address and VPN state that wanProbeKey() makes a key of; an  *)
(* address is the key it was asked under.  The age of the last answer      *)
(* matters at 30 s and 5 min only, and the settle and confirmation timers  *)
(* are one timer that is armed or not.                                     *)
(***************************************************************************)
EXTENDS Naturals

CONSTANTS Networks     \* the keys of the networks the machine is ever on

VARIABLES
    network,           \* INetworkService::state(): a key, or NoNetwork
    setting,           \* [shell].externalIpEnabled
    service            \* the service's own fields

NoNetwork == "no network"
NoKey == "no key"

ServiceType ==
    [ip : Networks \cup {NoKey},             \* m_externalIp
     key : Networks \cup {NoKey},            \* m_externalIpKey
     confirmed : Networks \cup {NoKey},      \* m_externalIpConfirmedKey
     age : {"recent", "fresh", "old"},       \* now - m_fetchedAt
     inFlight : BOOLEAN,                     \* m_fetchInFlight
     timer : BOOLEAN]                        \* m_timer.active()

ExternalIpTypeOK ==
    /\ network \in Networks \cup {NoNetwork}
    /\ setting \in BOOLEAN
    /\ service \in ServiceType

\* Neither a probe in flight nor a timer, and the answer for this network is
\* old enough.
Due(s, net) ==
    /\ ~s.inFlight /\ ~s.timer
    /\ net = s.key => /\ ~(s.ip # NoKey /\ s.age \in {"recent", "fresh"})
                      /\ s.age # "recent"

MaybeScheduleProbe(s, net) == IF Due(s, net) THEN [s EXCEPT !.timer = TRUE] ELSE s

\* sync(): after a network change or a config reload.
Sync(s, net, enabled) ==
    IF ~enabled
    THEN [s EXCEPT !.timer = FALSE, !.ip = NoKey]
    ELSE IF net = NoNetwork
    THEN [s EXCEPT !.ip = NoKey, !.age = "old"]
    ELSE MaybeScheduleProbe(IF net # s.key THEN [s EXCEPT !.ip = NoKey] ELSE s, net)

Probes(s, net, enabled) == enabled /\ ~s.inFlight /\ net # NoNetwork

\* Variant: the answer is shown whatever the setting has become.
ProbeAnsweredLate(s, key, ok, enabled) ==
    LET answered == [s EXCEPT !.inFlight = FALSE, !.age = "recent", !.key = key,
                              !.ip = IF ok THEN key ELSE NoKey]
    IN  IF ok /\ s.confirmed # key
        THEN [answered EXCEPT !.confirmed = key, !.timer = TRUE]
        ELSE answered

\* The answer to a probe made under key; ok when it is an address.  The first
\* address of a key is confirmed by one more probe.
ProbeAnswered(s, key, ok, enabled) ==
    LET answered == [s EXCEPT !.inFlight = FALSE, !.age = "recent", !.key = key,
                              !.ip = IF enabled /\ ok THEN key ELSE NoKey]
    IN  IF enabled /\ ok /\ s.confirmed # key
        THEN [answered EXCEPT !.confirmed = key, !.timer = TRUE]
        ELSE answered

\* Time passes.
Older(s) ==
    [s EXCEPT !.age = IF @ = "recent" THEN "fresh" ELSE "old"]

\* The application tells the service of the network it finds at startup.
ExternalIpInit ==
    /\ network \in Networks \cup {NoNetwork}
    /\ setting = TRUE
    /\ service = Sync([ip |-> NoKey, key |-> NoKey, confirmed |-> NoKey, age |-> "old",
                       inFlight |-> FALSE, timer |-> FALSE], network, TRUE)
=============================================================================
