----------------------------- MODULE HttpCallers -----------------------------
(***************************************************************************)
(* The HTTP client with the three kinds of callers it has, on the main     *)
(* loop and beside it:                                                     *)
(*   - downloads that try one candidate url after the other, the next one  *)
(*     from the callback of the last (HttpClient::downloadSequential(),    *)
(*     src/src/dbus/mpris/mpris_art.cpp),                                  *)
(*   - the external address probe (ExternalIp),                            *)
(*   - the HTTP streams of a plugin (src/src/scripting/luau_host.cpp),     *)
(*     started and stopped on the script runtime's thread, run on the main *)
(*     thread.                                                             *)
(* A step of the main thread is a deferred call, a message that dispatch() *)
(* reads, a timer, or a change of the network or the configuration.        *)
(* The lines of a stream and the mailbox they go to are ScriptRuntime's    *)
(* matter; a reference of the Luau registry that names a stream is taken   *)
(* as never reused.                                                        *)
(***************************************************************************)
EXTENDS HttpClient, ExternalIp

CONSTANTS
    Candidates,        \* the most urls a download has
    StreamLimit,       \* kMaxHttpStreamsPerHost
    MaxEvents          \* bound: network and configuration changes in a behaviour

ASSUME CallerConstants ==
    Candidates \in Nat \ {0} /\ StreamLimit \in Nat /\ MaxEvents \in Nat

\* A callback belongs to a download, to a stream or to the probe.
ASSUME CallbacksApart ==
    /\ Callers \cap Streams = {}
    /\ (Callers \cup Streams) \cap [probe : Networks] = {}
    /\ None \notin Streams

VARIABLES
    asks,              \* what each caller's SequentialDownload has left to try
    control,           \* the streams: their record in the host and HttpStreamControl
    starting,          \* the stream whose start is between startStream() and the check
    events             \* network and configuration changes so far

vars == <<http, offline, network, setting, service, asks, control, starting, events>>

NoAsk == [dest |-> None, left |-> 0]
Probe(net) == [probe |-> net]
DownloadCall == [call : {"fail"}, callback : Callers]
ProbeCall == [call : {"respond"}, callback : [probe : Networks]]
StreamCall == [call : {"start", "cancel", "close"}, callback : Streams]

\* Every field of every component has its type.
TypeOK ==
    /\ http \in HttpType(Callers \cup Streams \cup [probe : Networks],
                         DownloadCall \cup ProbeCall \cup StreamCall)
    /\ offline \in BOOLEAN
    /\ ExternalIpTypeOK
    /\ asks \in [Callers -> {NoAsk} \cup [dest : Dests, left : 1 .. Candidates]]
    /\ control \in [Streams -> [at : {"unused", "open", "closing", "closed", "stopping", "stopped"},
                                id : StreamIds \cup {0}]]
    /\ starting \in Streams \cup {None}
    /\ events \in 0 .. MaxEvents

Init ==
    /\ HttpInit
    /\ ExternalIpInit
    /\ asks = [c \in Callers |-> NoAsk]
    /\ control = [s \in Streams |-> [at |-> "unused", id |-> 0]]
    /\ starting = None
    /\ events = 0

\* The main thread is not inside the call that starts a stream.
Idle == starting = None
Enabled == setting /\ ~offline

-----------------------------------------------------------------------------
(* Downloads with candidate urls                                           *)

\* A caller asks for n urls; the first is started, unless something local
\* prevents it.
AskDownload(c) ==
    /\ Idle
    /\ asks[c] = NoAsk
    /\ \E d \in Dests, n \in 1 .. Candidates, starts \in BOOLEAN :
           /\ asks' = [asks EXCEPT ![c] = [dest |-> d, left |-> n]]
           /\ http' = Download(http, d, c, starts)
    /\ UNCHANGED <<offline, network, setting, service, control, starting, events>>

\* Variant: a next candidate is tried after the last one too.
DownloadTriesOn(st, c, ok, starts) ==
    IF ok
    THEN [st EXCEPT !.asks[c] = NoAsk]
    ELSE [http |-> Download(st.http, st.asks[c].dest, c, starts),
          asks |-> [st.asks EXCEPT ![c].left = @ - 1]]

\* The callback of one candidate: the answer, or the next candidate.
DownloadAnswered(st, c, ok, starts) ==
    IF ok \/ st.asks[c].left = 1
    THEN [st EXCEPT !.asks[c] = NoAsk]
    ELSE [http |-> Download(st.http, st.asks[c].dest, c, starts),
          asks |-> [st.asks EXCEPT ![c].left = @ - 1]]

\* The callbacks of a transfer, in the order the downloads were asked for.
AnswerAll(h, callbacks, ok, starters) ==
    LET after[i \in 0 .. Len(callbacks)] ==
            IF i = 0 THEN [http |-> h, asks |-> asks]
            ELSE DownloadAnswered(after[i - 1], callbacks[i], ok, callbacks[i] \in starters)
    IN  after[Len(callbacks)]

-----------------------------------------------------------------------------
(* The streams of a plugin, on the script runtime's thread                 *)

\* A stream has its record in the host while it is open and while its close
\* event is in the mailbox; it is cancelled from the moment stop() says so.
Records == {s \in Streams : control[s].at \in {"open", "closing"}}
Cancelled(s) == control[s].at \in {"stopping", "stopped"}

StartHttpStream(s) ==
    /\ control[s].at = "unused"
    /\ Cardinality(Records) < StreamLimit
    /\ control' = [control EXCEPT ![s].at = "open"]
    /\ http' = Later(http, "start", s)
    /\ UNCHANGED <<offline, network, setting, service, asks, starting, events>>

\* stopHttpStream(), and stopAllHttpStreams() for each stream: the flag first,
\* then the call that cancels.
StopHttpStream(s) ==
    /\ s \in Records
    /\ control' = [control EXCEPT ![s].at = "stopping"]
    /\ UNCHANGED <<http, offline, network, setting, service, asks, starting, events>>

StopCallsLater(s) ==
    /\ control[s].at = "stopping"
    /\ control' = [control EXCEPT ![s].at = "stopped"]
    /\ http' = Later(http, "cancel", s)
    /\ UNCHANGED <<offline, network, setting, service, asks, starting, events>>

CallHttpStreamCloseCallback(s) ==
    /\ control[s].at = "closing"
    /\ control' = [control EXCEPT ![s].at = "closed"]
    /\ UNCHANGED <<http, offline, network, setting, service, asks, starting, events>>

\* onClose(): a stopped stream's is not passed on.
OnClose(s) == IF Cancelled(s) THEN control ELSE [control EXCEPT ![s].at = "closing"]

-----------------------------------------------------------------------------
(* Deferred calls, on the main thread                                      *)

NextCall(call) == /\ Idle /\ http.deferred # <<>> /\ Head(http.deferred).call = call
Called == [http EXCEPT !.deferred = Tail(@)]
Callback == Head(http.deferred).callback

RunFailure ==
    /\ NextCall("fail")
    /\ \E starts \in BOOLEAN :
           \E st \in {DownloadAnswered([http |-> Called, asks |-> asks], Callback, FALSE, starts)} :
               http' = st.http /\ asks' = st.asks
    /\ UNCHANGED <<offline, network, setting, service, control, starting, events>>

RunResponse ==
    /\ NextCall("respond")
    /\ service' = ProbeAnswered(service, Callback.probe, FALSE, Enabled)
    /\ http' = Called
    /\ UNCHANGED <<offline, network, setting, asks, control, starting, events>>

\* The call that startHttpStream() deferred, up to the id it stores.
RunStart ==
    /\ NextCall("start")
    /\ IF Cancelled(Callback)
       THEN http' = Called /\ UNCHANGED <<control, starting>>
       ELSE \E starts \in BOOLEAN :
                \E after \in {StartStream(Called, Callback, starts)} :
                    /\ http' = after
                    /\ control' = [control EXCEPT ![Callback].id = StreamIdOf(http, after)]
                    /\ starting' = Callback
    /\ UNCHANGED <<offline, network, setting, service, asks, events>>

\* "a stop raced stream startup"
CheckStarted ==
    /\ starting # None
    /\ http' = IF Cancelled(starting) THEN CancelStream(http, control[starting].id)
                                     ELSE http
    /\ starting' = None
    /\ UNCHANGED <<offline, network, setting, service, asks, control, events>>

RunCancel ==
    /\ NextCall("cancel")
    /\ http' = CancelStream(Called, control[Callback].id)
    /\ UNCHANGED <<offline, network, setting, service, asks, control, starting, events>>

RunClose ==
    /\ NextCall("close")
    /\ http' = Called
    /\ control' = OnClose(Callback)
    /\ UNCHANGED <<offline, network, setting, service, asks, starting, events>>

-----------------------------------------------------------------------------
(* dispatch(), on the main thread: the messages of one call are read one   *)
(* by one, each with the callbacks of its transfer                         *)

ReadDownload(e) ==
    /\ Idle /\ http.transfers[e].kind = "download"
    /\ \E ok \in BOOLEAN, starters \in SUBSET Callers :
           \E st \in {AnswerAll(FinishTransfer(http, e), http.transfers[e].callbacks, ok, starters)} :
               http' = st.http /\ asks' = st.asks
    /\ UNCHANGED <<offline, network, setting, service, control, starting, events>>

ReadRequest(e) ==
    /\ Idle /\ http.transfers[e].kind = "request"
    /\ \E ok \in BOOLEAN :
           service' = ProbeAnswered(service, http.transfers[e].callbacks[1].probe, ok, Enabled)
    /\ http' = FinishRequestTransfer(http, e)
    /\ UNCHANGED <<offline, network, setting, asks, control, starting, events>>

ReadStream(e) ==
    /\ Idle /\ http.transfers[e].kind = "stream"
    /\ control' = OnClose(http.transfers[e].callbacks[1])
    /\ http' = FinishStreamTransfer(http, e)
    /\ UNCHANGED <<offline, network, setting, service, asks, starting, events>>

-----------------------------------------------------------------------------
(* The external address, on the main thread                                *)

\* A change of the network is told to the service at once.
NetworkChanged ==
    /\ Idle /\ events < MaxEvents
    /\ events' = events + 1
    /\ \E net \in Networks \cup {NoNetwork} :
           /\ network' = net
           /\ service' = Sync(service, net, Enabled)
    /\ UNCHANGED <<http, offline, setting, asks, control, starting>>

\* The reload callback that hands the client its offline mode
SetOfflineMode == offline' \in BOOLEAN

\* A reload sets the client's offline mode first, then tells the service.
ConfigReload ==
    /\ Idle /\ events < MaxEvents
    /\ events' = events + 1
    /\ setting' \in BOOLEAN
    /\ SetOfflineMode
    /\ service' = Sync(service, network, Enabled')
    /\ UNCHANGED <<http, network, asks, control, starting>>

ProbeNow ==
    /\ Idle /\ service.timer
    /\ IF Probes(service, network, Enabled)
       THEN /\ \E starts \in BOOLEAN : http' = Request(http, Probe(network), starts)
            /\ service' = [service EXCEPT !.timer = FALSE, !.inFlight = TRUE]
       ELSE /\ service' = [service EXCEPT !.timer = FALSE]
            /\ UNCHANGED http
    /\ UNCHANGED <<offline, network, setting, asks, control, starting, events>>

TimePasses ==
    /\ service.age # "old"
    /\ service' = Older(service)
    /\ UNCHANGED <<http, offline, network, setting, asks, control, starting, events>>

-----------------------------------------------------------------------------
(* Specification                                                           *)

Next ==
    \/ \E c \in Callers : AskDownload(c)
    \/ \E s \in Streams : StartHttpStream(s) \/ StopHttpStream(s) \/ StopCallsLater(s)
                             \/ CallHttpStreamCloseCallback(s)
    \/ RunFailure \/ RunResponse \/ RunStart \/ RunCancel \/ RunClose
    \/ CheckStarted
    \/ \E e \in Easy : ReadDownload(e) \/ ReadRequest(e) \/ ReadStream(e)
    \/ NetworkChanged \/ ConfigReload \/ ProbeNow \/ TimePasses

Spec == Init /\ [][Next]_vars

-----------------------------------------------------------------------------
(* Properties                                                              *)

TransfersOf(kind) == {e \in Easy : http.transfers[e].kind = kind}

\* Two transfers never write the same .part file, and both of the client's
\* indexes name exactly the transfers there are: m_activeByDest the downloads,
\* m_streamsById the streams, though handles are recycled.
IndexesAgree ==
    /\ \A e \in Easy, d \in Dests :
           http.byDest[d] = e <=>
               http.transfers[e].kind = "download" /\ http.transfers[e].dest = d
    /\ \A e \in Easy, i \in StreamIds :
           http.byStream[i] = e <=>
               http.transfers[e].kind = "stream" /\ http.transfers[e].id = i

\* How many callbacks are owed to one asker: in transfers and in deferred calls.
Owed(callback, calls) ==
    LET InTransfer(e) == {<<e, i>> : i \in {j \in DOMAIN http.transfers[e].callbacks :
                                                http.transfers[e].callbacks[j] = callback}}
    IN  Cardinality(UNION {InTransfer(e) : e \in Active(http)})
          + Cardinality({i \in DOMAIN http.deferred : /\ http.deferred[i].call \in calls
                                                      /\ http.deferred[i].callback = callback})

\* Nobody is answered twice and nobody is forgotten: a caller that waits is owed
\* one callback, one that does not wait none, through joined downloads, next
\* candidates, local errors and the offline mode; and the probe's in-flight flag
\* stands for one answer to come, for one network.
OwedOnce ==
    /\ \A c \in Callers : Owed(c, {"fail"}) = IF asks[c] = NoAsk THEN 0 ELSE 1
    /\ \A net \in Networks : Owed(Probe(net), {"respond"}) <= 1
    /\ Cardinality({net \in Networks : Owed(Probe(net), {"respond"}) # 0})
           = IF service.inFlight THEN 1 ELSE 0

\* A stream the plugin has stopped is not left running: while its transfer is
\* open, a call that cancels it is on its way or its start has yet to check.
StoppedIsCancelled ==
    \A s \in Streams :
        Cancelled(s) /\ Owed(s, {}) # 0 =>
            \/ control[s].at = "stopping"
            \/ starting = s
            \/ \E i \in DOMAIN http.deferred : http.deferred[i] = [call |-> "cancel", callback |-> s]

\* Switched off or offline, no address is shown and no probe waits for its time,
\* whatever was in flight when the configuration changed.
OffShowsNothing == ~Enabled => service.ip = NoKey /\ ~service.timer

\* On a network, an address that is shown with nothing under way to replace it belongs
\* to that network ("a key change clears the value and re-probes").
ShownAddressIsCurrent ==
    network \in Networks /\ service.ip # NoKey /\ ~service.inFlight /\ ~service.timer
        => service.ip = network
=============================================================================
