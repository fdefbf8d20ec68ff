----------------------------- MODULE HttpClient -----------------------------
(***************************************************************************)
(* The HTTP client: src/src/net/http_client.cpp, one curl multi handle on  *)
(* the main thread.  A download that asks for a destination already being  *)
(* fetched joins that transfer; every other request is a transfer of its   *)
(* own.  What one call does to the client is an operator from client to    *)
(* client; a module that extends this one says who calls it and what the   *)
(* callbacks do.                                                           *)
(*                                                                         *)
(* A local error (the file, the easy handle, curl_multi_add_handle) and    *)
(* the offline mode end a call the same way, with a deferred answer.  An   *)
(* easy handle is a number: curl gives the address of a freed one to a     *)
(* later transfer.  How curl comes to the end of a transfer is external:   *)
(* dispatch() reads the end of any of them, with any result.  post(), whose*)
(* only caller ignores the answer, is left out.                            *)
(***************************************************************************)
EXTENDS Naturals, FiniteSets, SequencesExt

CONSTANTS
    Dests,             \* the destination paths of downloads
    Callers,           \* who asks for a download; one at a time each
    Streams            \* the streams that are ever started, one transfer each

ASSUME HttpConstants == IsFiniteSet(Dests) /\ IsFiniteSet(Callers) /\ IsFiniteSet(Streams)

VARIABLES
    http,              \* the client's transfers and the queue of deferred calls
    offline            \* m_offlineMode

None == "none"
Easy == 1 .. (Cardinality(Callers) + Cardinality(Streams) + 1)
StreamIds == 1 .. Cardinality(Streams)
NoTransfer == [kind |-> "none", dest |-> None, id |-> 0, callbacks |-> <<>>]

HttpType(Callback, Call) ==
    [transfers : [Easy -> [kind : {"none", "download", "request", "stream"},
                           dest : Dests \cup {None}, id : StreamIds \cup {0},
                           callbacks : Seq(Callback)]],
     byDest : [Dests -> Easy \cup {0}],          \* m_activeByDest
     byStream : [StreamIds -> Easy \cup {0}],    \* m_streamsById
     nextStream : 1 .. (Cardinality(Streams) + 1),
     deferred : Seq(Call)]                       \* DeferredCall's queue

HttpInit ==
    /\ http = [transfers |-> [e \in Easy |-> NoTransfer],
               byDest |-> [d \in Dests |-> 0],
               byStream |-> [i \in StreamIds |-> 0],
               nextStream |-> 1, deferred |-> <<>>]
    /\ offline = FALSE

Active(h) == {e \in Easy : h.transfers[e].kind # "none"}
NewEasy(h) == CHOOSE e \in Easy \ Active(h) : \A f \in Easy \ Active(h) : e <= f

\* DeferredCall::callLater()
Later(h, call, callback) ==
    [h EXCEPT !.deferred = Append(@, [call |-> call, callback |-> callback])]

-----------------------------------------------------------------------------
(* Calls                                                                   *)

Joined(h, d) == h.byDest[d] # 0 /\ h.transfers[h.byDest[d]].kind = "download"

Download(h, d, callback, starts) ==
    IF offline
    THEN Later(h, "fail", callback)
    ELSE IF Joined(h, d)
    THEN [h EXCEPT !.transfers[h.byDest[d]].callbacks = Append(@, callback)]
    ELSE IF ~starts
    THEN Later([h EXCEPT !.byDest[d] = 0], "fail", callback)
    ELSE LET e == NewEasy(h) IN
         [h EXCEPT !.transfers[e] = [kind |-> "download", dest |-> d, id |-> 0,
                                     callbacks |-> <<callback>>],
                   !.byDest[d] = e]

\* Variant: offline, the request is dropped.
RequestDropped(h, callback, starts) ==
    IF offline \/ ~starts
    THEN h
    ELSE [h EXCEPT !.transfers[NewEasy(h)] = [kind |-> "request", dest |-> None, id |-> 0,
                                              callbacks |-> <<callback>>]]

Request(h, callback, starts) ==
    IF offline \/ ~starts
    THEN Later(h, "respond", callback)
    ELSE [h EXCEPT !.transfers[NewEasy(h)] = [kind |-> "request", dest |-> None, id |-> 0,
                                              callbacks |-> <<callback>>]]

\* An id that a local error uses up is not told apart from one never given.
StartStream(h, stream, starts) ==
    IF offline \/ ~starts
    THEN Later(h, "close", stream)
    ELSE LET e == NewEasy(h) IN
         [h EXCEPT !.transfers[e] = [kind |-> "stream", dest |-> None, id |-> h.nextStream,
                                     callbacks |-> <<stream>>],
                   !.byStream[h.nextStream] = e,
                   !.nextStream = @ + 1]

\* What startStream() returned: 0 when nothing was started.
StreamIdOf(before, after) == IF after.nextStream = before.nextStream THEN 0 ELSE before.nextStream

\* Variant: the id is forgotten, the transfer goes on.
CancelStreamIdOnly(h, id) ==
    IF id = 0 \/ h.byStream[id] = 0 THEN h ELSE [h EXCEPT !.byStream[id] = 0]

CancelStream(h, id) ==
    IF id = 0 \/ h.byStream[id] = 0
    THEN h
    ELSE [h EXCEPT !.transfers[h.byStream[id]] = NoTransfer, !.byStream[id] = 0]

-----------------------------------------------------------------------------
(* The end of a transfer, before its callbacks                             *)

\* Variant: the transfer is gone, its destination still counts as active.
FinishKeepsDest(h, e) == [h EXCEPT !.transfers[e] = NoTransfer]

FinishTransfer(h, e) ==
    [h EXCEPT !.transfers[e] = NoTransfer, !.byDest[h.transfers[e].dest] = 0]

FinishRequestTransfer(h, e) == [h EXCEPT !.transfers[e] = NoTransfer]

FinishStreamTransfer(h, e) ==
    [h EXCEPT !.transfers[e] = NoTransfer, !.byStream[h.transfers[e].id] = 0]
=============================================================================
