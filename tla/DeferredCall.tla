---------------------------- MODULE DeferredCall ----------------------------
(***************************************************************************)
(* src/src/core/deferred_call.cpp: any thread queues a call for the main   *)
(* thread under a mutex and then, in a second critical section, writes a   *)
(* byte to a non-blocking pipe the main loop polls.  The byte of a full    *)
(* pipe is dropped, so the pipe is just empty or not.                      *)
(***************************************************************************)
EXTENDS Naturals, Sequences

CONSTANTS
    Threads,      \* the threads that call callLater(), the main thread apart
    MaxCalls      \* bound: calls made in a behaviour

ASSUME DeferredConstants == MaxCalls \in Nat

VARIABLES
    pending,      \* queue(): the calls, numbered in the order they were made
    waking,       \* the threads between the two critical sections of callLater()
    wakePipe,     \* whether the pipe has a byte
    calls         \* the number of calls made so far

deferredVars == <<pending, waking, wakePipe, calls>>

DeferredTypeOK ==
    /\ pending \in Seq(1..MaxCalls)
    /\ waking \subseteq Threads
    /\ wakePipe \in BOOLEAN
    /\ calls \in 0..MaxCalls

DeferredInit ==
    /\ pending = <<>>
    /\ waking = {}
    /\ wakePipe = FALSE
    /\ calls = 0

\* callLater(), first half: the call is queued.
CallLater(t) ==
    /\ t \notin waking
    /\ calls < MaxCalls
    /\ calls' = calls + 1
    /\ pending' = Append(pending, calls')
    /\ waking' = waking \cup {t}
    /\ UNCHANGED wakePipe

\* Variant: the byte is not written.
WakeNobody(t) ==
    /\ t \in waking
    /\ waking' = waking \ {t}
    /\ UNCHANGED <<pending, wakePipe, calls>>

\* callLater(), second half.
WakeMainLoop(t) ==
    /\ t \in waking
    /\ waking' = waking \ {t}
    /\ wakePipe' = TRUE
    /\ UNCHANGED <<pending, calls>>

\* Variant: the main thread does not wake itself.
CallLaterOnMainQuietly ==
    /\ calls < MaxCalls
    /\ calls' = calls + 1
    /\ pending' = Append(pending, calls')
    /\ UNCHANGED <<waking, wakePipe>>

\* callLater() on the main thread, where nothing observes the step between.
CallLaterOnMain ==
    /\ calls < MaxCalls
    /\ calls' = calls + 1
    /\ pending' = Append(pending, calls')
    /\ wakePipe' = TRUE
    /\ UNCHANGED waking

TakePending ==
    /\ pending' = <<>>
    /\ UNCHANGED <<waking, wakePipe, calls>>

DrainWakeFd ==
    /\ wakePipe' = FALSE
    /\ UNCHANGED <<pending, waking, calls>>
=============================================================================
