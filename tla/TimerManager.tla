---------------------------- MODULE TimerManager ----------------------------
(***************************************************************************)
(* src/src/core/timer_manager.cpp: the timers of the main thread and the   *)
(* Timer objects that own them.  A tick takes all due entries out of the   *)
(* table first and then calls them one by one; the callbacks start and     *)
(* cancel timers, the running one and the ones still to be called          *)
(* included, which is what `inFlight` and `canceled` are for.              *)
(***************************************************************************)
EXTENDS Naturals, FiniteSets

CONSTANTS
    Timers,       \* the Timer objects
    Delays,       \* the delays and intervals they are started with
    MaxTimerId    \* bound: timers started in a behaviour

ASSUME TimerConstants == Delays \subseteq Nat /\ MaxTimerId \in Nat

VARIABLES
    handle,       \* m_id of each Timer object
    entries,      \* timerEntries()
    due,          \* dueEntries: the entries of the current tick still to be called
    inFlight,     \* inFlightTimerIds()
    canceled,     \* canceledTimerIds()
    nextTimerId,
    gone          \* history: the ids whose cancel() returned true

timerVars == <<handle, entries, due, inFlight, canceled, nextTimerId, gone>>

NoTimer == 0
TimerId == 1..MaxTimerId
Entry == [id : TimerId, at : Nat, interval : Nat, repeating : BOOLEAN]

IdsOf(es) == {e.id : e \in es}

TimerTypeOK ==
    /\ handle \in [Timers -> TimerId \cup {NoTimer}]
    /\ entries \subseteq Entry
    /\ due \subseteq Entry
    /\ inFlight \subseteq TimerId
    /\ canceled \subseteq TimerId
    /\ nextTimerId \in 1..(MaxTimerId + 1)
    /\ gone \subseteq TimerId

TimerInit ==
    /\ handle = [t \in Timers |-> NoTimer]
    /\ entries = {}
    /\ due = {}
    /\ inFlight = {}
    /\ canceled = {}
    /\ nextTimerId = 1
    /\ gone = {}

Without(id) == {e \in entries : e.id # id}

\* Variant: an entry that a tick has taken out is left alone.
CancelTableOnly(id) ==
    /\ UNCHANGED canceled
    /\ gone' = IF id \in IdsOf(entries) THEN gone \cup {id} ELSE gone

\* cancel(): an entry of the table is erased, one that a tick has taken out is
\* marked.
Cancel(id) ==
    LET waiting == id \in IdsOf(entries)
        taken == ~waiting /\ id \in inFlight
    IN  /\ canceled' = IF taken THEN canceled \cup {id} ELSE canceled
        /\ gone' = IF waiting \/ taken THEN gone \cup {id} ELSE gone

\* Timer::start() and startRepeating(): the timer the object had is cancelled.
StartTimer(t, now, delay, repeating) ==
    /\ nextTimerId <= MaxTimerId
    /\ Cancel(handle[t])
    /\ entries' = Without(handle[t])
          \cup {[id |-> nextTimerId, at |-> now + delay, interval |-> delay,
                 repeating |-> repeating]}
    /\ handle' = [handle EXCEPT ![t] = nextTimerId]
    /\ nextTimerId' = nextTimerId + 1
    /\ UNCHANGED <<due, inFlight>>

StopTimer(t) ==
    /\ handle[t] # NoTimer
    /\ Cancel(handle[t])
    /\ entries' = Without(handle[t])
    /\ handle' = [handle EXCEPT ![t] = NoTimer]
    /\ UNCHANGED <<due, inFlight, nextTimerId>>

\* tick(): take the due entries out.
TickBegin(now) ==
    /\ due' = {e \in entries : e.at <= now}
    /\ entries' = entries \ due'
    /\ inFlight' = inFlight \cup IdsOf(due')
    /\ UNCHANGED <<handle, canceled, nextTimerId, gone>>

\* tick(): an entry that a callback of this tick cancelled is not called.
TickSkips(e) ==
    /\ e \in due
    /\ e.id \in canceled
    /\ due' = due \ {e}
    /\ canceled' = canceled \ {e.id}
    /\ inFlight' = inFlight \ {e.id}
    /\ UNCHANGED <<handle, entries, nextTimerId, gone>>

\* Variant: the cancellations of this tick are not looked at.
TickCallsAll(e) ==
    /\ e \in due
    /\ due' = due \ {e}
    /\ UNCHANGED <<handle, entries, inFlight, canceled, nextTimerId, gone>>

\* tick(): the callback of the entry is called.
TickCalls(e) ==
    /\ e \in due
    /\ e.id \notin canceled
    /\ due' = due \ {e}
    /\ UNCHANGED <<handle, entries, inFlight, canceled, nextTimerId, gone>>

Rearms(e) == e.repeating /\ e.id \notin canceled

\* tick(): the callback has returned; a repeating timer it did not cancel goes
\* back into the table.
TickReturns(e, now) ==
    /\ entries' = IF Rearms(e) THEN entries \cup {[e EXCEPT !.at = now + e.interval]}
                  ELSE entries
    /\ canceled' = canceled \ {e.id}
    /\ inFlight' = inFlight \ {e.id}
    /\ UNCHANGED <<handle, due, nextTimerId, gone>>

Active(id) == id \notin canceled /\ (id \in IdsOf(entries) \/ id \in inFlight)
=============================================================================
