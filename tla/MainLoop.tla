------------------------------ MODULE MainLoop ------------------------------
(***************************************************************************)
(* The main loop of src/src/app/main_loop.cpp, with the deferred calls and *)
(* the timers it serves.  An iteration runs the deferred calls, lets the   *)
(* poll sources vote for the time of the next wake-up, sleeps in poll(),   *)
(* dispatches the sources that woke and draws what is to be drawn.  Every  *)
(* callback may make deferred calls, start and stop timers, ask for frame  *)
(* work and change the list of sources.                                    *)
(*                                                                         *)
(* Sources.  "deferred" has a descriptor and no timeout, "timer" a timeout *)
(* that names an absolute time, and "periodic" stands for the sources that *)
(* ask for a wake-up after a constant delay and may leave the list         *)
(* (application_poll_sources.cpp); they are listed in this order.  The     *)
(* Wayland descriptor only wakes the loop.  Descriptors of other sources   *)
(* and the errors that end the program are not modelled, nor is shutdown.  *)
(***************************************************************************)
EXTENDS Integers, FiniteSets, FiniteSetsExt, SequencesExt, DeferredCall, TimerManager

CONSTANTS
    Period,       \* the constant vote of the periodic source
    FlushFloor,   \* the least sleep while the Wayland socket is full (16 ms)
    MaxTime       \* bound: the clock

ASSUME LoopConstants ==
    /\ Period \in Nat \ {0}
    /\ FlushFloor \in Nat \ {0}
    /\ MaxTime \in Nat

VARIABLES
    pc,           \* the phase of the iteration
    running,      \* the callback the loop is in: of a call, a timer, or a source
    entry,        \* the timer entry whose callback runs
    now,          \* the steady clock
    listed,       \* whether the provider lists the periodic source
    frameWork,    \* whether a surface has queued frame work or a render
    batch,        \* deferred calls taken and yet to be run
    ran,          \* history: the last deferred call that was run
    deadlines,    \* m_sourceDeadlines
    snapshot,     \* the sources of this iteration
    blocked,      \* flushBlocked: the Wayland socket is full
    timeout,      \* pollTimeout, -1 for none
    polledAt,     \* nowBeforePoll
    nowAfterPoll,
    ready,        \* whether poll() reported the descriptor of "deferred"
    at,           \* the source of the dispatch pass that comes next
    asked         \* history: when the periodic source began to wait, or -1

codeVars == <<running, entry>>
pollVars == <<deadlines, snapshot, blocked, timeout, polledAt, nowAfterPoll, ready, at, asked>>
vars == <<pc, codeVars, now, listed, frameWork, batch, ran, pollVars, deferredVars, timerVars>>

Phases == {"top", "calls", "before", "votes", "poll", "after", "dispatch", "take",
           "frame", "drawing"}

NoEntry == [id |-> NoTimer, at |-> 0, interval |-> 0, repeating |-> FALSE]

TypeOK ==
    /\ DeferredTypeOK /\ TimerTypeOK
    /\ pc \in Phases
    /\ running \in {"none", "call", "timer", "source"}
    /\ entry \in Entry \cup {NoEntry}
    /\ running = "timer" <=> entry # NoEntry
    /\ now \in 0..MaxTime
    /\ listed \in BOOLEAN /\ frameWork \in BOOLEAN
    /\ ready \in BOOLEAN /\ blocked \in BOOLEAN
    /\ batch \in Seq(1..MaxCalls)
    /\ ran \in 0..MaxCalls
    /\ DOMAIN deadlines \subseteq {"timer", "periodic"}
    /\ \A s \in DOMAIN deadlines : deadlines[s] \in Nat
    /\ snapshot \in Seq({"deferred", "timer", "periodic"})
    /\ timeout \in Nat \cup {-1}
    /\ polledAt \in Nat /\ nowAfterPoll \in Nat
    /\ at \in 1..4
    /\ asked \in Nat \cup {-1}

NoDeadlines == [s \in {} |-> 0]

Init ==
    /\ DeferredInit /\ TimerInit
    /\ pc = "top" /\ running = "none" /\ entry = NoEntry
    /\ now = 0
    /\ listed \in BOOLEAN /\ frameWork \in BOOLEAN
    /\ batch = <<>> /\ ran = 0
    /\ deadlines = NoDeadlines
    /\ snapshot = <<>>
    /\ blocked = FALSE /\ timeout = -1 /\ polledAt = 0 /\ nowAfterPoll = 0
    /\ ready = FALSE /\ at = 1 /\ asked = -1

CurrentSources == <<"deferred", "timer">> \o (IF listed THEN <<"periodic">> ELSE <<>>)

-----------------------------------------------------------------------------
(* What callbacks do.  Besides deferred calls, timers and source handlers,   *)
(* code runs while Wayland events are dispatched (before and after the       *)
(* poll) and while frames are drawn.                                         *)

InCode == running # "none" \/ pc \in {"before", "after", "drawing"}

Effect ==
    /\ InCode
    /\ \/ /\ CallLaterOnMain
          /\ UNCHANGED <<timerVars, listed, frameWork>>
       \/ /\ \E t \in Timers, d \in Delays, repeating \in BOOLEAN :
                now + d <= MaxTime /\ StartTimer(t, now, d, repeating)
          /\ UNCHANGED <<deferredVars, listed, frameWork>>
       \/ /\ \E t \in Timers : StopTimer(t)
          /\ UNCHANGED <<deferredVars, listed, frameWork>>
       \/ /\ ~frameWork
          /\ frameWork' = TRUE
          /\ UNCHANGED <<deferredVars, timerVars, listed>>
       \/ /\ listed' = ~listed
          /\ UNCHANGED <<deferredVars, timerVars, frameWork>>
    /\ UNCHANGED <<pc, codeVars, now, batch, ran, pollVars>>

-----------------------------------------------------------------------------
(* One iteration *)

\* The top of the loop takes the calls deferred so far.
TakeAtTop ==
    /\ pc = "top"
    /\ batch' = pending
    /\ TakePending
    /\ pc' = "calls"
    /\ UNCHANGED <<codeVars, now, listed, frameWork, ran, pollVars, timerVars>>

RunCall ==
    /\ running = "none"
    /\ batch # <<>>
    /\ running' = "call"
    /\ ran' = Head(batch)
    /\ batch' = Tail(batch)
    /\ UNCHANGED <<pc, entry, now, listed, frameWork, pollVars, deferredVars, timerVars>>

\* A deferred call or the handler of a source returns.
CodeReturns ==
    /\ running \in {"call", "source"}
    /\ running' = "none"
    /\ UNCHANGED <<pc, entry, now, listed, frameWork, batch, ran, pollVars, deferredVars,
                   timerVars>>

\* From one phase to the next where nothing else happens.
Proceed ==
    /\ running = "none"
    /\ batch = <<>>
    /\ \/ pc = "calls" /\ pc' = "before"
       \/ pc = "before" /\ pc' = "votes"
       \/ pc = "drawing" /\ pc' = "top"
    /\ UNCHANGED <<codeVars, now, listed, frameWork, batch, ran, pollVars, deferredVars,
                   timerVars>>

Earlier(a, b) == IF a <= b THEN a ELSE b
Later(a, b) == IF a <= b THEN b ELSE a

\* The time a source asks to be woken at: nowBeforePoll + pollTimeoutMs().
Vote(s) ==
    IF s = "timer" THEN Later(now, Min({e.at : e \in entries})) ELSE now + Period

Voters == {s \in ToSet(CurrentSources) :
             \/ s = "timer" /\ entries # {}
             \/ s = "periodic"}

\* Variant: the first vote counts until the source is dispatched.
DeadlineFirst(s) == IF s \in DOMAIN deadlines THEN deadlines[s] ELSE Vote(s)

\* The earliest time the source has asked for since its last dispatch.
Deadline(s) == IF s \in DOMAIN deadlines THEN Earlier(deadlines[s], Vote(s)) ELSE Vote(s)

\* pollTimeout
Sleep(full) ==
    LET votes == {Later(0, Deadline(s) - now) : s \in Voters}
        least == IF frameWork THEN 0 ELSE IF votes = {} THEN -1 ELSE Min(votes)
    IN  IF full /\ least >= 0 /\ least < FlushFloor THEN FlushFloor ELSE least

\* The source list is fetched, deadlines of sources that left it or want no wake-up
\* are forgotten, and the votes are taken.
PreparePoll ==
    /\ pc = "votes"
    /\ snapshot' = CurrentSources
    /\ deadlines' = [s \in Voters |-> Deadline(s)]
    /\ blocked' \in BOOLEAN
    /\ blocked' => now + FlushFloor <= MaxTime
    /\ timeout' = Sleep(blocked')
    /\ polledAt' = now
    /\ asked' = IF ~listed THEN -1 ELSE IF asked = -1 THEN now ELSE asked
    /\ pc' = "poll"
    /\ UNCHANGED <<codeVars, now, listed, frameWork, batch, ran, nowAfterPoll, ready, at,
                   deferredVars, timerVars>>

\* The locals of an iteration are forgotten when they are no longer needed.
NotPolling == blocked' = FALSE /\ timeout' = -1 /\ polledAt' = 0
PassIsOver == snapshot' = <<>> /\ at' = 1 /\ ready' = FALSE /\ nowAfterPoll' = 0

\* What the wake-ups have in common.
PollReturns ==
    /\ pc = "poll"
    /\ ready' = wakePipe
    /\ pc' = "after"
    /\ NotPolling
    /\ UNCHANGED <<codeVars, now, listed, frameWork, batch, ran, deadlines, snapshot,
                   nowAfterPoll, at, asked, deferredVars, timerVars>>

\* poll() returns for the descriptor of "deferred" or for the timeout ...
PollWakes ==
    /\ wakePipe \/ (timeout >= 0 /\ now >= polledAt + timeout)
    /\ PollReturns

\* ... or for the Wayland descriptor.
WaylandWakes == PollReturns

\* EINTR: the iteration is over.
PollInterrupted ==
    /\ pc = "poll"
    /\ pc' = "top"
    /\ NotPolling /\ PassIsOver
    /\ UNCHANGED <<codeVars, now, listed, frameWork, batch, ran, deadlines, asked,
                   deferredVars, timerVars>>

BeginDispatch ==
    /\ pc = "after"
    /\ nowAfterPoll' = now
    /\ at' = 1
    /\ pc' = "dispatch"
    /\ UNCHANGED <<codeVars, now, listed, frameWork, batch, ran, deadlines, snapshot,
                   blocked, timeout, polledAt, ready, asked, deferredVars, timerVars>>

\* The previous source of the pass is done with.
AtSource == pc = "dispatch" /\ running = "none" /\ batch = <<>> /\ due = {}

\* Variant: only descriptors count.
WokenByDescriptor(s) == s = "deferred" /\ ready

\* Whether poll() returned for the descriptor or, by the time it had returned, for the
\* deadline of the source.
Woken(s) ==
    \/ s = "deferred" /\ ready
    \/ s \in DOMAIN deadlines /\ nowAfterPoll >= deadlines[s]

\* A source that did not wake, or that is no longer listed, is passed over.
PassOver ==
    /\ AtSource
    /\ at <= Len(snapshot)
    /\ ~Woken(snapshot[at]) \/ snapshot[at] \notin ToSet(CurrentSources)
    /\ at' = at + 1
    /\ UNCHANGED <<pc, codeVars, now, listed, frameWork, batch, ran, deadlines, snapshot,
                   blocked, timeout, polledAt, nowAfterPoll, ready, asked, deferredVars, timerVars>>

\* The deadline of a source is forgotten when the source is dispatched.
Dispatches(s) ==
    /\ AtSource
    /\ at <= Len(snapshot)
    /\ snapshot[at] = s
    /\ Woken(s)
    /\ s \in ToSet(CurrentSources)
    /\ deadlines' = [t \in DOMAIN deadlines \ {s} |-> deadlines[t]]
    /\ at' = at + 1
    /\ UNCHANGED <<now, listed, frameWork, ran, snapshot, blocked, timeout, polledAt,
                   nowAfterPoll, ready>>

\* DeferredCallPollSource::dispatch() drains the pipe ...
DispatchDeferred ==
    /\ Dispatches("deferred")
    /\ DrainWakeFd
    /\ pc' = "take"
    /\ UNCHANGED <<codeVars, batch, asked, timerVars>>

\* ... and then takes the calls.
TakeDispatched ==
    /\ pc = "take"
    /\ batch' = pending
    /\ TakePending
    /\ pc' = "dispatch"
    /\ UNCHANGED <<codeVars, now, listed, frameWork, ran, pollVars, timerVars>>

DispatchTimers ==
    /\ Dispatches("timer")
    /\ TickBegin(now)
    /\ UNCHANGED <<pc, codeVars, batch, asked, deferredVars>>

DispatchPeriodic ==
    /\ Dispatches("periodic")
    /\ running' = "source"
    /\ asked' = -1
    /\ UNCHANGED <<pc, entry, batch, deferredVars, timerVars>>

RunTimer ==
    /\ pc = "dispatch" /\ running = "none"
    /\ \E e \in due :
          \/ TickSkips(e) /\ UNCHANGED codeVars
          \/ TickCalls(e) /\ running' = "timer" /\ entry' = e
    /\ UNCHANGED <<pc, now, listed, frameWork, batch, ran, pollVars, deferredVars>>

\* Variant: the entry is not let go of.
TimerCodeReturnsKeeping ==
    /\ running = "timer"
    /\ TickReturns(entry, now)
    /\ running' = "none"
    /\ UNCHANGED <<pc, entry, now, listed, frameWork, batch, ran, pollVars, deferredVars>>

\* A timer's callback returns.
TimerCodeReturns ==
    /\ running = "timer"
    /\ TickReturns(entry, now)
    /\ running' = "none"
    /\ entry' = NoEntry
    /\ UNCHANGED <<pc, now, listed, frameWork, batch, ran, pollVars, deferredVars>>

EndDispatch ==
    /\ AtSource
    /\ at > Len(snapshot)
    /\ pc' = "frame"
    /\ PassIsOver
    /\ UNCHANGED <<codeVars, now, listed, frameWork, batch, ran, deadlines, blocked, timeout,
                   polledAt, asked, deferredVars, timerVars>>

\* Queued frame work and renders are taken and run; both may queue new ones.
DrainFrames ==
    /\ pc = "frame"
    /\ frameWork' = FALSE
    /\ pc' = "drawing"
    /\ UNCHANGED <<codeVars, now, listed, batch, ran, pollVars, deferredVars, timerVars>>

Loop ==
    \/ TakeAtTop \/ RunCall \/ CodeReturns \/ Proceed \/ PreparePoll
    \/ BeginDispatch \/ PassOver
    \/ DispatchDeferred \/ TakeDispatched \/ DispatchTimers \/ DispatchPeriodic
    \/ RunTimer \/ TimerCodeReturns \/ EndDispatch \/ DrainFrames

-----------------------------------------------------------------------------
(* Around the loop *)

Clock ==
    /\ now < MaxTime
    /\ now' = now + 1
    /\ UNCHANGED <<pc, codeVars, listed, frameWork, batch, ran, pollVars, deferredVars,
                   timerVars>>

ThreadCalls(t) ==
    /\ CallLater(t) \/ WakeMainLoop(t)
    /\ UNCHANGED <<pc, codeVars, now, listed, frameWork, batch, ran, pollVars, timerVars>>

Next ==
    \/ Loop \/ Effect
    \/ PollWakes \/ WaylandWakes \/ PollInterrupted
    \/ Clock
    \/ \E t \in Threads : ThreadCalls(t)

Spec == Init /\ [][Next]_vars

\* Callbacks return, poll() wakes for what it was told to, a thread that queued a
\* call goes on to write the byte, and time passes.  Signals do not interrupt every
\* poll() for ever (SF); nothing is assumed of Wayland events and of what callbacks do.
Fairness ==
    /\ WF_vars(Loop) /\ SF_vars(PollWakes) /\ WF_vars(Clock)
    /\ \A t \in Threads : WF_vars(WakeMainLoop(t) /\ ThreadCalls(t))

FairSpec == Spec /\ Fairness

-----------------------------------------------------------------------------
(* Properties *)

\* The loop never sleeps on a deferred call: one that is queued while the loop is
\* in poll() has its byte in the pipe, or its thread is about to write it
\* (callLater(), and the order of draining and taking when it is dispatched).
CallWakesLoop == pc = "poll" /\ pending # <<>> => wakePipe \/ waking # {}

\* The earliest end of the sleep there is.
LeastSleep == IF blocked THEN polledAt + FlushFloor ELSE polledAt

\* The sleep ends by the time the first timer is due, counting the timers that were
\* started since the timer source first voted, and a source that asks for a wake-up
\* after a constant delay gets it that long after it first asked, although other
\* wake-ups make it ask again and again; only a full Wayland socket makes it longer,
\* to FlushFloor.
SleepEnds ==
    pc = "poll" =>
        /\ \A e \in entries :
              timeout >= 0 /\ polledAt + timeout <= Later(e.at, LeastSleep)
        /\ asked >= 0 => timeout >= 0 /\ polledAt + timeout <= Later(asked + Period, LeastSleep)

\* The callback of a timer that cancel() reported as cancelled is not called any more,
\* not even by the tick that had taken it out before an earlier callback of that tick
\* cancelled it, and a repeating timer cancelled by its own callback does not return.  Owners cancel the
\* timers in their destructors and rely on it.
CancelledIsSilent ==
    [][running = "none" /\ running' = "timer" => entry'.id \notin gone]_vars

\* A Timer object has one timer at most: restarting it inside its own callback, or
\* within the tick that is about to call it, leaves no second one behind.
OneTimerEach ==
    \A e \in entries \cup {e \in due : e.id \notin canceled} :
        \E t \in Timers : handle[t] = e.id

\* Every deferred call is run.
CallsAreRun == \A c \in 1..MaxCalls : calls >= c ~> ran >= c

\* Every timer that comes due is taken out of the table.
TimersFire ==
    \A id \in TimerId : (\E e \in entries : e.id = id /\ e.at <= now) ~> id \notin IdsOf(entries)
=============================================================================
