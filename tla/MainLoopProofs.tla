--------------------------- MODULE MainLoopProofs ---------------------------
(***************************************************************************)
(* Proofs about MainLoop: its type invariant, that it never sleeps on a    *)
(* deferred call nor past the time a source asked for, and that a timer    *)
(* that was cancelled stays silent and leaves no second one behind.        *)
(***************************************************************************)
EXTENDS MainLoop, DataLemmas

-----------------------------------------------------------------------------
(* The invariants *)

\* A callback runs and calls are left to run only in the two phases that run
\* calls.
Quiet == pc \notin {"calls", "dispatch"} => running = "none" /\ batch = <<>>

\* Outside the moment between draining the pipe and taking the calls, a queued
\* call has its byte, or a thread that is about to write it.
CallHasByte == pc # "take" /\ pending # <<>> => wakePipe \/ waking # {}

\* The periodic source that waits has a deadline, no later than a period after
\* it began to wait.
AskedIsKept ==
    asked >= 0 => "periodic" \in DOMAIN deadlines /\ deadlines["periodic"] <= asked + Period

\* What the timeout was computed for is still so while the loop is in poll().
SleepInv == Quiet /\ AskedIsKept /\ SleepEnds

\* The timer whose callback runs.
Running == IF entry = NoEntry THEN {} ELSE {entry.id}

\* A timer is in one place: in the table, in the tick or running.
OnePlace ==
    /\ \A e, f \in entries : e.id = f.id => e = f
    /\ \A e, f \in due : e.id = f.id => e = f
    /\ IdsOf(due) \cap Running = {}
    /\ inFlight = IdsOf(due) \cup Running
    /\ IdsOf(entries) \cap inFlight = {}

\* Only timers that a tick has taken out are marked, and no identifier that is
\* yet to be given out is in use.
Marked ==
    /\ canceled \subseteq inFlight
    /\ \A id \in IdsOf(entries) \cup inFlight \cup gone : id < nextTimerId
    /\ \A t \in Timers : handle[t] < nextTimerId

\* A timer that is neither cancelled nor done with has its Timer object.
Held ==
    \A id \in (IdsOf(entries) \cup inFlight) \ canceled : \E t \in Timers : handle[t] = id

\* A timer reported as cancelled has left the table and is marked in the tick.
GoneIsMarked ==
    /\ gone \cap IdsOf(entries) = {}
    /\ gone \cap inFlight \subseteq canceled

TimerInv == OnePlace /\ Marked /\ Held /\ GoneIsMarked

-----------------------------------------------------------------------------
(* Sources and votes *)

LEMMA Sources ==
    /\ CurrentSources \in Seq({"deferred", "timer", "periodic"})
    /\ Len(CurrentSources) <= 3
    /\ ToSet(CurrentSources) = IF listed THEN {"deferred", "timer", "periodic"}
                               ELSE {"deferred", "timer"}
<1>1. CASE listed
  <2> DEFINE S == {"deferred", "timer", "periodic"}
             a == <<"deferred", "timer">>
             b == <<"periodic">>
             s == a \o b
  <2>1. a \in Seq(S) /\ b \in Seq(S) /\ Len(a) = 2 /\ Len(b) = 1
    OBVIOUS
  <2>2. /\ s \in Seq(S) /\ Len(s) = 3 /\ Len(s) <= 3
        /\ \A i \in 1..3 : s[i] = IF i <= 2 THEN a[i] ELSE b[i - 2]
    <3> HIDE DEF a, b, S
    <3>1. /\ s \in Seq(S) /\ Len(s) = Len(a) + Len(b)
          /\ \A i \in 1..(Len(a) + Len(b)) : s[i] = IF i <= Len(a) THEN a[i] ELSE b[i - Len(a)]
      BY <2>1, ConcatProperties, Zenon
    <3> QED BY <2>1, <3>1
  <2>3. DOMAIN s = {1, 2, 3}
    <3> HIDE DEF s
    <3> QED BY <2>2, LenProperties
  <2>4. s[1] = "deferred" /\ s[2] = "timer" /\ s[3] = "periodic"
    BY <2>2
  <2>5. CurrentSources = s
    BY <1>1 DEF CurrentSources
  <2> HIDE DEF s
  <2>6. {s[i] : i \in DOMAIN s} = S
    BY <2>3, <2>4
  <2>7. ToSet(CurrentSources) = S
    BY <2>5, <2>6, Zenon DEF ToSet
  <2> HIDE DEF S
  <2>8. CurrentSources \in Seq(S) /\ Len(CurrentSources) <= 3
    BY <2>2, <2>5, Zenon
  <2> QED BY <1>1, <2>7, <2>8 DEF S
<1>2. CASE ~listed
  <2>1. CurrentSources = <<"deferred", "timer">>
    BY <1>2 DEF CurrentSources
  <2> QED BY <1>2, <2>1 DEF ToSet
<1> QED BY <1>1, <1>2

\* A source that votes asks for a time, and the timer source for none later than
\* the first timer.
LEMMA Votes ==
    ASSUME TypeOK, NEW s \in Voters
    PROVE  /\ s \in {"timer", "periodic"}
           /\ Vote(s) \in Nat
           /\ s = "timer" => \A e \in entries : Vote(s) <= Later(now, e.at)
<1> USE LoopConstants
<1>0. s \in {"timer", "periodic"} /\ (s = "timer" => entries # {})
  BY Sources DEF Voters
<1>1. now \in Nat
  BY DEF TypeOK
<1>2. CASE s = "timer"
  <2> DEFINE T == {e.at : e \in entries}
  <2>1. T \in SUBSET Nat /\ T # {}
    BY <1>0, <1>2 DEF TypeOK, TimerTypeOK, Entry
  <2>2. Min(T) \in T /\ \A y \in T : Min(T) =< y
    <3> HIDE DEF T
    <3> QED BY <2>1, MinIsLeast
  <2>3. Vote(s) = Later(now, Min(T))
    BY <1>2 DEF Vote
  <2>4. \A e \in entries : e.at \in T
    OBVIOUS
  <2> HIDE DEF T
  <2>5. \A e \in entries : Min(T) <= e.at /\ e.at \in Nat /\ Min(T) \in Nat
    BY <2>1, <2>2, <2>4
  <2> QED BY <1>0, <1>1, <1>2, <2>1, <2>2, <2>3, <2>5 DEF Later
<1>3. CASE s = "periodic"
  BY <1>0, <1>1, <1>3 DEF Vote
<1> QED BY <1>0, <1>2, <1>3

LEMMA DeadlineBounds ==
    ASSUME TypeOK, NEW s \in Voters
    PROVE  /\ Deadline(s) \in Nat
           /\ Deadline(s) <= Vote(s)
           /\ s \in DOMAIN deadlines => Deadline(s) <= deadlines[s]
<1>1. Vote(s) \in Nat
  BY Votes
<1>2. s \in DOMAIN deadlines => deadlines[s] \in Nat
  BY DEF TypeOK
<1> QED BY <1>1, <1>2 DEF Deadline, Earlier

\* The loop sleeps no longer than to the deadline of any source, but for the
\* floor of a full Wayland socket.
LEMMA SleepBounds ==
    ASSUME TypeOK, NEW full \in BOOLEAN
    PROVE  /\ Sleep(full) \in Nat \cup {-1}
           /\ \A s \in Voters : /\ Sleep(full) >= 0
                                /\ Sleep(full) <= Later(Later(0, Deadline(s) - now),
                                                        IF full THEN FlushFloor ELSE 0)
<1> USE LoopConstants
<1> DEFINE votes == {Later(0, Deadline(s) - now) : s \in Voters}
           least == IF frameWork THEN 0 ELSE IF votes = {} THEN -1 ELSE Min(votes)
<1>1. \A s \in Voters : Later(0, Deadline(s) - now) \in Nat
  BY DeadlineBounds DEF Later, TypeOK
<1>2. votes \in SUBSET Nat
  BY <1>1
<1>3. votes # {} => Min(votes) \in votes /\ \A v \in votes : Min(votes) =< v
  <2> HIDE DEF votes
  <2> QED BY <1>2, MinIsLeast
<1>4. least \in Nat \cup {-1}
  <2> HIDE DEF votes
  <2> QED BY <1>2, <1>3
<1>5. Sleep(full) = IF full /\ least >= 0 /\ least < FlushFloor THEN FlushFloor ELSE least
  BY DEF Sleep
<1>6. Sleep(full) \in Nat \cup {-1}
  <2> HIDE DEF least
  <2> QED BY <1>4, <1>5
<1>7. ASSUME NEW s \in Voters
      PROVE  /\ Sleep(full) >= 0
             /\ Sleep(full) <= Later(Later(0, Deadline(s) - now), IF full THEN FlushFloor ELSE 0)
  <2> DEFINE v == Later(0, Deadline(s) - now)
  <2>1. v \in votes /\ v \in Nat
    BY <1>1
  <2> HIDE DEF v, votes
  <2>2. least >= 0 /\ least <= v
    <3>1. Min(votes) \in Nat /\ Min(votes) <= v /\ votes # {}
      BY <1>2, <1>3, <2>1
    <3> QED BY <2>1, <3>1
  <2>3. least \in Nat
    BY <1>4, <2>2
  <2> HIDE DEF least
  <2>4. Sleep(full) >= 0 /\ Sleep(full) <= Later(v, IF full THEN FlushFloor ELSE 0)
    BY <1>5, <2>1, <2>2, <2>3 DEF Later
  <2> QED BY <2>4 DEF v
<1> QED BY <1>6, <1>7

-----------------------------------------------------------------------------
(* The type invariant *)

TypeInv == TypeOK /\ Len(snapshot) <= 3

LEMMA NoEntryIsNone == NoEntry \notin Entry
  BY TimerConstants DEF NoEntry, Entry, TimerId, NoTimer

LEMMA CancelType ==
    ASSUME TimerTypeOK, NEW id \in TimerId \cup {NoTimer}, Cancel(id)
    PROVE  /\ canceled' \subseteq TimerId
           /\ gone' \subseteq TimerId
           /\ Without(id) \subseteq Entry
  BY DEF TimerTypeOK, Cancel, Without, IdsOf, Entry

LEMMA CallsType ==
    ASSUME DeferredTypeOK,
           \/ CallLaterOnMain \/ TakePending \/ DrainWakeFd
           \/ \E t \in Threads : CallLater(t) \/ WakeMainLoop(t)
           \/ UNCHANGED deferredVars
    PROVE  DeferredTypeOK'
<1> USE DeferredConstants
<1>1. ASSUME calls < MaxCalls, calls' = calls + 1, pending' = Append(pending, calls')
      PROVE  pending' \in Seq(1..MaxCalls) /\ calls' \in 0..MaxCalls
  <2>1. calls' \in 1..MaxCalls
    BY <1>1 DEF DeferredTypeOK
  <2> QED BY <1>1, <2>1, AppendProperties DEF DeferredTypeOK
<1>2. CASE CallLaterOnMain
  BY <1>1, <1>2 DEF CallLaterOnMain, DeferredTypeOK
<1>3. CASE \E t \in Threads : CallLater(t)
  BY <1>1, <1>3 DEF CallLater, DeferredTypeOK
<1>4. CASE TakePending \/ DrainWakeFd \/ (\E t \in Threads : WakeMainLoop(t))
  BY <1>4, EmptySeq DEF TakePending, DrainWakeFd, WakeMainLoop, DeferredTypeOK
<1>5. CASE UNCHANGED deferredVars
  BY <1>5 DEF deferredVars, DeferredTypeOK
<1> QED BY <1>2, <1>3, <1>4, <1>5

LEMMA StartStopType ==
    ASSUME TypeOK, NEW t \in Timers, NEW d \in Delays, NEW repeating \in BOOLEAN,
           StartTimer(t, now, d, repeating) \/ StopTimer(t)
    PROVE  TimerTypeOK'
<1> USE TimerConstants
<1>1. TimerTypeOK /\ now \in Nat /\ handle[t] \in TimerId \cup {NoTimer}
  BY DEF TypeOK, TimerTypeOK
<1>2. CASE StartTimer(t, now, d, repeating)
  <2>1. nextTimerId \in TimerId
    BY <1>1, <1>2 DEF StartTimer, TimerTypeOK, TimerId
  <2>2. [id |-> nextTimerId, at |-> now + d, interval |-> d, repeating |-> repeating] \in Entry
    BY <1>1, <2>1 DEF Entry
  <2>3. canceled' \subseteq TimerId /\ gone' \subseteq TimerId /\ Without(handle[t]) \subseteq Entry
    BY <1>1, <1>2, CancelType DEF StartTimer
  <2>4. nextTimerId' \in 1..(MaxTimerId + 1)
    BY <1>1, <1>2, <2>1 DEF StartTimer, TimerTypeOK, TimerId
  <2> QED BY <1>1, <1>2, <2>1, <2>2, <2>3, <2>4 DEF StartTimer, TimerTypeOK
<1>3. CASE StopTimer(t)
  <2>1. canceled' \subseteq TimerId /\ gone' \subseteq TimerId /\ Without(handle[t]) \subseteq Entry
    BY <1>1, <1>3, CancelType DEF StopTimer
  <2> QED BY <1>1, <1>3, <2>1 DEF StopTimer, TimerTypeOK
<1> QED BY <1>2, <1>3

LEMMA TickType ==
    ASSUME TypeOK,
           \/ TickBegin(now)
           \/ \E e \in due : TickSkips(e) \/ TickCalls(e)
           \/ entry \in Entry /\ TickReturns(entry, now)
           \/ UNCHANGED timerVars
    PROVE  TimerTypeOK'
<1>1. TimerTypeOK /\ now \in Nat
  BY LoopConstants DEF TypeOK
<1>2. CASE TickBegin(now)
  BY <1>1, <1>2 DEF TickBegin, TimerTypeOK, IdsOf, Entry
<1>3. CASE \E e \in due : TickSkips(e) \/ TickCalls(e)
  BY <1>1, <1>3 DEF TickSkips, TickCalls, TimerTypeOK
<1>4. CASE entry \in Entry /\ TickReturns(entry, now)
  <2>1. [entry EXCEPT !.at = now + entry.interval] \in Entry
    BY <1>1, <1>4 DEF Entry
  <2> QED BY <1>1, <1>4, <2>1 DEF TickReturns, TimerTypeOK
<1>5. CASE UNCHANGED timerVars
  BY <1>1, <1>5 DEF timerVars, TimerTypeOK
<1> QED BY <1>2, <1>3, <1>4, <1>5

\* What the timers and the deferred calls are apart, the types of the loop.
LoopTypeOK ==
    /\ pc \in Phases
    /\ running \in {"none", "call", "timer", "source"}
    /\ entry \in Entry \cup {NoEntry}
    /\ running = "timer" <=> entry # NoEntry
    /\ now \in 0..MaxTime
    /\ listed \in BOOLEAN /\ frameWork \in BOOLEAN
    /\ batch \in Seq(1..MaxCalls)
    /\ ran \in 0..MaxCalls

PollTypeOK ==
    /\ ready \in BOOLEAN /\ blocked \in BOOLEAN
    /\ DOMAIN deadlines \subseteq {"timer", "periodic"}
    /\ \A s \in DOMAIN deadlines : deadlines[s] \in Nat
    /\ snapshot \in Seq({"deferred", "timer", "periodic"}) /\ Len(snapshot) <= 3
    /\ timeout \in Nat \cup {-1}
    /\ polledAt \in Nat /\ nowAfterPoll \in Nat
    /\ at \in 1..4
    /\ asked \in Nat \cup {-1}

LEMMA TypeParts == TypeInv <=> DeferredTypeOK /\ TimerTypeOK /\ LoopTypeOK /\ PollTypeOK
  BY DEF TypeInv, TypeOK, LoopTypeOK, PollTypeOK

LEMMA EffectType == TypeInv /\ Effect => TypeInv'
<1> SUFFICES ASSUME TypeInv, Effect PROVE TypeInv'
  OBVIOUS
<1>0. DeferredTypeOK /\ TimerTypeOK /\ LoopTypeOK /\ PollTypeOK
  BY TypeParts
<1>1. PollTypeOK'
  BY <1>0 DEF Effect, PollTypeOK, pollVars
<1>2. LoopTypeOK'
  <2>1. listed' \in BOOLEAN /\ frameWork' \in BOOLEAN
    BY <1>0 DEF Effect, LoopTypeOK
  <2> QED BY <1>0, <2>1 DEF Effect, LoopTypeOK, codeVars
<1>3. DeferredTypeOK'
  BY <1>0, CallsType DEF Effect
<1>4. TimerTypeOK'
  <2>1. CASE \E t \in Timers, d \in Delays, repeating \in BOOLEAN :
                StartTimer(t, now, d, repeating)
    BY <2>1, StartStopType DEF TypeInv
  <2>2. CASE \E t \in Timers : StopTimer(t)
    BY <2>2, <1>0 DEF StopTimer, TimerTypeOK, Cancel, Without, IdsOf, Entry
  <2>3. CASE UNCHANGED timerVars
    BY <2>3, TickType DEF TypeInv
  <2> QED BY <2>1, <2>2, <2>3 DEF Effect
<1> QED BY <1>1, <1>2, <1>3, <1>4 DEF TypeInv, TypeOK, LoopTypeOK, PollTypeOK

LEMMA PollStepType ==
    ASSUME TypeInv, PreparePoll \/ PollWakes \/ WaylandWakes \/ PollInterrupted
    PROVE  TypeInv'
<1> USE LoopConstants
<1>0. DeferredTypeOK /\ TimerTypeOK /\ LoopTypeOK /\ PollTypeOK
  BY TypeParts
<1>1. UNCHANGED <<codeVars, now, listed, frameWork, batch, ran, deferredVars, timerVars>>
  BY DEF PreparePoll, PollWakes, WaylandWakes, PollReturns, PollInterrupted
<1>2. DeferredTypeOK' /\ TimerTypeOK'
  BY <1>1, TickType, CallsType DEF TypeInv, TypeOK
<1>3. LoopTypeOK'
  <2>1. pc' \in Phases
    BY DEF PreparePoll, PollWakes, WaylandWakes, PollReturns, PollInterrupted, Phases
  <2> QED BY <1>0, <1>1, <2>1 DEF LoopTypeOK, codeVars
<1>4. PollTypeOK'
  <2>1. CASE PreparePoll
    <3>1. snapshot' \in Seq({"deferred", "timer", "periodic"}) /\ Len(snapshot') <= 3
      BY <2>1, Sources DEF PreparePoll
    <3>2. /\ DOMAIN deadlines' \subseteq {"timer", "periodic"}
          /\ \A s \in DOMAIN deadlines' : deadlines'[s] \in Nat
      BY <2>1, Votes, DeadlineBounds DEF PreparePoll, TypeInv
    <3>3. blocked' \in BOOLEAN /\ timeout' \in Nat \cup {-1}
      <4>1. blocked' \in BOOLEAN
        BY <2>1 DEF PreparePoll
      <4>2. TypeOK
        BY DEF TypeInv
      <4>3. \A full \in BOOLEAN : Sleep(full) \in Nat \cup {-1}
        BY <4>2, SleepBounds
      <4> QED BY <2>1, <4>1, <4>3 DEF PreparePoll
    <3>4. polledAt' \in Nat /\ asked' \in Nat \cup {-1}
      BY <1>0, <2>1 DEF PreparePoll, PollTypeOK, LoopTypeOK
    <3> QED BY <1>0, <2>1, <3>1, <3>2, <3>3, <3>4 DEF PreparePoll, PollTypeOK
  <2>2. CASE PollReturns
    BY <1>0, <2>2 DEF PollReturns, PollTypeOK, NotPolling, DeferredTypeOK
  <2>3. CASE PollInterrupted
    <3>1. snapshot' \in Seq({"deferred", "timer", "periodic"}) /\ Len(snapshot') <= 3
      BY <2>3, EmptySeq DEF PollInterrupted, PassIsOver
    <3>2. /\ blocked' \in BOOLEAN /\ timeout' = -1 /\ polledAt' = 0 /\ nowAfterPoll' = 0
          /\ at' = 1 /\ ready' \in BOOLEAN /\ deadlines' = deadlines /\ asked' = asked
      BY <2>3 DEF PollInterrupted, NotPolling, PassIsOver
    <3> QED BY <1>0, <3>1, <3>2 DEF PollTypeOK
  <2> QED BY <2>1, <2>2, <2>3 DEF PollWakes, WaylandWakes
<1> QED BY <1>2, <1>3, <1>4 DEF TypeInv, TypeOK, LoopTypeOK, PollTypeOK

LEMMA DispatchType ==
    ASSUME TypeInv,
           \/ BeginDispatch \/ PassOver \/ DispatchDeferred \/ DispatchTimers
           \/ DispatchPeriodic \/ EndDispatch
    PROVE  TypeInv'
<1> USE LoopConstants
<1>0. DeferredTypeOK /\ TimerTypeOK /\ LoopTypeOK /\ PollTypeOK
  BY TypeParts
<1>1. CASE BeginDispatch
  <2>1. DeferredTypeOK' /\ TimerTypeOK'
    BY <1>1, TickType, CallsType DEF TypeInv, TypeOK, BeginDispatch
  <2>2. LoopTypeOK'
    BY <1>0, <1>1 DEF BeginDispatch, LoopTypeOK, codeVars, Phases
  <2>3. PollTypeOK'
    BY <1>0, <1>1 DEF BeginDispatch, PollTypeOK, LoopTypeOK
  <2> QED BY <2>1, <2>2, <2>3 DEF TypeInv, TypeOK, LoopTypeOK, PollTypeOK
<1>2. CASE PassOver
  <2>1. DeferredTypeOK' /\ TimerTypeOK'
    BY <1>2, TickType, CallsType DEF TypeInv, TypeOK, PassOver
  <2>2. LoopTypeOK'
    BY <1>0, <1>2 DEF PassOver, LoopTypeOK, codeVars
  <2>3. PollTypeOK'
    BY <1>0, <1>2, LenProperties DEF PassOver, PollTypeOK
  <2> QED BY <2>1, <2>2, <2>3 DEF TypeInv, TypeOK, LoopTypeOK, PollTypeOK
<1>3. CASE EndDispatch
  <2>1. DeferredTypeOK' /\ TimerTypeOK'
    BY <1>3, TickType, CallsType DEF TypeInv, TypeOK, EndDispatch
  <2>2. LoopTypeOK'
    BY <1>0, <1>3 DEF EndDispatch, LoopTypeOK, codeVars, Phases
  <2>3. PollTypeOK'
    <3>1. snapshot' \in Seq({"deferred", "timer", "periodic"}) /\ Len(snapshot') <= 3
      BY <1>3, EmptySeq DEF EndDispatch, PassIsOver
    <3>2. /\ UNCHANGED <<blocked, timeout, polledAt, deadlines, asked>>
          /\ at' = 1 /\ ready' \in BOOLEAN /\ nowAfterPoll' = 0
      BY <1>3 DEF EndDispatch, PassIsOver
    <3> QED BY <1>0, <3>1, <3>2 DEF PollTypeOK
  <2> QED BY <2>1, <2>2, <2>3 DEF TypeInv, TypeOK, LoopTypeOK, PollTypeOK
<1>4. ASSUME NEW s, Dispatches(s), asked' \in {asked, -1}
      PROVE  PollTypeOK'
  <2>1. at' \in 1..4
    BY <1>0, <1>4, LenProperties DEF Dispatches, PollTypeOK
  <2>2. /\ DOMAIN deadlines' \subseteq {"timer", "periodic"}
        /\ \A t \in DOMAIN deadlines' : deadlines'[t] \in Nat
    BY <1>0, <1>4 DEF Dispatches, PollTypeOK
  <2> QED BY <1>0, <1>4, <2>1, <2>2 DEF Dispatches, PollTypeOK
<1>5. CASE DispatchDeferred
  <2>1. DeferredTypeOK' /\ TimerTypeOK'
    BY <1>0, <1>5, TickType, CallsType DEF TypeInv, TypeOK, DispatchDeferred
  <2>2. LoopTypeOK'
    BY <1>0, <1>5 DEF DispatchDeferred, Dispatches, LoopTypeOK, codeVars, Phases
  <2>3. PollTypeOK'
    BY <1>4, <1>5 DEF DispatchDeferred
  <2> QED BY <2>1, <2>2, <2>3 DEF TypeInv, TypeOK, LoopTypeOK, PollTypeOK
<1>6. CASE DispatchTimers
  <2>1. DeferredTypeOK' /\ TimerTypeOK'
    BY <1>0, <1>6, TickType, CallsType DEF TypeInv, TypeOK, DispatchTimers
  <2>2. LoopTypeOK'
    BY <1>0, <1>6 DEF DispatchTimers, Dispatches, LoopTypeOK, codeVars
  <2>3. PollTypeOK'
    BY <1>4, <1>6 DEF DispatchTimers
  <2> QED BY <2>1, <2>2, <2>3 DEF TypeInv, TypeOK, LoopTypeOK, PollTypeOK
<1>7. CASE DispatchPeriodic
  <2>1. DeferredTypeOK' /\ TimerTypeOK'
    BY <1>0, <1>7, TickType, CallsType DEF TypeInv, TypeOK, DispatchPeriodic
  <2>2. LoopTypeOK'
    BY <1>0, <1>7 DEF DispatchPeriodic, Dispatches, AtSource, LoopTypeOK
  <2>3. PollTypeOK'
    BY <1>4, <1>7 DEF DispatchPeriodic
  <2> QED BY <2>1, <2>2, <2>3 DEF TypeInv, TypeOK, LoopTypeOK, PollTypeOK
<1> QED BY <1>1, <1>2, <1>3, <1>5, <1>6, <1>7

LEMMA CodeType ==
    ASSUME TypeInv,
           \/ TakeAtTop \/ RunCall \/ CodeReturns \/ Proceed \/ TakeDispatched
           \/ RunTimer \/ TimerCodeReturns \/ DrainFrames \/ Clock
           \/ \E t \in Threads : ThreadCalls(t)
           \/ UNCHANGED vars
    PROVE  TypeInv'
<1> USE LoopConstants
<1>0. DeferredTypeOK /\ TimerTypeOK /\ LoopTypeOK /\ PollTypeOK
  BY TypeParts
<1>1. PollTypeOK'
  <2>1. UNCHANGED pollVars
    BY DEF TakeAtTop, RunCall, CodeReturns, Proceed, TakeDispatched, RunTimer,
           TimerCodeReturns, DrainFrames, Clock, ThreadCalls, vars
  <2> QED BY <1>0, <2>1 DEF PollTypeOK, pollVars
<1>2. DeferredTypeOK'
  BY <1>0, CallsType DEF TakeAtTop, RunCall, CodeReturns, Proceed, TakeDispatched, RunTimer,
           TimerCodeReturns, DrainFrames, Clock, ThreadCalls, vars
<1>3. TimerTypeOK'
  <2>1. CASE RunTimer
    BY <2>1, TickType DEF RunTimer, TypeInv
  <2>2. CASE TimerCodeReturns
    BY <1>0, <2>2, TickType DEF TimerCodeReturns, TypeInv, LoopTypeOK
  <2>3. CASE UNCHANGED timerVars
    BY <2>3, TickType DEF TypeInv
  <2> QED BY <2>1, <2>2, <2>3 DEF TakeAtTop, RunCall, CodeReturns, Proceed, TakeDispatched,
           DrainFrames, Clock, ThreadCalls, vars
<1>4. LoopTypeOK'
  <2> USE <1>0 DEF LoopTypeOK
  <2>1. CASE TakeAtTop \/ TakeDispatched
    BY <2>1 DEF TakeAtTop, TakeDispatched, codeVars, Phases, DeferredTypeOK
  <2>2. CASE RunCall
    <3>1. batch \in Seq(1..MaxCalls) /\ batch # <<>>
      BY <2>2 DEF RunCall
    <3>2. Head(batch) \in 1..MaxCalls /\ Tail(batch) \in Seq(1..MaxCalls)
      BY <3>1, HeadTailProperties
    <3> QED BY <2>2, <3>1, <3>2 DEF RunCall
  <2>3. CASE CodeReturns
    BY <2>3 DEF CodeReturns
  <2>4. CASE Proceed
    BY <2>4 DEF Proceed, codeVars, Phases
  <2>5. CASE RunTimer
    BY <2>5, NoEntryIsNone DEF RunTimer, TickCalls, codeVars, TimerTypeOK
  <2>6. CASE TimerCodeReturns
    BY <2>6 DEF TimerCodeReturns
  <2>7. CASE DrainFrames
    BY <2>7 DEF DrainFrames, codeVars, Phases
  <2>8. CASE Clock
    BY <2>8 DEF Clock, codeVars
  <2>9. CASE \E t \in Threads : ThreadCalls(t)
    BY <2>9 DEF ThreadCalls, codeVars
  <2>10. CASE UNCHANGED vars
    BY <2>10 DEF vars, codeVars
  <2> QED BY <2>1, <2>2, <2>3, <2>4, <2>5, <2>6, <2>7, <2>8, <2>9, <2>10
<1> QED BY <1>1, <1>2, <1>3, <1>4 DEF TypeInv, TypeOK, LoopTypeOK, PollTypeOK

LEMMA TypeInit == Init => TypeInv
<1> SUFFICES ASSUME Init PROVE TypeInv
  OBVIOUS
<1>1. DeferredTypeOK
  <2>1. pending \in Seq(1..MaxCalls)
    BY EmptySeq DEF Init, DeferredInit
  <2>2. waking = {} /\ wakePipe \in BOOLEAN /\ calls = 0
    BY DEF Init, DeferredInit
  <2> QED BY <2>1, <2>2, DeferredConstants DEF DeferredTypeOK
<1>2. TimerTypeOK
  BY TimerConstants DEF Init, TimerInit, TimerTypeOK
<1>3. LoopTypeOK
  BY LoopConstants, DeferredConstants, EmptySeq DEF Init, LoopTypeOK, Phases
<1>4. PollTypeOK
  <2>1. snapshot \in Seq({"deferred", "timer", "periodic"}) /\ Len(snapshot) <= 3
    BY EmptySeq DEF Init
  <2>2. /\ blocked \in BOOLEAN /\ timeout = -1 /\ polledAt = 0 /\ nowAfterPoll = 0
        /\ ready \in BOOLEAN /\ at = 1 /\ asked = -1 /\ deadlines = NoDeadlines
    BY DEF Init
  <2> QED BY <2>1, <2>2, LoopConstants DEF PollTypeOK, NoDeadlines
<1> QED BY <1>1, <1>2, <1>3, <1>4, TypeParts

LEMMA TypeStep == TypeInv /\ [Next]_vars => TypeInv'
  BY EffectType, PollStepType, DispatchType, CodeType DEF Next, Loop

\* The values of the loop's state are the ones the code's types allow.
THEOREM TypeCorrect == Spec => []TypeOK
<1>1. TypeInv => TypeOK
  BY DEF TypeInv
<1> QED BY <1>1, TypeInit, TypeStep, PTL DEF Spec

-----------------------------------------------------------------------------
(* The loop never sleeps on a call *)

LEMMA ByteStep == CallHasByte /\ [Next]_vars => CallHasByte'
<1> SUFFICES ASSUME CallHasByte, [Next]_vars PROVE CallHasByte'
  OBVIOUS
<1> USE DEF CallHasByte
<1>1. CASE TakeAtTop \/ TakeDispatched
  BY <1>1 DEF TakeAtTop, TakeDispatched, TakePending
<1>2. CASE DispatchDeferred
  BY <1>2 DEF DispatchDeferred
<1>3. CASE Effect
  <2>1. pc' = pc /\ (CallLaterOnMain \/ UNCHANGED deferredVars)
    BY <1>3 DEF Effect
  <2> QED BY <2>1 DEF CallLaterOnMain, deferredVars
<1>4. CASE \E t \in Threads : ThreadCalls(t)
  BY <1>4 DEF ThreadCalls, CallLater, WakeMainLoop
<1>5. CASE \/ RunCall \/ CodeReturns \/ Proceed \/ PreparePoll \/ PollWakes \/ WaylandWakes
           \/ PollInterrupted \/ BeginDispatch \/ PassOver \/ DispatchTimers
           \/ DispatchPeriodic \/ RunTimer \/ TimerCodeReturns \/ EndDispatch
           \/ DrainFrames \/ Clock \/ UNCHANGED vars
  <2>1. UNCHANGED deferredVars
    BY <1>5 DEF RunCall, CodeReturns, Proceed, PreparePoll, PollWakes, WaylandWakes, PollReturns,
           PollInterrupted, BeginDispatch, PassOver, DispatchTimers, DispatchPeriodic,
           RunTimer, TimerCodeReturns, EndDispatch, DrainFrames, Clock, vars
  <2>2. pc' = pc \/ pc # "take"
    BY <1>5 DEF Proceed, PreparePoll, PollWakes, WaylandWakes, PollReturns, PollInterrupted,
           BeginDispatch, PassOver, DispatchTimers, DispatchPeriodic, AtSource, Dispatches,
           RunCall, CodeReturns, RunTimer, TimerCodeReturns, EndDispatch, DrainFrames,
           Clock, vars
  <2> QED BY <2>1, <2>2 DEF deferredVars
<1> QED BY <1>1, <1>2, <1>3, <1>4, <1>5 DEF Next, Loop

\* A call that is queued while the loop is in poll() has its byte in the pipe, or
\* a thread that is about to write it: the order of draining the pipe and taking
\* the calls, and of queueing and writing, loses no wake-up.
THEOREM NoLostCall == Spec => []CallWakesLoop
<1>1. Init => CallHasByte
  BY DEF Init, DeferredInit, CallHasByte
<1>2. CallHasByte => CallWakesLoop
  BY DEF CallHasByte, CallWakesLoop
<1> QED BY <1>1, <1>2, ByteStep, PTL DEF Spec

-----------------------------------------------------------------------------
(* The sleep ends in time *)

LEMMA QuietStep == Quiet /\ [Next]_vars => Quiet'
<1> SUFFICES ASSUME Quiet, [Next]_vars PROVE Quiet'
  OBVIOUS
<1> USE DEF Quiet
<1>1. CASE TakeAtTop \/ TakeDispatched
  BY <1>1 DEF TakeAtTop, TakeDispatched
<1>2. CASE RunCall \/ CodeReturns \/ RunTimer \/ TimerCodeReturns
  BY <1>2 DEF RunCall, CodeReturns, RunTimer, TimerCodeReturns, codeVars
<1>3. CASE PreparePoll \/ PollWakes \/ WaylandWakes \/ PollInterrupted \/ BeginDispatch
  BY <1>3 DEF PreparePoll, PollWakes, WaylandWakes, PollReturns, PollInterrupted,
              BeginDispatch, codeVars
<1>4. CASE \/ PassOver \/ DispatchDeferred \/ DispatchTimers \/ DispatchPeriodic
           \/ EndDispatch \/ DrainFrames \/ Proceed
  BY <1>4 DEF PassOver, DispatchDeferred, DispatchTimers, DispatchPeriodic, EndDispatch,
              DrainFrames, Proceed, Dispatches, AtSource, codeVars
<1>5. CASE Effect \/ Clock \/ (\E t \in Threads : ThreadCalls(t)) \/ UNCHANGED vars
  BY <1>5 DEF Effect, Clock, ThreadCalls, vars, codeVars
<1> QED BY <1>1, <1>2, <1>3, <1>4, <1>5 DEF Next, Loop

\* What the sleep is computed from holds from then on: outside PreparePoll, a step
\* only forgets the deadline of a source it dispatches.
LEMMA PrepareSleep ==
    ASSUME TypeOK, AskedIsKept, PreparePoll
    PROVE  AskedIsKept' /\ SleepEnds'
<1> USE LoopConstants
<1>0. /\ now \in Nat /\ listed \in BOOLEAN /\ asked \in Nat \cup {-1}
      /\ \A e \in entries : e.at \in Nat
  BY DEF TypeOK, TimerTypeOK, Entry
<1>1. /\ deadlines' = [s \in Voters |-> Deadline(s)]
      /\ timeout' = Sleep(blocked') /\ blocked' \in BOOLEAN
      /\ polledAt' = now /\ UNCHANGED entries
      /\ asked' = IF ~listed THEN -1 ELSE IF asked = -1 THEN now ELSE asked
  BY DEF PreparePoll, timerVars
<1>2. listed => "periodic" \in Voters
  BY Sources DEF Voters
<1>3. entries # {} => "timer" \in Voters
  BY Sources DEF Voters
<1>4. "periodic" \in Voters => /\ Deadline("periodic") \in Nat
                               /\ Deadline("periodic") <= now + Period
                               /\ asked >= 0 => Deadline("periodic") <= asked + Period
  <2> SUFFICES ASSUME "periodic" \in Voters
               PROVE  /\ Deadline("periodic") \in Nat
                      /\ Deadline("periodic") <= now + Period
                      /\ asked >= 0 => Deadline("periodic") <= asked + Period
    OBVIOUS
  <2>1. Vote("periodic") = now + Period
    BY DEF Vote
  <2>2. /\ Deadline("periodic") \in Nat
        /\ Deadline("periodic") <= Vote("periodic")
        /\ "periodic" \in DOMAIN deadlines => Deadline("periodic") <= deadlines["periodic"]
    BY DeadlineBounds
  <2>3. "periodic" \in DOMAIN deadlines => deadlines["periodic"] \in Nat
    BY DEF TypeOK
  <2> QED BY <1>0, <2>1, <2>2, <2>3 DEF AskedIsKept
<1>5. AskedIsKept'
  BY <1>0, <1>1, <1>2, <1>4 DEF AskedIsKept
<1>6. \A s \in Voters : /\ timeout' >= 0
                        /\ timeout' <= Later(Later(0, Deadline(s) - now),
                                             IF blocked' THEN FlushFloor ELSE 0)
  BY <1>1, SleepBounds
<1>7. timeout' \in Nat \cup {-1}
  BY <1>1, SleepBounds
<1>8. ASSUME NEW e \in entries
      PROVE  timeout' >= 0 /\ polledAt' + timeout' <= Later(e.at, LeastSleep')
  <2>1. "timer" \in Voters
    BY <1>3
  <2>2. Deadline("timer") \in Nat /\ Deadline("timer") <= Later(now, e.at)
    <3>1. Vote("timer") \in Nat /\ Vote("timer") <= Later(now, e.at)
      BY <2>1, Votes
    <3>2. Deadline("timer") \in Nat /\ Deadline("timer") <= Vote("timer")
      BY <2>1, DeadlineBounds
    <3> QED BY <1>0, <3>1, <3>2 DEF Later
  <2>3. timeout' >= 0 /\ timeout' <= Later(Later(0, Deadline("timer") - now),
                                           IF blocked' THEN FlushFloor ELSE 0)
    BY <1>6, <2>1
  <2> QED BY <1>0, <1>1, <1>7, <2>2, <2>3 DEF Later, LeastSleep
<1>9. asked' >= 0 => timeout' >= 0 /\ polledAt' + timeout' <= Later(asked' + Period, LeastSleep')
  <2> SUFFICES ASSUME asked' >= 0
               PROVE  timeout' >= 0 /\ polledAt' + timeout' <= Later(asked' + Period, LeastSleep')
    OBVIOUS
  <2>1. "periodic" \in Voters /\ asked' \in Nat
    BY <1>0, <1>1, <1>2
  <2>2. Deadline("periodic") \in Nat /\ Deadline("periodic") <= asked' + Period
    BY <1>0, <1>1, <1>4, <2>1
  <2>3. timeout' >= 0 /\ timeout' <= Later(Later(0, Deadline("periodic") - now),
                                           IF blocked' THEN FlushFloor ELSE 0)
    BY <1>6, <2>1
  <2> QED BY <1>0, <1>1, <1>7, <2>1, <2>2, <2>3 DEF Later, LeastSleep
<1> QED BY <1>1, <1>5, <1>8, <1>9 DEF SleepEnds

LEMMA SleepStep == TypeInv /\ SleepInv /\ [Next]_vars => SleepInv'
<1> SUFFICES ASSUME TypeInv, SleepInv, [Next]_vars PROVE SleepInv'
  OBVIOUS
<1>0. TypeOK /\ Quiet /\ AskedIsKept /\ SleepEnds
  BY DEF TypeInv, SleepInv
<1>q. Quiet'
  BY <1>0, QuietStep
<1>1. CASE PreparePoll
  BY <1>0, <1>1, <1>q, PrepareSleep DEF SleepInv
<1>2. CASE DispatchDeferred \/ DispatchTimers \/ DispatchPeriodic
  <2>1. pc' # "poll"
    BY <1>2 DEF DispatchDeferred, DispatchTimers, DispatchPeriodic, Dispatches, AtSource
  <2>2. AskedIsKept'
    <3>1. CASE DispatchDeferred
      BY <1>0, <3>1 DEF DispatchDeferred, Dispatches, AskedIsKept
    <3>2. CASE DispatchTimers
      BY <1>0, <3>2 DEF DispatchTimers, Dispatches, AskedIsKept
    <3>3. CASE DispatchPeriodic
      BY <3>3 DEF DispatchPeriodic, AskedIsKept
    <3> QED BY <1>2, <3>1, <3>2, <3>3
  <2> QED BY <1>q, <2>1, <2>2 DEF SleepInv, SleepEnds
<1>3. CASE \/ TakeAtTop \/ Proceed \/ PollWakes \/ WaylandWakes \/ PollInterrupted
           \/ BeginDispatch \/ PassOver \/ TakeDispatched \/ EndDispatch \/ DrainFrames
           \/ RunTimer \/ RunCall \/ CodeReturns \/ TimerCodeReturns \/ Effect
  <2>1. pc' # "poll"
    BY <1>0, <1>3 DEF TakeAtTop, Proceed, PollWakes, WaylandWakes, PollReturns, PollInterrupted,
           BeginDispatch, PassOver, AtSource, TakeDispatched, EndDispatch, DrainFrames,
           RunTimer, RunCall, CodeReturns, TimerCodeReturns, Effect, InCode, Quiet
  <2>2. UNCHANGED <<deadlines, asked>>
    BY <1>3 DEF TakeAtTop, Proceed, PollWakes, WaylandWakes, PollReturns, PollInterrupted,
           BeginDispatch, PassOver, TakeDispatched, EndDispatch, DrainFrames,
           RunTimer, RunCall, CodeReturns, TimerCodeReturns, Effect, pollVars
  <2> QED BY <1>0, <1>q, <2>1, <2>2 DEF SleepInv, SleepEnds, AskedIsKept
<1>4. CASE Clock \/ (\E t \in Threads : ThreadCalls(t)) \/ UNCHANGED vars
  <2>1. UNCHANGED <<pc, entries, deadlines, timeout, polledAt, blocked, asked>>
    BY <1>4 DEF Clock, ThreadCalls, vars, pollVars, timerVars
  <2> QED BY <1>0, <1>q, <2>1 DEF SleepInv, SleepEnds, LeastSleep, AskedIsKept
<1> QED BY <1>1, <1>2, <1>3, <1>4 DEF Next, Loop

\* The loop wakes by the time the first timer is due and gives the periodic source
\* its delay, whatever wake-ups come between.
THEOREM SleepIsBounded == Spec => []SleepEnds
<1>1. Init => SleepInv
  BY DEF Init, SleepInv, Quiet, AskedIsKept, SleepEnds
<1>2. SleepInv => SleepEnds
  BY DEF SleepInv
<1> QED BY <1>1, <1>2, TypeInit, TypeStep, SleepStep, PTL DEF Spec

-----------------------------------------------------------------------------
(* Timers *)

\* Starting or stopping a timer takes the one the object had out of the table or
\* marks it, so that no timer is left without an object.
LEMMA CancelStep ==
    ASSUME TypeOK, TimerInv, NEW t \in Timers, Cancel(handle[t]), UNCHANGED inFlight
    PROVE  /\ canceled' \subseteq inFlight
           /\ \A id \in gone' : id < nextTimerId
           /\ gone' \cap IdsOf(Without(handle[t])) = {}
           /\ gone' \cap inFlight \subseteq canceled'
           /\ \A id \in (IdsOf(Without(handle[t])) \cup inFlight) \ canceled' :
                 id # handle[t] /\ \E u \in Timers : handle[u] = id
<1> DEFINE h == handle[t]
<1>1. canceled' = IF h \notin IdsOf(entries) /\ h \in inFlight THEN canceled \cup {h} ELSE canceled
  BY DEF Cancel
<1>2. gone' = IF h \in IdsOf(entries) \/ h \in inFlight THEN gone \cup {h} ELSE gone
  BY Zenon DEF Cancel
<1>3. IdsOf(Without(h)) = IdsOf(entries) \ {h}
  BY DEF IdsOf, Without
<1>4. h < nextTimerId
  BY DEF TimerInv, Marked
<1> HIDE DEF h
<1>5. canceled \subseteq inFlight /\ IdsOf(entries) \cap inFlight = {}
  BY DEF TimerInv, Marked, OnePlace
<1>6. gone \cap IdsOf(entries) = {} /\ gone \cap inFlight \subseteq canceled
  BY DEF TimerInv, GoneIsMarked
<1>7. \A id \in gone : id < nextTimerId
  BY DEF TimerInv, Marked
<1>8. \A id \in (IdsOf(entries) \cup inFlight) \ canceled : \E u \in Timers : handle[u] = id
  BY DEF TimerInv, Held
<1>9. /\ canceled' \subseteq inFlight
      /\ gone' \cap (IdsOf(entries) \ {h}) = {}
      /\ gone' \cap inFlight \subseteq canceled'
  BY <1>1, <1>2, <1>5, <1>6
<1>10. \A id \in gone' : id < nextTimerId
  BY <1>2, <1>4, <1>7
<1>11. ASSUME NEW id \in ((IdsOf(entries) \ {h}) \cup inFlight) \ canceled'
       PROVE  id # h /\ \E u \in Timers : handle[u] = id
  <2>1. id # h
    BY <1>1, <1>5, <1>11
  <2>2. id \in (IdsOf(entries) \cup inFlight) \ canceled
    BY <1>1, <1>11
  <2> QED BY <1>8, <2>1, <2>2
<1> QED BY <1>3, <1>9, <1>10, <1>11 DEF h

LEMMA StartStep ==
    ASSUME TypeInv, TimerInv, NEW t \in Timers, NEW d \in Delays, NEW repeating \in BOOLEAN,
           StartTimer(t, now, d, repeating), UNCHANGED entry
    PROVE  TimerInv'
<1> DEFINE new == [id |-> nextTimerId, at |-> now + d, interval |-> d, repeating |-> repeating]
<1>1. /\ entries' = Without(handle[t]) \cup {new}
      /\ handle' = [handle EXCEPT ![t] = nextTimerId]
      /\ nextTimerId' = nextTimerId + 1
      /\ UNCHANGED <<due, inFlight>>
      /\ new.id = nextTimerId
  BY DEF StartTimer
<1>2. /\ canceled' \subseteq inFlight
      /\ \A id \in gone' : id < nextTimerId
      /\ gone' \cap IdsOf(Without(handle[t])) = {}
      /\ gone' \cap inFlight \subseteq canceled'
      /\ \A id \in (IdsOf(Without(handle[t])) \cup inFlight) \ canceled' :
            id # handle[t] /\ \E u \in Timers : handle[u] = id
  BY CancelStep DEF StartTimer, TypeInv
<1>3. nextTimerId \in Nat /\ handle \in [Timers -> TimerId \cup {NoTimer}]
  BY DEF TypeInv, TypeOK, TimerTypeOK
<1> HIDE DEF new
<1>4. IdsOf(entries') = IdsOf(Without(handle[t])) \cup {nextTimerId}
  BY <1>1 DEF IdsOf
<1>5. Without(handle[t]) \subseteq entries /\ IdsOf(Without(handle[t])) \subseteq IdsOf(entries)
  BY DEF Without, IdsOf
<1>6. /\ \A id \in IdsOf(entries) \cup inFlight \cup gone : id < nextTimerId /\ id \in Nat
      /\ \A u \in Timers : handle[u] < nextTimerId /\ handle[u] \in Nat
      /\ \A id \in gone' : id \in Nat
  <2>1. IdsOf(entries) \subseteq Nat /\ inFlight \subseteq Nat /\ gone \subseteq Nat
    BY DEF TypeInv, TypeOK, TimerTypeOK, Entry, IdsOf, TimerId
  <2>2. \A u \in Timers : handle[u] \in Nat
    BY <1>3 DEF TimerId, NoTimer
  <2>3. gone' \subseteq Nat
    BY <2>1, <2>2 DEF StartTimer, Cancel
  <2> QED BY <2>1, <2>2, <2>3 DEF TimerInv, Marked
<1>7. nextTimerId \notin IdsOf(entries) \cup inFlight \cup gone \cup gone'
  BY <1>2, <1>3, <1>6
<1>8. OnePlace'
  <2>1. \A e, f \in entries' : e.id = f.id => e = f
    <3>1. \A e \in entries : e.id # nextTimerId
      BY <1>7 DEF IdsOf
    <3> QED BY <1>1, <1>5, <3>1 DEF TimerInv, OnePlace
  <2>2. UNCHANGED <<IdsOf(due), Running>>
    BY <1>1 DEF IdsOf, Running
  <2>3. IdsOf(entries') \cap inFlight' = {}
    <3>1. nextTimerId \notin inFlight /\ IdsOf(entries) \cap inFlight = {}
      BY <1>7 DEF TimerInv, OnePlace
    <3>2. inFlight' = inFlight
      BY <1>1
    <3> QED BY <1>4, <1>5, <3>1, <3>2
  <2> QED BY <1>1, <2>1, <2>2, <2>3 DEF TimerInv, OnePlace
<1>9. Marked'
  <2>1. \A id \in IdsOf(entries') \cup inFlight' \cup gone' : id < nextTimerId'
    BY <1>1, <1>2, <1>3, <1>4, <1>5, <1>6
  <2>2. \A u \in Timers : handle'[u] < nextTimerId'
    BY <1>1, <1>3, <1>6
  <2> QED BY <1>1, <1>2, <2>1, <2>2 DEF Marked
<1>10. Held'
  <2> SUFFICES ASSUME NEW id \in (IdsOf(entries') \cup inFlight') \ canceled'
               PROVE  \E u \in Timers : handle'[u] = id
    BY DEF Held
  <2>1. CASE id = nextTimerId
    BY <1>1, <1>3, <2>1
  <2>2. CASE id # nextTimerId
    <3>1. id # handle[t] /\ \E u \in Timers : handle[u] = id
      BY <1>1, <1>2, <1>4, <2>2
    <3>2. PICK u \in Timers : handle[u] = id
      BY <3>1
    <3> QED BY <1>1, <1>3, <3>1, <3>2
  <2> QED BY <2>1, <2>2
<1>11. GoneIsMarked'
  BY <1>1, <1>2, <1>4, <1>7 DEF GoneIsMarked
<1> QED BY <1>8, <1>9, <1>10, <1>11 DEF TimerInv

LEMMA StopStep ==
    ASSUME TypeInv, TimerInv, NEW t \in Timers, StopTimer(t), UNCHANGED entry
    PROVE  TimerInv'
<1>1. /\ entries' = Without(handle[t])
      /\ handle' = [handle EXCEPT ![t] = NoTimer]
      /\ UNCHANGED <<due, inFlight, nextTimerId>>
  BY DEF StopTimer
<1>2. /\ canceled' \subseteq inFlight
      /\ \A id \in gone' : id < nextTimerId
      /\ gone' \cap IdsOf(Without(handle[t])) = {}
      /\ gone' \cap inFlight \subseteq canceled'
      /\ \A id \in (IdsOf(Without(handle[t])) \cup inFlight) \ canceled' :
            id # handle[t] /\ \E u \in Timers : handle[u] = id
  BY CancelStep DEF StopTimer, TypeInv
<1>3. nextTimerId \in Nat \ {0} /\ handle \in [Timers -> TimerId \cup {NoTimer}]
  BY DEF TypeInv, TypeOK, TimerTypeOK
<1>4. Without(handle[t]) \subseteq entries /\ IdsOf(Without(handle[t])) \subseteq IdsOf(entries)
  BY DEF Without, IdsOf
<1>5. IdsOf(entries') = IdsOf(Without(handle[t]))
  BY <1>1
<1>6. OnePlace'
  <2>1. UNCHANGED <<IdsOf(due), Running>>
    BY <1>1 DEF IdsOf, Running
  <2> QED BY <1>1, <1>4, <1>5, <2>1 DEF TimerInv, OnePlace
<1>7. Marked'
  <2>1. \A u \in Timers : handle'[u] < nextTimerId
    BY <1>1, <1>3 DEF TimerInv, Marked, NoTimer
  <2> QED BY <1>1, <1>2, <1>4, <1>5, <2>1 DEF TimerInv, Marked
<1>8. Held'
  <2> SUFFICES ASSUME NEW id \in (IdsOf(entries') \cup inFlight') \ canceled'
               PROVE  \E u \in Timers : handle'[u] = id
    BY DEF Held
  <2>1. id # handle[t] /\ \E u \in Timers : handle[u] = id
    BY <1>1, <1>2, <1>5
  <2>2. PICK u \in Timers : handle[u] = id
    BY <2>1
  <2> QED BY <1>1, <1>3, <2>1, <2>2
<1>9. GoneIsMarked'
  BY <1>1, <1>2, <1>5 DEF GoneIsMarked
<1> QED BY <1>6, <1>7, <1>8, <1>9 DEF TimerInv

\* A tick begins when nothing of the last one is left.
LEMMA TickBeginStep ==
    ASSUME TypeInv, TimerInv, TickBegin(now), due = {}, entry = NoEntry, UNCHANGED entry
    PROVE  TimerInv'
<1>1. /\ due' \subseteq entries /\ entries' = entries \ due'
      /\ inFlight' = inFlight \cup IdsOf(due')
      /\ UNCHANGED <<handle, canceled, nextTimerId, gone>>
  BY DEF TickBegin
<1>2. Running = {} /\ Running' = {}
  BY DEF Running
<1>3. inFlight = {} /\ canceled = {}
  BY <1>2 DEF TimerInv, OnePlace, Marked, IdsOf
<1>4. IdsOf(due') \subseteq IdsOf(entries) /\ IdsOf(entries') \subseteq IdsOf(entries)
  BY <1>1 DEF IdsOf
<1>5. IdsOf(entries') \cap IdsOf(due') = {}
  <2> SUFFICES ASSUME NEW e \in entries', NEW f \in due', e.id = f.id PROVE FALSE
    BY DEF IdsOf
  <2>1. e \in entries /\ f \in entries /\ e # f
    BY <1>1
  <2> QED BY <2>1 DEF TimerInv, OnePlace
<1>6. OnePlace'
  BY <1>1, <1>2, <1>3, <1>5 DEF TimerInv, OnePlace
<1>7. Marked'
  BY <1>1, <1>3, <1>4 DEF TimerInv, Marked
<1>8. Held'
  BY <1>1, <1>3, <1>4 DEF TimerInv, Held
<1>9. GoneIsMarked'
  BY <1>1, <1>3, <1>4 DEF TimerInv, GoneIsMarked
<1> QED BY <1>6, <1>7, <1>8, <1>9 DEF TimerInv

\* Taking an entry off the tick takes its identifier off the entries that are left.
LEMMA OffTheTick ==
    ASSUME OnePlace, NEW e \in due
    PROVE  /\ IdsOf(due \ {e}) = IdsOf(due) \ {e.id}
           /\ e.id \in inFlight
<1>1. \A f \in due : f.id = e.id => f = e
  BY DEF OnePlace
<1> QED BY <1>1 DEF OnePlace, IdsOf

LEMMA TickSkipsStep ==
    ASSUME TimerInv, NEW e \in due, TickSkips(e), entry = NoEntry, UNCHANGED entry
    PROVE  TimerInv'
<1>1. /\ due' = due \ {e}
      /\ canceled' = canceled \ {e.id}
      /\ inFlight' = inFlight \ {e.id}
      /\ UNCHANGED <<handle, entries, nextTimerId, gone>>
  BY DEF TickSkips
<1>2. IdsOf(due') = IdsOf(due) \ {e.id} /\ Running = {} /\ Running' = {}
  BY <1>1, OffTheTick DEF TimerInv, Running
<1>3. IdsOf(entries') = IdsOf(entries)
  BY <1>1
<1>4. OnePlace'
  BY <1>1, <1>2, <1>3 DEF TimerInv, OnePlace
<1>5. Marked'
  BY <1>1, <1>3 DEF TimerInv, Marked
<1>6. Held'
  <2>1. e.id \notin IdsOf(entries)
    BY OffTheTick DEF TimerInv, OnePlace
  <2> QED BY <1>1, <1>3, <2>1 DEF TimerInv, Held
<1>7. GoneIsMarked'
  BY <1>1, <1>3 DEF TimerInv, GoneIsMarked
<1> QED BY <1>4, <1>5, <1>6, <1>7 DEF TimerInv

LEMMA TickCallsStep ==
    ASSUME TypeInv, TimerInv, NEW e \in due, TickCalls(e), entry = NoEntry, entry' = e
    PROVE  TimerInv'
<1>1. due' = due \ {e} /\ UNCHANGED <<handle, entries, inFlight, canceled, nextTimerId, gone>>
  BY DEF TickCalls
<1>2. IdsOf(due') = IdsOf(due) \ {e.id} /\ e.id \in inFlight
  BY <1>1, OffTheTick DEF TimerInv
<1>3. e # NoEntry
  BY NoEntryIsNone DEF TypeInv, TypeOK, TimerTypeOK
<1>4. Running = {} /\ Running' = {e.id}
  BY <1>3 DEF Running
<1>5. IdsOf(entries') = IdsOf(entries)
  BY <1>1
<1>6. OnePlace'
  <2>1. /\ \A d, f \in entries' : d.id = f.id => d = f
        /\ \A d, f \in due' : d.id = f.id => d = f
    BY <1>1 DEF TimerInv, OnePlace
  <2>2. inFlight' = IdsOf(due') \cup Running'
    BY <1>1, <1>2, <1>4 DEF TimerInv, OnePlace
  <2>3. IdsOf(entries') \cap inFlight' = {}
    BY <1>1, <1>5 DEF TimerInv, OnePlace
  <2> QED BY <1>2, <1>4, <2>1, <2>2, <2>3 DEF OnePlace
<1> QED BY <1>1, <1>5, <1>6 DEF TimerInv, Marked, Held, GoneIsMarked

LEMMA TickReturnsStep ==
    ASSUME TypeInv, TimerInv, entry \in Entry, TickReturns(entry, now), entry' = NoEntry
    PROVE  TimerInv'
<1> DEFINE again == [entry EXCEPT !.at = now + entry.interval]
           id == entry.id
<1>1. /\ entries' = IF Rearms(entry) THEN entries \cup {again} ELSE entries
      /\ canceled' = canceled \ {id}
      /\ inFlight' = inFlight \ {id}
      /\ UNCHANGED <<handle, due, nextTimerId, gone>>
  BY DEF TickReturns
<1>2. again.id = id
  BY DEF Entry
<1> HIDE DEF again
<1>3. Running = {id} /\ Running' = {}
  BY NoEntryIsNone DEF Running
<1>4. id \in inFlight /\ id \notin IdsOf(due) /\ id \notin IdsOf(entries)
  BY <1>3 DEF TimerInv, OnePlace
<1>5. IdsOf(entries') = IF Rearms(entry) THEN IdsOf(entries) \cup {id} ELSE IdsOf(entries)
  BY <1>1, <1>2 DEF IdsOf
<1>6. Rearms(entry) => id \notin canceled
  BY DEF Rearms
<1> HIDE DEF id
<1>7. IdsOf(due') = IdsOf(due)
  BY <1>1
<1>8. OnePlace'
  <2>1. \A e, f \in entries' : e.id = f.id => e = f
    <3>1. \A e \in entries : e.id # id
      BY <1>4 DEF IdsOf
    <3> QED BY <1>1, <1>2, <3>1 DEF TimerInv, OnePlace
  <2>2. inFlight' = IdsOf(due') \cup Running'
    BY <1>1, <1>3, <1>4, <1>7 DEF TimerInv, OnePlace
  <2>3. IdsOf(entries') \cap inFlight' = {}
    BY <1>1, <1>5 DEF TimerInv, OnePlace
  <2> QED BY <1>1, <1>3, <2>1, <2>2, <2>3 DEF TimerInv, OnePlace
<1>9. Marked'
  BY <1>1, <1>4, <1>5 DEF TimerInv, Marked
<1>10. Held'
  BY <1>1, <1>4, <1>5, <1>6 DEF TimerInv, Held
<1>11. GoneIsMarked'
  BY <1>1, <1>4, <1>5, <1>6 DEF TimerInv, GoneIsMarked
<1> QED BY <1>8, <1>9, <1>10, <1>11 DEF TimerInv

LEMMA TimerStep == TypeInv /\ TimerInv /\ [Next]_vars => TimerInv'
<1> SUFFICES ASSUME TypeInv, TimerInv, [Next]_vars PROVE TimerInv'
  OBVIOUS
<1>0. running = "timer" <=> entry # NoEntry
  BY DEF TypeInv, TypeOK
<1>1. CASE \E t \in Timers, d \in Delays, repeating \in BOOLEAN :
              StartTimer(t, now, d, repeating) /\ UNCHANGED entry
  BY <1>1, StartStep
<1>2. CASE \E t \in Timers : StopTimer(t) /\ UNCHANGED entry
  BY <1>2, StopStep
<1>3. CASE DispatchTimers
  BY <1>0, <1>3, TickBeginStep DEF DispatchTimers, Dispatches, AtSource, codeVars
<1>4. CASE RunTimer
  <2>1. PICK e \in due : \/ TickSkips(e) /\ UNCHANGED codeVars
                         \/ TickCalls(e) /\ running' = "timer" /\ entry' = e
    BY <1>4 DEF RunTimer
  <2>2. entry = NoEntry
    BY <1>0, <1>4 DEF RunTimer
  <2> QED BY <2>1, <2>2, TickSkipsStep, TickCallsStep DEF codeVars
<1>5. CASE TimerCodeReturns
  BY <1>0, <1>5, TickReturnsStep DEF TimerCodeReturns, TypeInv, TypeOK
<1>6. CASE UNCHANGED <<timerVars, entry>>
  <2>1. UNCHANGED <<handle, entries, due, inFlight, canceled, nextTimerId, gone, entry>>
    BY <1>6 DEF timerVars
  <2> QED BY <2>1 DEF TimerInv, OnePlace, Marked, Held, GoneIsMarked, Running
<1>7. CASE Effect
  BY <1>1, <1>2, <1>6, <1>7 DEF Effect, codeVars
<1> QED BY <1>3, <1>4, <1>5, <1>6, <1>7 DEF Next, Loop, TakeAtTop, RunCall, CodeReturns,
       Proceed, PreparePoll, PollWakes, WaylandWakes, PollReturns, PollInterrupted,
       BeginDispatch, PassOver, DispatchDeferred, TakeDispatched, DispatchPeriodic,
       EndDispatch, DrainFrames, Clock, ThreadCalls, vars, codeVars

LEMMA TimerInit0 == Init => TimerInv
  BY TimerConstants DEF Init, TimerInit, TimerInv, OnePlace, Marked, Held, GoneIsMarked, Running,
         IdsOf, NoTimer

\* A Timer object has one timer at most, and a timer in the table, or left in the
\* tick and not cancelled, has its object.
THEOREM TimersAreOwned == Spec => []OneTimerEach
<1>1. TimerInv => OneTimerEach
  BY DEF TimerInv, OnePlace, Marked, Held, OneTimerEach, IdsOf
<1> QED BY <1>1, TypeInit, TypeStep, TimerInit0, TimerStep, PTL DEF Spec

\* The callback of a timer that was reported as cancelled is not called any more.
THEOREM CancelledStaysSilent == Spec => CancelledIsSilent
<1>1. TypeInv /\ TimerInv /\ [Next]_vars
        => [running = "none" /\ running' = "timer" => entry'.id \notin gone]_vars
  <2> SUFFICES ASSUME TypeInv, TimerInv, Next, running = "none", running' = "timer"
               PROVE  entry'.id \notin gone
    BY DEF vars
  <2>1. RunTimer
    BY DEF Next, Loop, TakeAtTop, RunCall, CodeReturns, Proceed, PreparePoll, PollWakes,
           WaylandWakes, PollReturns, PollInterrupted, BeginDispatch, PassOver,
           DispatchDeferred, TakeDispatched, DispatchTimers, DispatchPeriodic,
           TimerCodeReturns, EndDispatch, DrainFrames, Effect, Clock, ThreadCalls, codeVars
  <2>2. PICK e \in due : TickCalls(e) /\ entry' = e
    BY <2>1 DEF RunTimer, codeVars
  <2>3. e.id \in inFlight /\ e.id \notin canceled
    BY <2>2, OffTheTick DEF TimerInv, TickCalls
  <2> QED BY <2>2, <2>3 DEF TimerInv, GoneIsMarked
<1> QED BY <1>1, TypeInit, TypeStep, TimerInit0, TimerStep, PTL DEF Spec, CancelledIsSilent
=============================================================================
