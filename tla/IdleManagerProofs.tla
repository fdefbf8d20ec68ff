-------------------------- MODULE IdleManagerProofs --------------------------
(***************************************************************************)
(* Proofs about IdleManager: that every fade has the timer that ends it,   *)
(* that no action runs before a fade is reported over to its own grace,    *)
(* that no idle behaviour is forgotten, and that the lock count is that of *)
(* the cookies and the block.                                              *)
(***************************************************************************)
EXTENDS IdleManager, DataLemmas

\* What the proofs need of the types.  Nothing is said of the Wayland events: an
\* event may come for any behaviour, at any time.
GraceTypes ==
    /\ phase \in [Behaviors -> {"Waiting", "Fading", "Idled"}]
    /\ graceGeneration \in Nat
    /\ later \in Seq(DeferredCall)
    /\ onFadeComplete \in Nat

\* The manager is only told of generations that the overlay has reported.
DoneIsFaded ==
    \A i \in 1..Len(later) : later[i].what = "done" => later[i].generation \in faded

GraceInv == GraceTypes /\ FadeHasEnd /\ DoneIsFaded

LEMMA GraceInit == Init => GraceInv
<1> SUFFICES ASSUME Init PROVE GraceInv
  OBVIOUS
<1>1. GraceTypes
  BY EmptySeq DEF Init, GraceTypes, None
<1>2. FadeHasEnd
  BY DEF Init, FadeHasEnd, None
<1>3. DoneIsFaded
  BY DEF Init, DoneIsFaded
<1> QED BY <1>1, <1>2, <1>3 DEF GraceInv

-----------------------------------------------------------------------------
(* The queue of deferred calls *)

\* Taking the next call off the queue leaves the rest as it was.
LEMMA CallTaken ==
    ASSUME GraceTypes, DoneIsFaded, later # <<>>, later' = Tail(later), faded \subseteq faded'
    PROVE  later' \in Seq(DeferredCall) /\ DoneIsFaded'
<1>1. /\ Len(later) \in Nat \ {0}
      /\ later' \in Seq(DeferredCall)
      /\ Len(later') = Len(later) - 1
      /\ \A i \in 1..Len(later') : later'[i] = later[i + 1]
  BY HeadTailProperties, LenProperties, EmptySeq DEF GraceTypes
<1>2. \A i \in 1..Len(later') : i + 1 \in 1..Len(later)
  BY <1>1
<1>3. DoneIsFaded'
  BY <1>1, <1>2 DEF DoneIsFaded
<1> QED BY <1>1, <1>3

\* A call is queued after a queue q that has the property itself.
LEMMA CallQueued ==
    ASSUME NEW q \in Seq(DeferredCall), NEW call \in DeferredCall,
           \A i \in 1..Len(q) : q[i].what = "done" => q[i].generation \in faded',
           call.what = "done" => call.generation \in faded',
           later' = Append(q, call)
    PROVE  later' \in Seq(DeferredCall) /\ DoneIsFaded'
<1>1. /\ later' \in Seq(DeferredCall)
      /\ Len(later') = Len(q) + 1
      /\ \A i \in 1..Len(q) : later'[i] = q[i]
      /\ later'[Len(q) + 1] = call
      /\ Len(q) \in Nat
  BY AppendProperties, LenProperties
<1>2. \A i \in 1..Len(later') : i \in 1..Len(q) \/ i = Len(q) + 1
  BY <1>1
<1>3. DoneIsFaded'
  BY <1>1, <1>2 DEF DoneIsFaded
<1> QED BY <1>1, <1>3

\* Steps that leave the queue alone.
LEMMA QueueKept ==
    ASSUME GraceTypes, DoneIsFaded, UNCHANGED later, faded \subseteq faded'
    PROVE  later' \in Seq(DeferredCall) /\ DoneIsFaded'
BY DEF GraceTypes, DoneIsFaded

\* The overlay calls the completion callback, which queues its report.
LEMMA ReportQueued ==
    ASSUME NEW q \in Seq(DeferredCall), NEW g \in Nat, ReportFade(g, q),
           \A i \in 1..Len(q) : q[i].what = "done" => q[i].generation \in faded
    PROVE  later' \in Seq(DeferredCall) /\ DoneIsFaded'
<1> DEFINE done == [what |-> "done", generation |-> g]
<1>1. later' = Append(q, done) /\ faded' = faded \cup {g}
  BY DEF ReportFade
<1>2. done \in DeferredCall /\ done.generation = g
  BY DEF DeferredCall
<1>3. \A i \in 1..Len(q) : q[i].what = "done" => q[i].generation \in faded'
  BY <1>1
<1> HIDE DEF done
<1> QED BY <1>1, <1>2, <1>3, CallQueued

-----------------------------------------------------------------------------
(* The grace *)

\* What a step may do to the phases and the grace without losing sight of a fade.
GraceKept ==
    /\ phase' \in [Behaviors -> {"Waiting", "Fading", "Idled"}]
    /\ graceGeneration' \in Nat
    /\ onFadeComplete' \in Nat
    /\ FadeHasEnd'

LEMMA GraceFrame ==
    ASSUME GraceInv, UNCHANGED <<phase, grace, graceGeneration, fallback>>, onFadeComplete' \in Nat
    PROVE  GraceKept
BY DEF GraceInv, GraceTypes, FadeHasEnd, GraceKept

\* Ending the grace with the phases of its behaviours put right.
LEMMA EndedGrace ==
    ASSUME GraceInv, EndGrace,
           phase' = [b \in Behaviors |-> "Waiting"]
             \/ phase' = [b \in Behaviors |-> IF b \in grace THEN "Waiting" ELSE phase[b]]
    PROVE  GraceKept
<1>1. CASE grace = {}
  BY <1>1 DEF GraceInv, GraceTypes, FadeHasEnd, GraceKept, EndGrace, overlayVars
<1>2. CASE grace # {}
  BY <1>2 DEF GraceInv, GraceTypes, FadeHasEnd, GraceKept, EndGrace, Hide, None
<1> QED BY <1>1, <1>2

LEMMA CompletedGrace ==
    ASSUME GraceInv, CompleteGrace
    PROVE  GraceKept
BY DEF GraceInv, GraceTypes, FadeHasEnd, GraceKept, CompleteGrace, Hide, None

\* A behaviour goes idle.
LEMMA IdledKept ==
    ASSUME GraceInv, NEW b, HandleIdled(b)
    PROVE  GraceKept /\ later' \in Seq(DeferredCall) /\ DoneIsFaded'
<1> USE DEF GraceInv
<1>1. CASE phase[b] # "Waiting" /\ UNCHANGED <<managerVars, overlayVars, later, faded>>
  <2>1. GraceKept
    BY <1>1, GraceFrame DEF managerVars, overlayVars, GraceTypes
  <2> QED BY <1>1, <2>1, QueueKept
<1>2. CASE phase[b] = "Waiting" /\ Suppress(b)
  <2>1. GraceKept
    BY <1>2 DEF Suppress, GraceKept, GraceTypes, FadeHasEnd, overlayVars
  <2> QED BY <1>2, <2>1, QueueKept DEF Suppress
<1>3. CASE /\ phase[b] = "Waiting" /\ grace # {}
           /\ JoinGrace(b) /\ UNCHANGED <<graceGeneration, fallback, later>>
  <2>1. GraceKept
    BY <1>3 DEF JoinGrace, GraceKept, GraceTypes, FadeHasEnd, overlayVars
  <2> QED BY <1>3, <2>1, QueueKept DEF JoinGrace
<1>4. CASE phase[b] = "Waiting" /\ grace = {} /\ BeginGrace(b)
  <2>1. GraceKept
    <3>1. /\ phase' \in [Behaviors -> {"Waiting", "Fading", "Idled"}]
          /\ \A c \in Behaviors : phase'[c] = "Fading" <=> c \in grace'
      BY <1>4 DEF BeginGrace, JoinGrace, GraceTypes, FadeHasEnd
    <3>2. graceGeneration' \in Nat \ {0} /\ fallback' = graceGeneration' /\ grace' # {}
      BY <1>4 DEF BeginGrace, JoinGrace, GraceTypes
    <3>3. onFadeComplete' \in Nat
      BY <1>4 DEF BeginGrace, JoinGrace, GraceTypes, overlayVars
    <3> QED BY <3>1, <3>2, <3>3 DEF GraceKept, FadeHasEnd, None
  <2>2. [what |-> "show", generation |-> graceGeneration'] \in DeferredCall
    BY <1>4 DEF BeginGrace, GraceTypes, DeferredCall
  <2>3. faded' = faded
    BY <1>4 DEF BeginGrace, JoinGrace
  <2> QED
    BY <1>4, <2>1, <2>2, <2>3, CallQueued DEF BeginGrace, GraceTypes, DoneIsFaded
<1>5. CASE /\ phase[b] = "Waiting" /\ phase' = [phase EXCEPT ![b] = "Idled"]
           /\ UNCHANGED <<grace, graceGeneration, fallback, overlayVars, later, faded>>
  <2>1. GraceKept
    BY <1>5 DEF GraceKept, GraceTypes, FadeHasEnd, overlayVars
  <2> QED BY <1>5, <2>1, QueueKept
<1> QED BY <1>1, <1>2, <1>3, <1>4, <1>5 DEF HandleIdled

\* Activity reaches a behaviour.
LEMMA ResumedKept ==
    ASSUME GraceInv, NEW b, HandleResumed(b)
    PROVE  GraceKept /\ later' \in Seq(DeferredCall) /\ DoneIsFaded'
<1> USE DEF GraceInv
<1>1. UNCHANGED <<later, faded>>
  BY DEF HandleResumed
<1>2. CASE CancelGrace
  BY <1>1, <1>2, EndedGrace, QueueKept DEF CancelGrace
<1>3. CASE /\ phase[b] = "Idled" /\ phase' = [phase EXCEPT ![b] = "Waiting"]
           /\ UNCHANGED <<grace, graceGeneration, fallback, overlayVars>>
  <2>1. GraceKept
    BY <1>3 DEF GraceKept, GraceTypes, FadeHasEnd, overlayVars
  <2> QED BY <1>1, <2>1, QueueKept
<1>4. CASE UNCHANGED <<phase, grace, graceGeneration, fallback, overlayVars>>
  BY <1>1, <1>4, GraceFrame, QueueKept DEF GraceTypes, overlayVars
<1> QED BY <1>2, <1>3, <1>4 DEF HandleResumed

\* The next deferred call runs.
LEMMA DeferredKept ==
    ASSUME GraceInv, RunDeferred
    PROVE  GraceKept /\ later' \in Seq(DeferredCall) /\ DoneIsFaded'
<1> USE DEF GraceInv
<1> DEFINE call == Head(later)
<1>1. call \in DeferredCall /\ Tail(later) \in Seq(DeferredCall)
  BY HeadTailProperties, EmptySeq DEF RunDeferred, GraceTypes
<1>2. \A i \in 1..Len(Tail(later)) : Tail(later)[i].what = "done" => Tail(later)[i].generation \in faded
  <2>1. /\ Len(later) \in Nat /\ Len(Tail(later)) = Len(later) - 1
        /\ \A i \in 1..Len(Tail(later)) : Tail(later)[i] = later[i + 1]
    BY HeadTailProperties, LenProperties, EmptySeq DEF RunDeferred, GraceTypes
  <2>2. \A i \in 1..Len(Tail(later)) : i + 1 \in 1..Len(later)
    BY <2>1
  <2> QED BY <2>1, <2>2 DEF DoneIsFaded
<1>3. CASE call.what = "show" /\ Show(call.generation) /\ UNCHANGED managerVars
  <2>1. CASE screens
    <3>1. GraceKept
      BY <1>1, <1>3, <2>1, GraceFrame DEF Show, managerVars, DeferredCall
    <3>2. later' = Tail(later) /\ faded' = faded /\ later # <<>>
      BY <1>3, <2>1 DEF Show, RunDeferred
    <3> QED BY <3>1, <3>2, CallTaken
  <2>2. CASE ~screens
    <3> DEFINE complete == [what |-> "complete", generation |-> call.generation]
    <3>1. later' = Append(Tail(later), complete) /\ faded' = faded
      BY <1>3, <2>2 DEF Show
    <3>2. complete \in DeferredCall /\ complete.what # "done"
      BY <1>1 DEF DeferredCall
    <3>3. later' \in Seq(DeferredCall) /\ DoneIsFaded'
      <4> HIDE DEF complete
      <4> QED BY <1>1, <1>2, <3>1, <3>2, CallQueued
    <3>4. GraceKept
      BY <1>3, <2>2, GraceFrame DEF Show, managerVars, overlayVars, GraceTypes
    <3> QED BY <3>3, <3>4
  <2> QED BY <2>1, <2>2
<1>4. CASE /\ call.what = "done" /\ later' = Tail(later) /\ faded' = faded
           /\ IF Completes(call.generation) THEN CompleteGrace
              ELSE UNCHANGED <<phase, grace, graceGeneration, fallback, overlayVars>>
  <2>1. GraceKept
    BY <1>4, CompletedGrace, GraceFrame DEF GraceTypes, overlayVars
  <2>2. later # <<>>
    BY DEF RunDeferred
  <2> QED BY <1>4, <2>1, <2>2, CallTaken
<1>5. CASE ReportFade(call.generation, Tail(later)) /\ UNCHANGED <<managerVars, overlayVars>>
  <2>1. GraceKept
    BY <1>5, GraceFrame DEF managerVars, overlayVars, GraceTypes
  <2>2. call.generation \in Nat
    BY <1>1 DEF DeferredCall
  <2> QED BY <1>1, <1>2, <1>5, <2>1, <2>2, ReportQueued
<1> QED BY <1>3, <1>4, <1>5 DEF RunDeferred

\* The overlay reports the end of its fade.
LEMMA FadeEndsKept ==
    ASSUME GraceInv, FadeEnds
    PROVE  GraceKept /\ later' \in Seq(DeferredCall) /\ DoneIsFaded'
<1> USE DEF GraceInv
<1>1. GraceKept
  BY GraceFrame DEF FadeEnds, managerVars, None
<1>2. CASE onFadeComplete = None
  BY <1>1, <1>2, QueueKept DEF FadeEnds
<1>3. CASE onFadeComplete # None
  <2>1. ReportFade(onFadeComplete, later)
    BY <1>3 DEF FadeEnds
  <2> QED BY <1>1, <2>1, ReportQueued DEF GraceTypes, DoneIsFaded
<1> QED BY <1>2, <1>3

-----------------------------------------------------------------------------
(* Every action *)

LEMMA GraceStep == GraceInv /\ [Next]_vars => GraceInv'
<1> SUFFICES ASSUME GraceInv, [Next]_vars
             PROVE  GraceKept /\ later' \in Seq(DeferredCall) /\ DoneIsFaded'
  BY DEF GraceInv, GraceTypes, GraceKept
<1> USE DEF GraceInv
<1>1. ASSUME UNCHANGED <<phase, grace, graceGeneration, fallback, onFadeComplete, later, faded>>
      PROVE  GraceKept /\ later' \in Seq(DeferredCall) /\ DoneIsFaded'
  BY <1>1, GraceFrame, QueueKept DEF GraceTypes
<1>2. ASSUME NEW b \in Behaviors, CompositorIdle(b)
      PROVE  GraceKept /\ later' \in Seq(DeferredCall) /\ DoneIsFaded'
  BY <1>1, <1>2 DEF CompositorIdle, managerVars, overlayVars
<1>3. CASE CompositorActivity
  BY <1>1, <1>3 DEF CompositorActivity, managerVars, overlayVars
<1>4. CASE HandleEvent
  BY <1>4, IdledKept, ResumedKept DEF HandleEvent
<1>5. CASE RunDeferred
  BY <1>5, DeferredKept
<1>6. CASE FadeEnds
  BY <1>6, FadeEndsKept
<1>7. CASE OutputsChange
  BY <1>7, GraceFrame, QueueKept DEF OutputsChange, managerVars, None
<1>8. CASE FallbackFires
  <2>1. later' = later /\ faded \subseteq faded'
    BY <1>8 DEF FallbackFires
  <2>2. CASE Completes(fallback)
    BY <1>8, <2>1, <2>2, CompletedGrace, QueueKept DEF FallbackFires
  <2>3. CASE ~Completes(fallback)
    <3>1. FALSE
      BY <1>8, <2>3 DEF FallbackFires, Completes, FadeHasEnd
    <3> QED BY <3>1
  <2> QED BY <2>2, <2>3
<1>9. ASSUME SetScreenSaverInhibitLocks
      PROVE  GraceKept /\ later' \in Seq(DeferredCall) /\ DoneIsFaded'
  <2>1. UNCHANGED <<later, faded>>
    BY <1>9 DEF SetScreenSaverInhibitLocks
  <2>2. GraceKept
    BY <1>9, EndedGrace, GraceFrame DEF SetScreenSaverInhibitLocks, overlayVars, GraceTypes
  <2> QED BY <2>1, <2>2, QueueKept
<1>10. CASE \E c \in Clients : Inhibit(c) \/ Uninhibit(c) \/ OwnerGone(c)
  BY <1>9, <1>10 DEF Inhibit, Uninhibit, OwnerGone
<1>11. CASE LogindChanges
  BY <1>9, <1>11 DEF LogindChanges
<1>12. CASE Reload
  BY <1>12, EndedGrace, QueueKept DEF Reload
<1>13. CASE UNCHANGED vars
  BY <1>1, <1>13 DEF vars, managerVars, overlayVars
<1>14. CASE StartFade
  BY <1>1, <1>14 DEF StartFade, managerVars
<1> QED
  BY <1>2, <1>3, <1>4, <1>5, <1>6, <1>7, <1>8, <1>10, <1>11, <1>12, <1>13, <1>14 DEF Next

THEOREM GraceInvariant == Spec => []GraceInv
BY GraceInit, GraceStep, PTL DEF Spec

\* A behaviour in its Fading phase is in the grace that an armed fallback timer
\* ends, whatever the order of idle events, activity, inhibits, reloads, outputs
\* that come and go, and late reports of the overlay (idle_manager.cpp).
THEOREM FadesEnd == Spec => []FadeHasEnd
<1>1. GraceInv => FadeHasEnd
  BY DEF GraceInv
<1> QED BY <1>1, GraceInvariant, PTL

\* graceFadeComplete() only ever runs the actions of a grace that a fade was reported
\* over to, or whose fallback came: a report to an earlier, cancelled grace is refused.
THEOREM ActionsWaitForFade == Spec => ActionAfterFade
<1> DEFINE Waited(b) == phase[b] = "Fading" /\ phase'[b] = "Idled" => graceGeneration \in faded'
<1>1. ASSUME GraceInv, [Next]_vars, NEW b \in Behaviors
      PROVE  Waited(b)
  <2> USE <1>1 DEF GraceInv
  <2> SUFFICES ASSUME phase[b] = "Fading", phase'[b] = "Idled"
               PROVE  graceGeneration \in faded'
    OBVIOUS
  <2>1. CASE UNCHANGED phase
    BY <2>1
  <2>2. CASE HandleEvent
    <3>1. ASSUME NEW c, HandleIdled(c) PROVE FALSE
      BY <3>1 DEF HandleIdled, Suppress, BeginGrace, JoinGrace, managerVars, GraceTypes
    <3>2. ASSUME NEW c, HandleResumed(c) PROVE FALSE
      BY <3>2 DEF HandleResumed, CancelGrace, GraceTypes
    <3> QED BY <2>2, <3>1, <3>2 DEF HandleEvent
  <2>3. CASE RunDeferred
    <3>1. later \in Seq(DeferredCall) /\ later # <<>>
      BY <2>3 DEF RunDeferred, GraceTypes
    <3>2. Head(later) = later[1] /\ 1 \in 1..Len(later)
      BY <3>1, HeadTailProperties, LenProperties, EmptySeq
    <3>3. Head(later).what = "done" /\ Completes(Head(later).generation) /\ faded' = faded
      BY <2>3 DEF RunDeferred, managerVars
    <3> QED BY <3>2, <3>3 DEF DoneIsFaded, Completes
  <2>4. CASE FallbackFires
    BY <2>4 DEF FallbackFires, Completes
  <2>5. CASE SetScreenSaverInhibitLocks
    BY <2>5 DEF SetScreenSaverInhibitLocks
  <2>6. CASE Reload
    BY <2>6 DEF Reload
  <2>7. CASE \/ CompositorActivity \/ StartFade \/ FadeEnds \/ OutputsChange
             \/ \E c \in Behaviors : CompositorIdle(c)
    BY <2>1, <2>7 DEF CompositorActivity, StartFade, FadeEnds, OutputsChange, CompositorIdle,
                      managerVars
  <2>8. CASE UNCHANGED vars
    BY <2>1, <2>8 DEF vars, managerVars
  <2>9. CASE LogindChanges \/ \E c \in Clients : Inhibit(c) \/ Uninhibit(c) \/ OwnerGone(c)
    BY <2>5, <2>9 DEF LogindChanges, Inhibit, Uninhibit, OwnerGone
  <2> QED BY <2>2, <2>3, <2>4, <2>6, <2>7, <2>8, <2>9 DEF Next
<1>2. GraceInv /\ [Next]_vars => [\A b \in Behaviors : Waited(b)]_vars
  BY <1>1
<1> QED BY <1>2, GraceInvariant, PTL DEF Spec, ActionAfterFade

-----------------------------------------------------------------------------
(* The Wayland events in flight *)

Mentions(q, b) == \E i \in 1..Len(q) : q[i].of = b

\* A behaviour the compositor considers idle went idle after the last activity: behind
\* each resumed event there is one more event for it.
Answered(q, T) ==
    \A i \in 1..Len(q) : q[i].what = "resumed"
        => \A b \in T : \E j \in 1..Len(q) : i < j /\ q[j].of = b

\* The next event is taken.
LEMMA EventTaken ==
    ASSUME NEW q \in Seq(WaylandEvent), q # <<>>, NEW T, Answered(q, T)
    PROVE  /\ Tail(q) \in Seq(WaylandEvent)
           /\ Head(q) \in WaylandEvent
           /\ Answered(Tail(q), T)
           /\ \A b : Mentions(q, b) /\ Head(q).of # b => Mentions(Tail(q), b)
           /\ Head(q).what = "resumed" => \A b \in T : Mentions(Tail(q), b)
<1> DEFINE t == Tail(q)
           n == Len(t)
<1>1. /\ n \in Nat /\ Len(q) = n + 1
      /\ t \in Seq(WaylandEvent) /\ Head(q) \in WaylandEvent
      /\ Head(q) = q[1] /\ \A i \in 1..n : t[i] = q[i + 1]
  <2>1. Len(q) \in Nat /\ Len(t) = Len(q) - 1 /\ Len(t) \in Nat
    BY HeadTailProperties, LenProperties, EmptySeq
  <2> QED BY <2>1, HeadTailProperties
<1> HIDE DEF t, n
<1>2. ASSUME NEW j \in 1..Len(q), j # 1
      PROVE  j - 1 \in 1..n /\ t[j - 1] = q[j]
  <2>1. j - 1 \in 1..n /\ j - 1 + 1 = j
    BY <1>1, <1>2
  <2> QED BY <1>1, <2>1
<1>3. Answered(t, T)
  <2> SUFFICES ASSUME NEW i \in 1..n, t[i].what = "resumed", NEW b \in T
               PROVE  \E j \in 1..n : i < j /\ t[j].of = b
    BY DEF Answered, n
  <2>1. i + 1 \in 1..Len(q) /\ q[i + 1].what = "resumed"
    BY <1>1
  <2>2. PICK j \in 1..Len(q) : i + 1 < j /\ q[j].of = b
    BY <2>1 DEF Answered
  <2>3. j # 1 /\ i < j - 1
    BY <1>1, <2>2
  <2> QED BY <1>2, <2>2, <2>3
<1>4. ASSUME NEW b, Mentions(q, b), Head(q).of # b
      PROVE  Mentions(t, b)
  BY <1>1, <1>2, <1>4 DEF Mentions, n
<1>5. ASSUME Head(q).what = "resumed", NEW b \in T
      PROVE  Mentions(t, b)
  <2>1. PICK j \in 1..Len(q) : 1 < j /\ q[j].of = b
    BY <1>1, <1>5 DEF Answered
  <2>2. j # 1
    BY <2>1
  <2> QED BY <1>2, <2>1, <2>2 DEF Mentions, n
<1> QED BY <1>1, <1>3, <1>4, <1>5 DEF t

\* The events of the behaviours bs are dropped.
LEMMA EventsDropped ==
    ASSUME NEW q \in Seq(WaylandEvent), NEW T, Answered(q, T), NEW bs
    PROVE  LET r == Kept(q, LAMBDA e : e.of \notin bs) IN
           /\ r \in Seq(WaylandEvent)
           /\ Answered(r, T \ bs)
           /\ \A b : Mentions(q, b) /\ b \notin bs => Mentions(r, b)
<1> DEFINE I == {i \in DOMAIN q : q[i].of \notin bs}
           r == AtPlaces(q, I)
<1>1. r = Kept(q, LAMBDA e : e.of \notin bs)
  BY DEF Kept
<1>2. I \in SUBSET DOMAIN q /\ DOMAIN q = 1..Len(q) /\ Len(q) \in Nat /\ I \in SUBSET (1..Len(q))
  BY LenProperties
<1>3. \A i \in DOMAIN q : i \in I <=> q[i].of \notin bs
  OBVIOUS
<1> HIDE DEF I
<1>4. /\ r \in Seq(WaylandEvent)
      /\ Len(r) = Cardinality(I)
      /\ \A k \in 1..Cardinality(I) : NthOf(I, k) \in I /\ r[k] = q[NthOf(I, k)]
  BY <1>2, Subsequence
<1>5. /\ \A i \in I : PlaceOf(I, i) \in 1..Cardinality(I) /\ NthOf(I, PlaceOf(I, i)) = i
      /\ \A k \in 1..Cardinality(I) : PlaceOf(I, NthOf(I, k)) = k
      /\ \A i, j \in I : i < j => PlaceOf(I, i) < PlaceOf(I, j)
  BY <1>2, Places, Nths
<1> HIDE DEF r
<1>6. \A i \in I : PlaceOf(I, i) \in 1..Len(r) /\ r[PlaceOf(I, i)] = q[i]
  BY <1>4, <1>5
<1>7. Answered(r, T \ bs)
  <2> SUFFICES ASSUME NEW k \in 1..Len(r), r[k].what = "resumed", NEW b \in T \ bs
               PROVE  \E l \in 1..Len(r) : k < l /\ r[l].of = b
    BY DEF Answered
  <2>1. NthOf(I, k) \in I /\ NthOf(I, k) \in 1..Len(q) /\ q[NthOf(I, k)].what = "resumed"
    BY <1>2, <1>4
  <2>2. PICK j \in 1..Len(q) : NthOf(I, k) < j /\ q[j].of = b
    BY <2>1 DEF Answered
  <2>3. j \in I
    BY <1>2, <1>3, <2>2
  <2>4. k < PlaceOf(I, j)
    <3>1. PlaceOf(I, NthOf(I, k)) = k
      BY <1>4, <1>5
    <3> QED BY <1>5, <2>1, <2>2, <2>3, <3>1
  <2> QED BY <1>6, <2>2, <2>3, <2>4
<1>8. ASSUME NEW b, Mentions(q, b), b \notin bs
      PROVE  Mentions(r, b)
  <2>1. PICK i \in 1..Len(q) : q[i].of = b
    BY <1>8 DEF Mentions
  <2>2. i \in I
    BY <1>2, <1>3, <1>8, <2>1
  <2> QED BY <1>6, <2>1, <2>2 DEF Mentions
<1> QED BY <1>1, <1>4, <1>7, <1>8

\* An idle event is sent.
LEMMA IdleSent ==
    ASSUME NEW q \in Seq(WaylandEvent), NEW T, Answered(q, T), NEW e \in WaylandEvent,
           e.what = "idled"
    PROVE  /\ Append(q, e) \in Seq(WaylandEvent)
           /\ Answered(Append(q, e), T \cup {e.of})
           /\ \A b : Mentions(q, b) \/ b = e.of => Mentions(Append(q, e), b)
<1> DEFINE r == Append(q, e)
           n == Len(q)
<1>1. /\ n \in Nat /\ r \in Seq(WaylandEvent) /\ Len(r) = n + 1
      /\ \A i \in 1..n : r[i] = q[i]
      /\ r[n + 1] = e
  BY AppendProperties, LenProperties
<1> HIDE DEF r
<1>2. \A i \in 1..Len(r) : i \in 1..n \/ i = n + 1
  BY <1>1
<1>3. Answered(r, T \cup {e.of})
  <2> SUFFICES ASSUME NEW i \in 1..Len(r), r[i].what = "resumed", NEW b \in T \cup {e.of}
               PROVE  \E j \in 1..Len(r) : i < j /\ r[j].of = b
    BY DEF Answered
  <2>1. i \in 1..n /\ q[i].what = "resumed"
    BY <1>1, <1>2
  <2>2. CASE b \in T
    BY <1>1, <2>1, <2>2 DEF Answered
  <2>3. CASE b = e.of
    <3>1. n + 1 \in 1..Len(r) /\ i < n + 1
      BY <1>1, <2>1
    <3> QED BY <1>1, <2>3, <3>1
  <2> QED BY <2>2, <2>3
<1>4. ASSUME NEW b, Mentions(q, b) \/ b = e.of
      PROVE  Mentions(r, b)
  <2>1. n + 1 \in 1..Len(r) /\ \A i \in 1..n : i \in 1..Len(r)
    BY <1>1
  <2> QED BY <1>1, <1>4, <2>1 DEF Mentions
<1> QED BY <1>1, <1>3, <1>4 DEF r

\* Activity is told of: no behaviour is idle then.
LEMMA ResumedSent ==
    ASSUME events \in Seq(WaylandEvent), IsFiniteSet(told), told \subseteq Behaviors,
           CompositorActivity
    PROVE  events' \in Seq(WaylandEvent) /\ told' = {}
<1>1. PICK order \in SetToSeqs(told) :
          events' = events \o [i \in DOMAIN order |-> [what |-> "resumed", of |-> order[i]]]
  BY DEF CompositorActivity
<1>2. Cardinality(told) \in Nat
  BY FS_CardinalityType
<1>3. order \in [1..Cardinality(told) -> told]
  BY DEF SetToSeqs
<1> DEFINE resumed == [i \in DOMAIN order |-> [what |-> "resumed", of |-> order[i]]]
<1>4. resumed \in [1..Cardinality(told) -> WaylandEvent]
  BY <1>3 DEF WaylandEvent
<1>5. resumed \in Seq(WaylandEvent)
  BY <1>2, <1>4, IsASeq
<1> HIDE DEF resumed
<1>6. events' = events \o resumed
  BY <1>1 DEF resumed
<1> QED BY <1>5, <1>6, ConcatProperties DEF CompositorActivity

-----------------------------------------------------------------------------
(* No behaviour is forgotten *)

WireInv ==
    /\ enabled \subseteq Behaviors
    /\ told \subseteq enabled
    /\ events \in Seq(WaylandEvent)
    /\ Answered(events, told)
    /\ \A b \in told : phase[b] = "Waiting" => Mentions(events, b)

LEMMA MentionsIsEvent == WireInv => NoForgottenIdle
<1> SUFFICES ASSUME WireInv, NEW b \in told, phase[b] = "Waiting"
             PROVE  \E i \in DOMAIN events : events[i].of = b
  BY DEF NoForgottenIdle
<1>1. DOMAIN events = 1..Len(events)
  BY LenProperties DEF WireInv
<1> QED BY <1>1 DEF WireInv, Mentions

LEMMA WireInit == Init => WireInv
<1> SUFFICES ASSUME Init PROVE WireInv
  OBVIOUS
<1>1. enabled \subseteq Behaviors /\ told = {}
  BY DEF Init
<1>2. events \in Seq(WaylandEvent) /\ Len(events) = 0
  BY EmptySeq DEF Init
<1>3. Answered(events, told)
  BY <1>2 DEF Answered
<1> QED BY <1>1, <1>2, <1>3 DEF WireInv

\* The head of the queue has been taken, and nothing else has changed on the wire.
LEMMA TakenKept ==
    ASSUME WireInv, events # <<>>, events' = Tail(events), UNCHANGED <<told, enabled>>,
           Head(events).what = "resumed"
             \/ \A b \in told : phase'[b] = "Waiting"
                                  => phase[b] = "Waiting" /\ b # Head(events).of
    PROVE  WireInv'
<1>1. /\ Tail(events) \in Seq(WaylandEvent)
      /\ Answered(Tail(events), told)
      /\ \A b : Mentions(events, b) /\ Head(events).of # b => Mentions(Tail(events), b)
      /\ Head(events).what = "resumed" => \A b \in told : Mentions(Tail(events), b)
  BY EventTaken DEF WireInv
<1>2. \A b \in told : phase'[b] = "Waiting" => Mentions(Tail(events), b)
  BY <1>1 DEF WireInv
<1> QED BY <1>1, <1>2 DEF WireInv

LEMMA WireFrame ==
    ASSUME WireInv, UNCHANGED <<told, events, enabled>>,
           \A b \in told : phase'[b] = "Waiting" => phase[b] = "Waiting"
    PROVE  WireInv'
BY DEF WireInv

\* All notifications are made anew.
LEMMA AllRenewed ==
    ASSUME WireInv, NEW bs, Renew(bs, events), told \subseteq bs, enabled' \subseteq Behaviors
    PROVE  WireInv'
<1>1. told' = {}
  BY DEF Renew
<1>2. events' \in Seq(WaylandEvent) /\ Answered(events', told \ bs)
  BY EventsDropped DEF Renew, WireInv, Kept
<1>3. told \ bs = {}
  OBVIOUS
<1> QED BY <1>1, <1>2, <1>3 DEF WireInv

LEMMA IdledWire ==
    ASSUME GraceTypes, WireInv, events # <<>>, Head(events).what = "idled",
           HandleIdled(Head(events).of)
    PROVE  WireInv'
<1> DEFINE b == Head(events).of
<1>0. b \in Behaviors
  <2>1. Head(events) \in WaylandEvent
    BY EventTaken DEF WireInv
  <2> QED BY <2>1 DEF WaylandEvent
<1>1. CASE phase[b] # "Waiting" /\ events' = Tail(events)
           /\ UNCHANGED <<managerVars, overlayVars, later, told, faded>>
  BY <1>1, TakenKept DEF managerVars
<1>2. CASE Suppress(b)
  <2>1. /\ Tail(events) \in Seq(WaylandEvent)
        /\ Answered(Tail(events), told)
        /\ \A c : Mentions(events, c) /\ b # c => Mentions(Tail(events), c)
    BY EventTaken DEF WireInv
  <2>2. /\ told' = told \ {b} /\ enabled' = enabled
        /\ events' = Kept(Tail(events), LAMBDA e : e.of \notin {b})
        /\ phase' = [phase EXCEPT ![b] = "Waiting"]
    BY <1>2 DEF Suppress, Renew
  <2>3. /\ events' \in Seq(WaylandEvent)
        /\ Answered(events', told \ {b})
        /\ \A c : Mentions(Tail(events), c) /\ c \notin {b} => Mentions(events', c)
    BY <2>1, <2>2, EventsDropped DEF Kept
  <2>4. \A c \in told' : phase'[c] = "Waiting" => Mentions(events', c)
    <3>1. \A c \in told \ {b} : phase'[c] = phase[c]
      BY <2>2 DEF GraceTypes
    <3> QED BY <2>1, <2>2, <2>3, <3>1 DEF WireInv
  <2> QED BY <2>2, <2>3, <2>4 DEF WireInv
<1>3. ASSUME NEW p \in {"Fading", "Idled"}, phase' = [phase EXCEPT ![b] = p],
             events' = Tail(events), UNCHANGED <<enabled, told>>
      PROVE  WireInv'
  <2>1. \A c \in told : phase'[c] = "Waiting" => phase[c] = "Waiting" /\ c # b
    BY <1>0, <1>3 DEF GraceTypes, WireInv
  <2> QED BY <1>3, <2>1, TakenKept
<1>4. CASE JoinGrace(b)
  BY <1>3, <1>4 DEF JoinGrace
<1>5. CASE phase' = [phase EXCEPT ![b] = "Idled"] /\ events' = Tail(events)
           /\ UNCHANGED <<enabled, told>>
  BY <1>3, <1>5
<1> QED BY <1>1, <1>2, <1>4, <1>5 DEF HandleIdled, BeginGrace

LEMMA WireStep == GraceInv /\ WireInv /\ [Next]_vars => WireInv'
<1> SUFFICES ASSUME GraceTypes, WireInv, [Next]_vars PROVE WireInv'
  BY DEF GraceInv
<1>1. ASSUME NEW b \in Behaviors, CompositorIdle(b) PROVE WireInv'
  <2> DEFINE e == [what |-> "idled", of |-> b]
  <2>1. e \in WaylandEvent /\ e.what = "idled" /\ e.of = b
    BY DEF WaylandEvent
  <2>2. /\ told' = told \cup {b} /\ events' = Append(events, e) /\ b \in enabled
        /\ UNCHANGED <<enabled, phase>>
    BY <1>1 DEF CompositorIdle, managerVars
  <2> HIDE DEF e
  <2>3. /\ events' \in Seq(WaylandEvent)
        /\ Answered(events', told')
        /\ \A c : Mentions(events, c) \/ c = b => Mentions(events', c)
    BY <2>1, <2>2, IdleSent DEF WireInv
  <2> QED BY <2>2, <2>3 DEF WireInv
<1>2. CASE CompositorActivity
  <2>1. IsFiniteSet(told) /\ told \subseteq Behaviors
    BY IdleConstants, FS_Subset DEF WireInv
  <2>2. events' \in Seq(WaylandEvent) /\ told' = {}
    BY <1>2, <2>1, ResumedSent DEF WireInv
  <2>3. enabled' = enabled /\ Answered(events', told')
    BY <1>2, <2>2 DEF CompositorActivity, managerVars, Answered
  <2> QED BY <2>2, <2>3 DEF WireInv
<1>3. CASE HandleEvent
  <2>1. CASE Head(events).what = "idled" /\ HandleIdled(Head(events).of)
    BY <1>3, <2>1, IdledWire DEF HandleEvent
  <2>2. CASE Head(events).what = "resumed" /\ HandleResumed(Head(events).of)
    BY <1>3, <2>2, TakenKept DEF HandleEvent, HandleResumed
  <2> QED BY <1>3, <2>1, <2>2 DEF HandleEvent
<1>4. CASE CompleteGrace /\ UNCHANGED <<told, events, enabled>>
  BY <1>4, WireFrame DEF CompleteGrace, WireInv
<1>5. CASE UNCHANGED <<told, events, enabled, phase>>
  BY <1>5, WireFrame
<1>6. CASE RunDeferred
  BY <1>4, <1>5, <1>6 DEF RunDeferred, managerVars, wlVars
<1>7. CASE StartFade \/ FadeEnds \/ OutputsChange
  BY <1>5, <1>7 DEF StartFade, FadeEnds, OutputsChange, managerVars, wlVars
<1>8. CASE FallbackFires
  BY <1>4, <1>5, <1>8 DEF FallbackFires, wlVars
<1>9. CASE SetScreenSaverInhibitLocks
  <2>1. CASE Renew(enabled, events) /\ enabled' = enabled
    BY <2>1, AllRenewed DEF WireInv
  <2>2. CASE UNCHANGED <<phase, wlVars>>
    BY <1>5, <1>9, <2>2 DEF SetScreenSaverInhibitLocks, wlVars
  <2> QED BY <1>9, <2>1, <2>2 DEF SetScreenSaverInhibitLocks
<1>10. CASE \E c \in Clients : Inhibit(c) \/ Uninhibit(c) \/ OwnerGone(c)
  BY <1>9, <1>10 DEF Inhibit, Uninhibit, OwnerGone
<1>11. CASE LogindChanges
  BY <1>9, <1>11 DEF LogindChanges
<1>12. CASE Reload
  <2>1. enabled' \subseteq Behaviors
    BY <1>12 DEF Reload
  <2>2. Renew(Behaviors, events)
    BY <1>12 DEF Reload
  <2>3. told \subseteq Behaviors
    BY DEF WireInv
  <2> QED BY <2>1, <2>2, <2>3, AllRenewed
<1>13. CASE UNCHANGED vars
  BY <1>5, <1>13 DEF vars, managerVars, wlVars
<1> QED
  BY <1>1, <1>2, <1>3, <1>6, <1>7, <1>8, <1>10, <1>11, <1>12, <1>13 DEF Next

THEOREM WireInvariant == Spec => [](GraceInv /\ WireInv)
BY GraceInit, GraceStep, WireInit, WireStep, PTL DEF Spec

\* A behaviour the compositor has reported idle, and will not report again, is
\* handled or has an event on its way: also after an inhibit lock suppressed its
\* action, an inhibit ended, the fade was cancelled by the activity of another
\* behaviour, or the configuration was reloaded with events in flight
\* (handleIdled(), handleResumed(), recreateBehaviorNotifications()).
THEOREM NothingForgotten == Spec => []NoForgottenIdle
BY WireInvariant, MentionsIsEvent, PTL

-----------------------------------------------------------------------------
(* The locks *)

LocksInv ==
    /\ ScreenSaverTypeOK
    /\ inhibitLocks = Reasons
    /\ locks = inhibitLocks

LEMMA HeldFinite == IsFiniteSet(Held) /\ Cardinality(Held) \in Nat
<1>1. IsFiniteSet(1 .. MaxCookies)
  BY ScreenSaverConstants, FS_Interval
<1>2. IsFiniteSet(Clients \X (1 .. MaxCookies))
  BY <1>1, ScreenSaverConstants, FS_Product
<1>3. Held \subseteq Clients \X (1 .. MaxCookies)
  BY DEF Held
<1> QED BY <1>2, <1>3, FS_Subset, FS_CardinalityType

LEMMA CookieTaken ==
    ASSUME ScreenSaverTypeOK, NEW c \in Clients, OnInhibit(c)
    PROVE  /\ cookies' \in [Clients -> 0 .. MaxCookies]
           /\ Cardinality(Held)' = Cardinality(Held) + 1
<1> DEFINE x == <<c, cookies[c] + 1>>
<1>1. /\ cookies \in [Clients -> 0 .. MaxCookies] /\ MaxCookies \in Nat
      /\ cookies[c] < MaxCookies /\ cookies' = [cookies EXCEPT ![c] = @ + 1]
  BY ScreenSaverConstants DEF ScreenSaverTypeOK, OnInhibit
<1>2. cookies[c] \in Nat /\ cookies[c] + 1 \in 1 .. MaxCookies
  BY <1>1
<1>3. cookies' \in [Clients -> 0 .. MaxCookies]
  BY <1>1, <1>2
<1>4. \A d \in Clients : cookies'[d] = IF d = c THEN cookies[c] + 1 ELSE cookies[d]
  BY <1>1
<1>5. x \notin Held
  BY <1>2 DEF Held
<1>6. Held' = Held \cup {x}
  <2>1. ASSUME NEW d \in Clients, NEW k \in 1 .. MaxCookies
        PROVE  <<d, k>> \in Held' <=> <<d, k>> \in Held \/ (d = c /\ k = cookies[c] + 1)
    <3>1. k <= cookies'[d] <=> k <= cookies[d] \/ (d = c /\ k = cookies[c] + 1)
      BY <1>1, <1>2, <1>4
    <3> QED BY <3>1 DEF Held
  <2>2. Held \subseteq Clients \X (1 .. MaxCookies) /\ Held' \subseteq Clients \X (1 .. MaxCookies)
    BY DEF Held
  <2>3. x \in Clients \X (1 .. MaxCookies)
    BY <1>2
  <2>4. Held' \subseteq Held \cup {x}
    BY <2>1, <2>2
  <2>5. Held \cup {x} \subseteq Held'
    BY <1>2, <2>1, <2>2, <2>3
  <2> QED BY <2>4, <2>5
<1> HIDE DEF x
<1>7. Cardinality(Held \cup {x}) = Cardinality(Held) + 1
  BY <1>5, HeldFinite, FS_AddElement
<1> QED BY <1>3, <1>6, <1>7

\* A client c loses its cookies but the first k.
LEMMA CookiesLost ==
    ASSUME ScreenSaverTypeOK, NEW c \in Clients, NEW k \in 0 .. cookies[c],
           cookies' = [cookies EXCEPT ![c] = k]
    PROVE  /\ cookies' \in [Clients -> 0 .. MaxCookies]
           /\ Cardinality(Held)' = Cardinality(Held) - (cookies[c] - k)
           /\ cookies[c] - k \in 0 .. Cardinality(Held)
<1>1. /\ cookies \in [Clients -> 0 .. MaxCookies] /\ MaxCookies \in Nat
      /\ cookies[c] \in 0 .. MaxCookies /\ k \in 0 .. MaxCookies
  BY ScreenSaverConstants DEF ScreenSaverTypeOK
<1>2. cookies' \in [Clients -> 0 .. MaxCookies]
  BY <1>1
<1>3. \A d \in Clients : cookies'[d] = IF d = c THEN k ELSE cookies[d]
  BY <1>1
<1> DEFINE R == (k + 1) .. cookies[c]
           L == {c} \X R
<1>4. L \subseteq Held
  <2>1. \A j \in R : j \in 1 .. MaxCookies /\ j <= cookies[c]
    BY <1>1
  <2> QED BY <2>1 DEF Held
<1>5. Held' = Held \ L
  <2>1. ASSUME NEW d \in Clients, NEW j \in 1 .. MaxCookies
        PROVE  <<d, j>> \in Held' <=> <<d, j>> \in Held /\ ~(d = c /\ j \in R)
    <3>1. j <= cookies'[d] <=> j <= cookies[d] /\ ~(d = c /\ j \in R)
      BY <1>1, <1>3
    <3> QED BY <3>1 DEF Held
  <2>2. Held \subseteq Clients \X (1 .. MaxCookies) /\ Held' \subseteq Clients \X (1 .. MaxCookies)
    BY DEF Held
  <2>3. \A d, j : <<d, j>> \in L <=> d = c /\ j \in R
    OBVIOUS
  <2> HIDE DEF R, L
  <2>4. Held' \subseteq Held \ L
    BY <2>1, <2>2, <2>3
  <2>5. Held \ L \subseteq Held'
    BY <2>1, <2>2, <2>3
  <2> QED BY <2>4, <2>5
<1>6. Cardinality(L) = cookies[c] - k
  <2>1. IsFiniteSet(R) /\ Cardinality(R) = cookies[c] - k
    <3>1. k \in Int /\ k + 1 \in Int /\ cookies[c] \in Int
      BY <1>1
    <3>2. IsFiniteSet(R) /\ Cardinality(R) = IF k + 1 > cookies[c] THEN 0 ELSE cookies[c] - (k + 1) + 1
      BY <3>1, FS_Interval
    <3> QED BY <1>1, <3>2
  <2>2. IsFiniteSet({c}) /\ Cardinality({c}) = 1
    BY FS_Singleton
  <2> HIDE DEF R
  <2>3. Cardinality(L) = Cardinality({c}) * Cardinality(R)
    BY <2>1, <2>2, FS_Product
  <2> QED BY <1>1, <2>1, <2>2, <2>3
<1> HIDE DEF L
<1>7. Cardinality(Held \ L) = Cardinality(Held) - Cardinality(L) /\ Cardinality(L) <= Cardinality(Held)
  <2>1. Held \cap L = L
    BY <1>4
  <2>2. Cardinality(Held \ L) = Cardinality(Held) - Cardinality(Held \cap L)
    BY HeldFinite, FS_Difference
  <2>3. Cardinality(L) <= Cardinality(Held)
    BY <1>4, HeldFinite, FS_Subset
  <2> QED BY <2>1, <2>2, <2>3
<1> QED BY <1>1, <1>2, <1>5, <1>6, <1>7, HeldFinite

\* What a change of the cookies or of logind's blocks does to the count, the count
\* follows.
LEMMA ReasonsCounted ==
    ASSUME ScreenSaverTypeOK, inhibitLocks = Reasons, NEW delta \in Int, OnInhibitDelta(delta),
           Reasons' = Reasons + delta, Reasons' \in Nat
    PROVE  inhibitLocks' \in Nat /\ inhibitLocks' = Reasons'
BY DEF ScreenSaverTypeOK, OnInhibitDelta

LEMMA ServiceStep ==
    ASSUME ScreenSaverTypeOK, inhibitLocks = Reasons,
           \/ \E c \in Clients : OnInhibit(c) \/ OnUninhibit(c) \/ UnregisterOwnerCookies(c)
           \/ \E blocked \in BOOLEAN : ApplyLogindBlockInhibited(blocked)
    PROVE  ScreenSaverTypeOK' /\ inhibitLocks' = Reasons'
<1> DEFINE block == IF logindInhibited THEN 1 ELSE 0
           held == Cardinality(Held)
<1>0. /\ Reasons = held + block /\ Reasons' = held' + block'
      /\ held \in Nat /\ block \in 0..1 /\ (block' \in 0..1)
      /\ logindInhibited \in BOOLEAN
  BY HeldFinite DEF Reasons, ScreenSaverTypeOK
<1> HIDE DEF block, held
<1>1. ASSUME NEW c \in Clients, OnInhibit(c) PROVE ScreenSaverTypeOK' /\ inhibitLocks' = Reasons'
  <2>1. cookies' \in [Clients -> 0 .. MaxCookies] /\ held' = held + 1 /\ OnInhibitDelta(1)
        /\ logindInhibited' = logindInhibited /\ block' = block
    BY <1>1, CookieTaken DEF OnInhibit, block, held
  <2>2. Reasons' = Reasons + 1 /\ Reasons' \in Nat
    BY <1>0, <2>1
  <2> QED BY <1>0, <2>1, <2>2, ReasonsCounted DEF ScreenSaverTypeOK
<1>2. ASSUME NEW c \in Clients, NEW k \in 0 .. cookies[c], cookies' = [cookies EXCEPT ![c] = k],
             OnInhibitDelta(k - cookies[c]), UNCHANGED logindInhibited
      PROVE  ScreenSaverTypeOK' /\ inhibitLocks' = Reasons'
  <2>1. /\ cookies' \in [Clients -> 0 .. MaxCookies] /\ held' = held - (cookies[c] - k)
        /\ cookies[c] - k \in 0 .. held
        /\ block' = block
    BY <1>2, CookiesLost DEF block, held
  <2>2. cookies[c] \in Nat /\ k \in Nat
    BY ScreenSaverConstants DEF ScreenSaverTypeOK
  <2>3. Reasons' = Reasons + (k - cookies[c]) /\ Reasons' \in Nat /\ k - cookies[c] \in Int
    <3> DEFINE n == cookies[c]
    <3>1. n \in Nat /\ held' = held - (n - k) /\ n - k \in 0 .. held
      BY <2>1, <2>2
    <3> HIDE DEF n
    <3>2. /\ held' + block' = held + block + (k - n) /\ held' + block' \in Nat
          /\ k - n \in Int
      BY <1>0, <2>1, <2>2, <3>1
    <3> QED BY <1>0, <3>2 DEF n
  <2> QED BY <1>0, <1>2, <2>1, <2>3, ReasonsCounted DEF ScreenSaverTypeOK
<1>3. ASSUME NEW c \in Clients, OnUninhibit(c) PROVE ScreenSaverTypeOK' /\ inhibitLocks' = Reasons'
  <2>1. cookies[c] \in Nat
    BY ScreenSaverConstants DEF ScreenSaverTypeOK
  <2>2. cookies[c] - 1 \in 0 .. cookies[c] /\ (cookies[c] - 1) - cookies[c] = -1
    BY <1>3, <2>1 DEF OnUninhibit
  <2> QED BY <1>2, <1>3, <2>2 DEF OnUninhibit
<1>4. ASSUME NEW c \in Clients, UnregisterOwnerCookies(c)
      PROVE  ScreenSaverTypeOK' /\ inhibitLocks' = Reasons'
  <2>1. cookies[c] \in Nat
    BY ScreenSaverConstants DEF ScreenSaverTypeOK
  <2>2. 0 \in 0 .. cookies[c] /\ 0 - cookies[c] = -cookies[c]
    BY <2>1
  <2> QED BY <1>2, <1>4, <2>2 DEF UnregisterOwnerCookies
<1>5. ASSUME NEW blocked \in BOOLEAN, ApplyLogindBlockInhibited(blocked)
      PROVE  ScreenSaverTypeOK' /\ inhibitLocks' = Reasons'
  <2>1. cookies' = cookies /\ held' = held /\ logindInhibited' \in BOOLEAN
    BY <1>5 DEF ApplyLogindBlockInhibited, held, Held
  <2>2. CASE blocked
    <3>0. ~logindInhibited /\ logindInhibited' /\ OnInhibitDelta(1)
      BY <1>0, <1>5, <2>2 DEF ApplyLogindBlockInhibited
    <3>1. block' = block + 1 /\ OnInhibitDelta(1)
      BY <3>0 DEF block
    <3>2. Reasons' = Reasons + 1 /\ Reasons' \in Nat
      BY <1>0, <2>1, <3>1
    <3> QED BY <2>1, <3>1, <3>2, ReasonsCounted DEF ScreenSaverTypeOK
  <2>3. CASE ~blocked
    <3>0. logindInhibited /\ ~logindInhibited' /\ OnInhibitDelta(-1)
      BY <1>0, <1>5, <2>3 DEF ApplyLogindBlockInhibited
    <3>1. block' = block - 1 /\ OnInhibitDelta(-1)
      BY <3>0 DEF block
    <3>2. Reasons' = Reasons + (-1) /\ Reasons' \in Nat
      BY <1>0, <2>1, <3>1
    <3> QED BY <2>1, <3>1, <3>2, ReasonsCounted DEF ScreenSaverTypeOK
  <2> QED BY <2>2, <2>3
<1> QED BY <1>1, <1>3, <1>4, <1>5

LEMMA LocksInit == Init => LocksInv
<1> SUFFICES ASSUME Init PROVE LocksInv
  OBVIOUS
<1>1. /\ cookies = [c \in Clients |-> 0] /\ logindInhibited \in BOOLEAN
      /\ inhibitLocks = IF logindInhibited THEN 1 ELSE 0
      /\ locks = inhibitLocks
  BY DEF Init, ScreenSaverInit
<1>2. Held = {}
  BY <1>1 DEF Held
<1>3. Cardinality(Held) = 0
  BY <1>2, FS_EmptySet
<1>4. inhibitLocks = Reasons
  BY <1>1, <1>3 DEF Reasons
<1>5. ScreenSaverTypeOK
  BY <1>1, ScreenSaverConstants DEF ScreenSaverTypeOK
<1> QED BY <1>1, <1>4, <1>5 DEF LocksInv

LEMMA LocksStep == LocksInv /\ [Next]_vars => LocksInv'
<1> SUFFICES ASSUME LocksInv, [Next]_vars PROVE LocksInv'
  OBVIOUS
<1>1. CASE UNCHANGED inhibitVars
  BY <1>1 DEF inhibitVars, serviceVars, LocksInv, ScreenSaverTypeOK, Reasons, Held
<1>2. CASE SetScreenSaverInhibitLocks
           /\ \/ \E c \in Clients : OnInhibit(c) \/ OnUninhibit(c) \/ UnregisterOwnerCookies(c)
              \/ \E blocked \in BOOLEAN : ApplyLogindBlockInhibited(blocked)
  <2>1. ScreenSaverTypeOK' /\ inhibitLocks' = Reasons'
    BY <1>2, ServiceStep DEF LocksInv
  <2> QED BY <1>2, <2>1 DEF LocksInv, SetScreenSaverInhibitLocks
<1>3. CASE LogindChanges \/ \E c \in Clients : Inhibit(c) \/ Uninhibit(c) \/ OwnerGone(c)
  BY <1>2, <1>3 DEF LogindChanges, Inhibit, Uninhibit, OwnerGone
<1>4. CASE HandleEvent
  <2>1. ASSUME NEW b, HandleIdled(b) PROVE UNCHANGED inhibitVars
    BY <2>1 DEF HandleIdled, Suppress, BeginGrace, JoinGrace, managerVars
  <2>2. ASSUME NEW b, HandleResumed(b) PROVE UNCHANGED inhibitVars
    BY <2>2 DEF HandleResumed
  <2> QED BY <1>1, <1>4, <2>1, <2>2 DEF HandleEvent
<1>5. CASE \/ CompositorActivity \/ \E b \in Behaviors : CompositorIdle(b)
           \/ RunDeferred \/ StartFade \/ FadeEnds \/ OutputsChange \/ FallbackFires \/ Reload
  BY <1>1, <1>5 DEF CompositorActivity, CompositorIdle, RunDeferred, StartFade, FadeEnds,
                    OutputsChange, FallbackFires, Reload, managerVars
<1>6. CASE UNCHANGED vars
  BY <1>1, <1>6 DEF vars, managerVars
<1> QED BY <1>3, <1>4, <1>5, <1>6 DEF Next

\* The idle inhibit is in force exactly as long as a client of the session bus holds
\* a cookie or logind has a block: the count that idle_manager.cpp is handed is that
\* of the cookies in screensaver_service.cpp and the block, after every Inhibit,
\* UnInhibit, owner that leaves and BlockInhibited change.
THEOREM LocksAccounted == Spec => []LocksHaveReasons
<1>1. LocksInv => LocksHaveReasons
  BY DEF LocksInv, LocksHaveReasons
<1> QED BY <1>1, LocksInit, LocksStep, PTL DEF Spec

-----------------------------------------------------------------------------
(* The rest of the types *)

OverlayTypes ==
    /\ screens \in BOOLEAN
    /\ pendingFadeIn \in BOOLEAN /\ fading \in BOOLEAN
    /\ onFadeComplete # None => pendingFadeIn \/ fading

RestTypes ==
    /\ fade \in BOOLEAN /\ idledWhileInhibited \in BOOLEAN
    /\ grace \subseteq Behaviors
    /\ faded \subseteq Nat
    /\ OverlayTypes

LEMMA TypesTogether == GraceInv /\ WireInv /\ LocksInv /\ RestTypes => TypeOK
<1> SUFFICES ASSUME GraceInv, WireInv, LocksInv, RestTypes PROVE TypeOK
  OBVIOUS
<1>1. ScreenSaverTypeOK /\ locks \in Nat
  BY DEF LocksInv, ScreenSaverTypeOK
<1>2. fallback \in Nat
  BY DEF GraceInv, GraceTypes, FadeHasEnd, None
<1> QED BY <1>1, <1>2 DEF TypeOK, GraceInv, GraceTypes, WireInv, RestTypes, OverlayTypes

LEMMA RestInit == Init => RestTypes
BY DEF Init, RestTypes, OverlayTypes, None

LEMMA OverlayHidden ==
    ASSUME OverlayTypes, Hide
    PROVE  OverlayTypes'
BY DEF OverlayTypes, Hide

LEMMA OverlayFrame ==
    ASSUME OverlayTypes, UNCHANGED overlayVars
    PROVE  OverlayTypes'
BY DEF OverlayTypes, overlayVars

LEMMA RestStep == GraceInv /\ WireInv /\ RestTypes /\ [Next]_vars => RestTypes'
<1> SUFFICES ASSUME GraceTypes, FadeHasEnd, WireInv, RestTypes, [Next]_vars PROVE RestTypes'
  BY DEF GraceInv
<1>1. OverlayTypes
  BY DEF RestTypes
<1>2. CASE UNCHANGED <<fade, idledWhileInhibited, grace, overlayVars, faded>>
  BY <1>1, <1>2, OverlayFrame DEF RestTypes
<1>3. ASSUME EndGrace, fade' \in BOOLEAN, idledWhileInhibited' \in BOOLEAN, faded' = faded
      PROVE  RestTypes'
  <2>1. OverlayTypes' /\ grace' \subseteq Behaviors
    BY <1>1, <1>3, OverlayHidden, OverlayFrame DEF EndGrace, RestTypes
  <2> QED BY <1>3, <2>1 DEF RestTypes
<1>4. ASSUME CompleteGrace, UNCHANGED <<fade, idledWhileInhibited>>, faded' \subseteq Nat
      PROVE  RestTypes'
  <2>1. OverlayTypes' /\ grace' \subseteq Behaviors
    BY <1>1, <1>4, OverlayHidden DEF CompleteGrace
  <2> QED BY <1>4, <2>1 DEF RestTypes
<1>5. CASE HandleEvent
  <2>1. Head(events).of \in Behaviors
    <3>1. Head(events) \in WaylandEvent
      BY <1>5, EventTaken DEF WireInv, HandleEvent
    <3> QED BY <3>1 DEF WaylandEvent
  <2>2. ASSUME NEW b \in Behaviors, HandleIdled(b) PROVE RestTypes'
    <3>1. UNCHANGED <<fade, faded, overlayVars>>
      BY <2>2 DEF HandleIdled, Suppress, BeginGrace, JoinGrace, managerVars
    <3>2. idledWhileInhibited' \in BOOLEAN /\ (grace' \subseteq Behaviors)
      BY <2>2 DEF HandleIdled, Suppress, BeginGrace, JoinGrace, managerVars, RestTypes
    <3> QED BY <1>1, <3>1, <3>2, OverlayFrame DEF RestTypes
  <2>3. ASSUME NEW b \in Behaviors, HandleResumed(b) PROVE RestTypes'
    <3>1. UNCHANGED <<fade, idledWhileInhibited, faded>>
      BY <2>3 DEF HandleResumed
    <3>2. EndGrace \/ UNCHANGED <<grace, overlayVars>>
      BY <2>3 DEF HandleResumed, CancelGrace
    <3>3. CASE EndGrace
      BY <1>3, <3>1, <3>3 DEF RestTypes
    <3>4. CASE UNCHANGED <<grace, overlayVars>>
      BY <1>2, <3>1, <3>4
    <3> QED BY <3>2, <3>3, <3>4
  <2> QED BY <1>5, <2>1, <2>2, <2>3 DEF HandleEvent
<1>6. CASE RunDeferred
  <2> DEFINE call == Head(later)
  <2>1. call.generation \in Nat
    <3>1. call \in DeferredCall
      BY <1>6, HeadTailProperties, EmptySeq DEF RunDeferred, GraceTypes
    <3> QED BY <3>1 DEF DeferredCall
  <2>2. CASE Show(call.generation) /\ UNCHANGED managerVars
    <3>1. faded' \subseteq Nat /\ UNCHANGED <<fade, idledWhileInhibited, grace>>
      BY <2>1, <2>2 DEF Show, managerVars, RestTypes
    <3>2. OverlayTypes'
      BY <1>1, <2>2 DEF Show, OverlayTypes, overlayVars
    <3> QED BY <3>1, <3>2 DEF RestTypes
  <2>3. CASE /\ CompleteGrace \/ UNCHANGED <<phase, grace, graceGeneration, fallback, overlayVars>>
             /\ UNCHANGED <<enabled, fade, inhibitVars, idledWhileInhibited, faded>>
    BY <1>2, <1>4, <2>3 DEF RestTypes
  <2>4. CASE ReportFade(call.generation, Tail(later)) /\ UNCHANGED <<managerVars, overlayVars>>
    <3>1. faded' \subseteq Nat /\ UNCHANGED <<fade, idledWhileInhibited, grace>>
      BY <2>1, <2>4 DEF ReportFade, managerVars, RestTypes
    <3> QED BY <1>1, <2>4, <3>1, OverlayFrame DEF RestTypes
  <2> QED BY <1>6, <2>2, <2>3, <2>4 DEF RunDeferred
<1>7. CASE FadeEnds
  <2>1. faded' \subseteq Nat /\ UNCHANGED <<fade, idledWhileInhibited, grace>>
    BY <1>7 DEF FadeEnds, ReportFade, managerVars, RestTypes, GraceTypes
  <2>2. OverlayTypes'
    BY <1>1, <1>7 DEF FadeEnds, OverlayTypes
  <2> QED BY <2>1, <2>2 DEF RestTypes
<1>8. CASE OutputsChange
  BY <1>8 DEF OutputsChange, RestTypes, OverlayTypes, managerVars
<1>9. CASE FallbackFires
  <2>1. fallback \in Nat
    BY DEF FadeHasEnd, GraceTypes, None
  <2>2. UNCHANGED <<fade, idledWhileInhibited>> /\ (faded' \subseteq Nat)
    BY <1>9, <2>1 DEF FallbackFires, RestTypes
  <2>3. CASE CompleteGrace
    BY <1>4, <2>2, <2>3
  <2>4. CASE UNCHANGED <<grace, overlayVars>>
    BY <1>1, <2>2, <2>4, OverlayFrame DEF RestTypes
  <2> QED BY <1>9, <2>3, <2>4 DEF FallbackFires
<1>10. CASE SetScreenSaverInhibitLocks
  <2>1. CASE EndGrace /\ idledWhileInhibited' = FALSE /\ UNCHANGED <<fade, faded>>
    BY <1>3, <2>1 DEF RestTypes
  <2>2. CASE UNCHANGED <<fade, idledWhileInhibited, grace, overlayVars, faded>>
    BY <1>2, <2>2
  <2> QED BY <1>10, <2>1, <2>2 DEF SetScreenSaverInhibitLocks
<1>11. CASE LogindChanges \/ \E c \in Clients : Inhibit(c) \/ Uninhibit(c) \/ OwnerGone(c)
  BY <1>10, <1>11 DEF LogindChanges, Inhibit, Uninhibit, OwnerGone
<1>12. CASE Reload
  BY <1>3, <1>12 DEF Reload, RestTypes
<1>13. CASE CompositorActivity \/ \E b \in Behaviors : CompositorIdle(b)
  BY <1>2, <1>13 DEF CompositorActivity, CompositorIdle, managerVars
<1>14. CASE UNCHANGED vars
  BY <1>2, <1>14 DEF vars, managerVars
<1>15. CASE StartFade
  <2>1. UNCHANGED <<fade, idledWhileInhibited, grace, faded>>
    BY <1>15 DEF StartFade, managerVars
  <2>2. OverlayTypes'
    BY <1>1, <1>15 DEF StartFade, OverlayTypes
  <2> QED BY <2>1, <2>2 DEF RestTypes
<1> QED
  BY <1>5, <1>6, <1>7, <1>8, <1>9, <1>11, <1>12, <1>13, <1>14, <1>15 DEF Next

\* The state has the types IdleManager gives it; among them that a completion callback
\* is pending only while a fade runs or is asked for (idle_grace_overlay.cpp), and
\* that the compositor's idle behaviours are configured ones.
THEOREM TypeInvariant == Spec => []TypeOK
BY GraceInit, GraceStep, WireInit, WireStep, LocksInit, LocksStep, RestInit, RestStep,
   TypesTogether, PTL DEF Spec
=============================================================================
