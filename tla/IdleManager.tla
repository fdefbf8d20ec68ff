---------------------------- MODULE IdleManager ----------------------------
(***************************************************************************)
(* Idle behaviours: src/src/idle/idle_manager.cpp, the fade overlay of     *)
(* idle_grace_overlay.cpp and the two callbacks that join them in          *)
(* app/application_ui.cpp.  The compositor reports each behaviour idle     *)
(* after its timeout and resumed on the next activity.  Before the action  *)
(* of a behaviour runs the screen fades ("grace"); behaviours that go idle *)
(* meanwhile join the fade.  Activity during the fade cancels it.  The     *)
(* overlay is shown by a deferred call and reports the end of its fade by  *)
(* another one, while it is hidden at once; a fallback timer ends a grace  *)
(* whose overlay never reports.  A fade starts and ends in frames of the   *)
(* overlay, which may still fade for a cancelled grace when the next one   *)
(* shows it again.                                                         *)
(*                                                                         *)
(* Everything here is the main thread: an action is one Wayland event, one *)
(* deferred call, one timer callback, or a call from another service.  The *)
(* actions of behaviours, the idle heartbeat and configuration errors are  *)
(* not modelled.                                                           *)
(***************************************************************************)
EXTENDS ScreenSaverService, SequencesExt, Subsequences

CONSTANTS
    Behaviors,
    MaxGeneration,     \* bound: m_graceGeneration when the compositor reports idle
    MaxEvents          \* bound: Wayland events in flight when another is sent

ASSUME IdleConstants ==
    MaxGeneration \in Nat /\ MaxEvents \in Nat /\ IsFiniteSet(Behaviors)

VARIABLES
    \* the manager
    enabled,           \* the behaviours with a notification
    fade,              \* whether preActionFadeSeconds asks for a fade
    phase,             \* BehaviorState::phase
    grace,             \* m_graceBehaviors
    graceGeneration,
    fallback,          \* the generation m_graceFallbackTimer was started for, or 0
    locks,             \* m_screenSaverInhibitLocks
    idledWhileInhibited,
    \* the overlay
    screens,           \* whether there is an eligible output
    pendingFadeIn,     \* whether the next frame starts a fade
    fading,            \* whether a fade runs (fadeAnimId)
    onFadeComplete,    \* the generation m_onAllFadesComplete is for, or 0
    \* around them
    later,             \* the deferred calls
    told,              \* the behaviours the compositor considers idle
    events,            \* Wayland events on their way to the manager
    faded              \* history: the generations whose fade was reported over, or
                       \* whose fallback came

inhibitVars == <<locks, serviceVars>>
managerVars == <<enabled, fade, phase, grace, graceGeneration, fallback, inhibitVars,
                 idledWhileInhibited>>
overlayVars == <<screens, pendingFadeIn, fading, onFadeComplete>>
wlVars == <<told, events>>
vars == <<managerVars, overlayVars, later, wlVars, faded>>

None == 0
DeferredCall == [what : {"show", "complete", "done"}, generation : Nat]
WaylandEvent == [what : {"idled", "resumed"}, of : Behaviors]

TypeOK ==
    /\ ScreenSaverTypeOK
    /\ enabled \subseteq Behaviors
    /\ fade \in BOOLEAN /\ locks \in Nat /\ idledWhileInhibited \in BOOLEAN
    /\ phase \in [Behaviors -> {"Waiting", "Fading", "Idled"}]
    /\ grace \subseteq Behaviors
    /\ graceGeneration \in Nat /\ fallback \in Nat
    /\ screens \in BOOLEAN /\ pendingFadeIn \in BOOLEAN /\ fading \in BOOLEAN
    /\ onFadeComplete \in Nat
    /\ onFadeComplete # None => pendingFadeIn \/ fading
    /\ later \in Seq(DeferredCall)
    /\ told \subseteq enabled
    /\ events \in Seq(WaylandEvent)
    /\ faded \subseteq Nat

Init ==
    /\ enabled \in SUBSET Behaviors
    /\ fade \in BOOLEAN
    /\ phase = [b \in Behaviors |-> "Waiting"]
    /\ grace = {} /\ graceGeneration = 0 /\ fallback = None
    /\ ScreenSaverInit /\ locks = inhibitLocks /\ idledWhileInhibited = FALSE
    /\ screens \in BOOLEAN
    /\ pendingFadeIn = FALSE /\ fading = FALSE /\ onFadeComplete = None
    /\ later = <<>>
    /\ told = {} /\ events = <<>>
    /\ faded = {}

-----------------------------------------------------------------------------
(* The compositor *)

CompositorIdle(b) ==
    /\ b \in enabled \ told
    /\ graceGeneration <= MaxGeneration
    /\ Len(events) <= MaxEvents
    /\ told' = told \cup {b}
    /\ events' = Append(events, [what |-> "idled", of |-> b])
    /\ UNCHANGED <<managerVars, overlayVars, later, faded>>

\* Activity resumes all notifications that are idle, in some order.
CompositorActivity ==
    /\ told # {}
    /\ told' = {}
    /\ \E order \in SetToSeqs(told) :
          events' = events \o [i \in DOMAIN order |-> [what |-> "resumed", of |-> order[i]]]
    /\ UNCHANGED <<managerVars, overlayVars, later, faded>>

\* The notifications of bs are destroyed and, for those still configured, created
\* anew: libwayland drops the events of a destroyed proxy.  The code does nothing
\* without a seat or the notifier, which are bound before there is any behaviour and
\* kept until the shell exits.
Renew(bs, rest) ==
    /\ told' = told \ bs
    /\ events' = Kept(rest, LAMBDA e : e.of \notin bs)

-----------------------------------------------------------------------------
(* The overlay, as the two callbacks call it *)

\* Variant: the completion callback is left behind.
HideOnly ==
    /\ pendingFadeIn' = FALSE /\ fading' = FALSE
    /\ UNCHANGED <<screens, onFadeComplete>>

\* hide(): at once, and without the completion callback.
Hide ==
    /\ pendingFadeIn' = FALSE /\ fading' = FALSE
    /\ onFadeComplete' = None
    /\ UNCHANGED screens

\* show(): the next frame starts the fade on every output; without an output the
\* completion callback is deferred at once.  Surfaces that are there stay, and so does
\* the fade that runs on them.
Show(generation) ==
    /\ IF screens
       THEN /\ pendingFadeIn' = TRUE
            /\ onFadeComplete' = generation
            /\ later' = Tail(later)
            /\ UNCHANGED <<screens, fading>>
       ELSE /\ later' = Append(Tail(later), [what |-> "complete", generation |-> generation])
            /\ UNCHANGED overlayVars
    /\ UNCHANGED faded

\* The completion callback: the manager is told by a deferred call, after those queued.
ReportFade(generation, queued) ==
    /\ later' = Append(queued, [what |-> "done", generation |-> generation])
    /\ faded' = faded \cup {generation}

\* A frame cancels the fade that runs and starts the one asked for: startFadeIn().
StartFade ==
    /\ pendingFadeIn
    /\ fading' = TRUE
    /\ pendingFadeIn' = FALSE
    /\ UNCHANGED <<screens, onFadeComplete, managerVars, later, wlVars, faded>>

\* onFadeInstanceComplete() of the last output.  A frame ticks the fade that runs before
\* it starts the one asked for, so that the fade of an earlier show() may still end and
\* call the callback of the last.
FadeEnds ==
    /\ fading
    /\ fading' = pendingFadeIn
    /\ pendingFadeIn' = FALSE
    /\ onFadeComplete' = None
    /\ IF onFadeComplete = None THEN UNCHANGED <<later, faded>>
       ELSE ReportFade(onFadeComplete, later)
    /\ UNCHANGED <<screens, managerVars, wlVars>>

\* onOutputChange(): surfaces that do not match the outputs are destroyed.
OutputsChange ==
    /\ screens' \in BOOLEAN
    /\ screens \/ screens'
    /\ pendingFadeIn' = FALSE /\ fading' = FALSE
    /\ onFadeComplete' = None
    /\ UNCHANGED <<managerVars, later, wlVars, faded>>

-----------------------------------------------------------------------------
(* The grace *)

\* cancelActiveGrace(), but for the phases of the behaviours
EndGrace ==
    IF grace = {} THEN UNCHANGED <<grace, graceGeneration, fallback, overlayVars>>
    ELSE /\ grace' = {}
         /\ graceGeneration' = graceGeneration + 1
         /\ fallback' = None
         /\ Hide

\* Variant: the behaviours of a cancelled grace stay in their phase.
CancelGraceForgetting ==
    /\ EndGrace
    /\ UNCHANGED phase

CancelGrace ==
    /\ EndGrace
    /\ phase' = [b \in Behaviors |-> IF b \in grace THEN "Waiting" ELSE phase[b]]

\* graceFadeComplete(): the overlay goes first, then the actions run.
CompleteGrace ==
    /\ phase' = [b \in Behaviors |-> IF b \in grace THEN "Idled" ELSE phase[b]]
    /\ grace' = {}
    /\ fallback' = None
    /\ Hide
    /\ UNCHANGED graceGeneration

\* Variant: the end of any fade completes the grace.
CompletesAny(generation) == grace # {}

\* The end of a fade counts for the grace it was started for.
Completes(generation) == grace # {} /\ generation = graceGeneration

-----------------------------------------------------------------------------
(* Wayland events *)

\* Variant: the notification is left as it is.
SuppressForGood(b) ==
    /\ idledWhileInhibited' = TRUE
    /\ events' = Tail(events)
    /\ UNCHANGED <<enabled, fade, phase, grace, graceGeneration, fallback, inhibitVars,
                   overlayVars, later, told, faded>>

\* While an inhibit lock is held the behaviour starts to wait anew.
Suppress(b) ==
    /\ idledWhileInhibited' = TRUE
    /\ phase' = [phase EXCEPT ![b] = "Waiting"]
    /\ Renew({b}, Tail(events))
    /\ UNCHANGED <<enabled, fade, grace, graceGeneration, fallback, inhibitVars, overlayVars,
                   later, faded>>

JoinGrace(b) ==
    /\ phase' = [phase EXCEPT ![b] = "Fading"]
    /\ grace' = grace \cup {b}
    /\ events' = Tail(events)
    /\ UNCHANGED <<enabled, fade, inhibitVars, idledWhileInhibited, overlayVars, told, faded>>

\* Variant: only the overlay ends the grace.
BeginGraceUnguarded(b) ==
    /\ JoinGrace(b)
    /\ graceGeneration' = graceGeneration + 1
    /\ later' = Append(later, [what |-> "show", generation |-> graceGeneration'])
    /\ UNCHANGED fallback

\* A grace begins: the fallback is armed, and the overlay is to be shown later.
BeginGrace(b) ==
    /\ JoinGrace(b)
    /\ graceGeneration' = graceGeneration + 1
    /\ fallback' = graceGeneration'
    /\ later' = Append(later, [what |-> "show", generation |-> graceGeneration'])

HandleIdled(b) ==
    \/ /\ phase[b] # "Waiting"
       /\ events' = Tail(events)
       /\ UNCHANGED <<managerVars, overlayVars, later, told, faded>>
    \/ phase[b] = "Waiting" /\ locks > 0 /\ Suppress(b)
    \/ /\ phase[b] = "Waiting" /\ locks = 0 /\ fade /\ grace # {}
       /\ JoinGrace(b)
       /\ UNCHANGED <<graceGeneration, fallback, later>>
    \/ phase[b] = "Waiting" /\ locks = 0 /\ fade /\ grace = {} /\ BeginGrace(b)
    \/ \* without a fade the action runs now
       /\ phase[b] = "Waiting" /\ locks = 0 /\ ~fade
       /\ phase' = [phase EXCEPT ![b] = "Idled"]
       /\ events' = Tail(events)
       /\ UNCHANGED <<enabled, fade, grace, graceGeneration, fallback, inhibitVars,
                      idledWhileInhibited, overlayVars, later, told, faded>>

\* During the fade activity cancels it for all behaviours; after the action it runs
\* the resume action.
HandleResumed(b) ==
    /\ events' = Tail(events)
    /\ \/ /\ phase[b] = "Fading"
          /\ CancelGrace
       \/ /\ phase[b] = "Idled"
          /\ phase' = [phase EXCEPT ![b] = "Waiting"]
          /\ UNCHANGED <<grace, graceGeneration, fallback, overlayVars>>
       \/ /\ phase[b] = "Waiting"
          /\ UNCHANGED <<phase, grace, graceGeneration, fallback, overlayVars>>
    /\ UNCHANGED <<enabled, fade, inhibitVars, idledWhileInhibited, later, told, faded>>

HandleEvent ==
    /\ events # <<>>
    /\ \/ Head(events).what = "idled" /\ HandleIdled(Head(events).of)
       \/ Head(events).what = "resumed" /\ HandleResumed(Head(events).of)

-----------------------------------------------------------------------------
(* Deferred calls, timers and other services *)

\* The main loop runs the deferred calls in order, between Wayland events.
RunDeferred ==
    /\ later # <<>>
    /\ LET call == Head(later) IN
          \/ call.what = "show" /\ Show(call.generation) /\ UNCHANGED managerVars
          \/ /\ call.what = "complete"
             /\ ReportFade(call.generation, Tail(later))
             /\ UNCHANGED <<managerVars, overlayVars>>
          \/ /\ call.what = "done"
             /\ later' = Tail(later)
             /\ IF Completes(call.generation) THEN CompleteGrace
                ELSE UNCHANGED <<phase, grace, graceGeneration, fallback, overlayVars>>
             /\ UNCHANGED <<enabled, fade, inhibitVars, idledWhileInhibited, faded>>
    /\ UNCHANGED wlVars

\* The timer is started with the fade and 250 ms, when the overlay's show() is queued;
\* the loop runs the queued call before the time is over.
FallbackFires ==
    /\ fallback # None
    /\ \A i \in DOMAIN later : later[i] # [what |-> "show", generation |-> fallback]
    /\ faded' = faded \cup {fallback}
    /\ IF Completes(fallback) THEN CompleteGrace
       ELSE /\ fallback' = None
            /\ UNCHANGED <<phase, grace, graceGeneration, overlayVars>>
    /\ UNCHANGED <<enabled, fade, inhibitVars, idledWhileInhibited, later, wlVars>>

\* setScreenSaverInhibitLocks(), the service's change callback: when the last lock
\* is given back and one has suppressed anything, all behaviours start to wait anew
\* (recreateBehaviorNotifications()).
SetScreenSaverInhibitLocks ==
    /\ locks' = inhibitLocks'
    /\ IF locks > 0 /\ inhibitLocks' = 0 /\ idledWhileInhibited
       THEN /\ idledWhileInhibited' = FALSE
            /\ phase' = [b \in Behaviors |-> "Waiting"]
            /\ EndGrace
            /\ Renew(enabled, events)
       ELSE UNCHANGED <<idledWhileInhibited, phase, grace, graceGeneration, fallback,
                        overlayVars, wlVars>>
    /\ UNCHANGED <<enabled, fade, later, faded>>

Inhibit(c) == OnInhibit(c) /\ SetScreenSaverInhibitLocks

Uninhibit(c) == OnUninhibit(c) /\ SetScreenSaverInhibitLocks

OwnerGone(c) == UnregisterOwnerCookies(c) /\ SetScreenSaverInhibitLocks

LogindChanges ==
    /\ \E blocked \in BOOLEAN : ApplyLogindBlockInhibited(blocked)
    /\ SetScreenSaverInhibitLocks

\* reload(): the behaviours are replaced by those of the new configuration.
Reload ==
    /\ enabled' \in SUBSET Behaviors
    /\ fade' \in BOOLEAN
    /\ phase' = [b \in Behaviors |-> "Waiting"]
    /\ EndGrace
    /\ Renew(Behaviors, events)
    /\ UNCHANGED <<inhibitVars, idledWhileInhibited, later, faded>>

Next ==
    \/ \E b \in Behaviors : CompositorIdle(b)
    \/ CompositorActivity
    \/ HandleEvent \/ RunDeferred
    \/ StartFade \/ FadeEnds \/ OutputsChange \/ FallbackFires
    \/ \E c \in Clients : Inhibit(c) \/ Uninhibit(c) \/ OwnerGone(c)
    \/ LogindChanges \/ Reload

Spec == Init /\ [][Next]_vars

\* The main loop handles events, deferred calls and timers.  Frame callbacks, and so
\* the end of a fade, are up to the compositor.
Fairness == WF_vars(HandleEvent) /\ WF_vars(RunDeferred) /\ WF_vars(FallbackFires)

FairSpec == Spec /\ Fairness

-----------------------------------------------------------------------------
(* Properties *)

\* A behaviour is in the Fading phase as long as the grace lists it, and a grace is
\* never without the armed fallback that ends it: a behaviour left in Fading would
\* neither act nor accept another idle event.
FadeHasEnd ==
    /\ \A b \in Behaviors : phase[b] = "Fading" <=> b \in grace
    /\ grace # {} <=> fallback # None
    /\ fallback \in {None, graceGeneration}

\* An action that waits for the fade runs after the overlay has reported to its own
\* grace that a fade is over, or the fallback has come: a report to a cancelled grace,
\* however late, does not count.  (That the fade reported is the one of this grace is
\* more than the overlay keeps, see FadeEnds.)
ActionAfterFade ==
    [][\A b \in Behaviors : phase[b] = "Fading" /\ phase'[b] = "Idled"
                            => graceGeneration \in faded']_vars

\* The compositor reports idle once.  A behaviour it considers idle has acted, is
\* about to, or has an event on its way: in particular one that was suppressed by an
\* inhibit lock or cancelled gets its next chance.
NoForgottenIdle ==
    \A b \in told : phase[b] = "Waiting" => \E i \in DOMAIN events : events[i].of = b

\* The manager suppresses actions exactly as long as there is a reason to: a cookie
\* some client holds, or a block of logind.  No release is lost or counted twice,
\* whoever gives a cookie back and whatever its owner does then.
LocksHaveReasons == locks = Reasons

\* Every grace ends, also when outputs change or frames do not come.
FadeIsOver == grace # {} ~> grace = {}
=============================================================================
