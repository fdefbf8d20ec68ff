--------------------------- MODULE ScriptRuntime ---------------------------
(***************************************************************************)
(* Plugin entry runtimes: src/src/scripting/script_runtime.cpp, the worker *)
(* pool they share (script_worker_pool.cpp), the host-side bookkeeping of  *)
(* Lua callbacks (luau_host.cpp) and the delivery of results on the main   *)
(* thread (DeferredCall::callLater).                                       *)
(*                                                                         *)
(* Each runtime has a bounded mailbox guarded by its own mutex.  A runtime *)
(* with work is posted to the pool once; the worker that takes the task    *)
(* drains the mailbox event by event, running each in the runtime's VM,    *)
(* which no lock protects.  Results go back to the main thread.  Every     *)
(* action below is one critical section, or one step outside any lock.     *)
(*                                                                         *)
(* Data.  An event keeps its kind, its callback name (for Call/CallArgs),  *)
(* its queue policy, its generation and the host and reference it answers. *)
(* Load and Reload differ in name only and are one kind.  "command" stands *)
(* for the results of one-shot asynchronous callbacks, which share one     *)
(* path: AsyncCommandResult, AsyncProcessMatchResult, AsyncHttpResult and  *)
(* ColorPickerResult.  Stream lines are not modelled.  A call of the VM    *)
(* has at most one side effect and ends in one of Outcomes.                *)
(***************************************************************************)
EXTENDS Naturals, Sequences, FiniteSets, SequencesExt, PluginStateStore

CONSTANTS
    Functions,        \* names of script globals the shell calls
    QueueLimit,       \* kMaxQueuedEvents
    TimeoutLimit,     \* kMaxConsecutiveTimeouts
    TimeoutWindow,    \* kMaxTimeoutsPerWindow
    ErrorWindow,      \* kMaxHardErrorsPerWindow
    CommandLimit,     \* kMaxGlobalAsyncCommands
    Outcomes,         \* how a call of the VM may end: of "ok", "error", "timeout"
    Kinds,            \* the kinds of events and effects the environment produces
    MaxGeneration,    \* bound: reloads of one runtime
    MaxBacklog,       \* bound: results on the main thread when a new event is sent
    NoRuntime

ASSUME ScriptConstants ==
    /\ QueueLimit \in Nat \ {0}
    /\ TimeoutLimit \in Nat \ {0}
    /\ TimeoutWindow \in Nat \ {0}
    /\ ErrorWindow \in Nat \ {0}
    /\ CommandLimit \in Nat
    /\ MaxGeneration \in Nat
    /\ MaxBacklog \in Nat
    /\ Outcomes \subseteq {"ok", "error", "timeout"}
    /\ NoRuntime \notin Runtimes

VARIABLES
    \* guarded by the mutex of each runtime
    queue, scheduled, stopping, stopped, generation,
    updates,          \* updateQueued, updateRunning, and whether lastUpdateAccepted is set
    health,           \* unhealthy, consecutiveTimeouts, timeoutHistory, errorHistory
    \* the VM of each runtime, touched by the draining worker only
    hostId, callbacks, nextHostId,
    \* the worker pool and its threads
    posting, tasks, pc, job, event, out,
    \* the main thread, and the detached command threads
    results, loading, inFlight

taskVars    == <<scheduled, posting>>
statusVars  == <<generation, updates, health>>
mailboxVars == <<queue, taskVars, statusVars>>
stopVars    == <<stopping, stopped>>
hostVars    == <<hostId, callbacks, nextHostId>>
workerVars  == <<pc, job, event, out>>
mainVars    == <<results, loading>>
vars == <<mailboxVars, stopVars, hostVars, tasks, workerVars, mainVars, inFlight, storeVars>>

-----------------------------------------------------------------------------
(* Events, callbacks, results *)

NoHost == 0
NoRef == "none"
NoFunction == "none"

AllKinds == {"load", "update", "call", "settings", "command", "sound", "watch", "stop",
             "none"}

Event == [kind : AllKinds, fn : Functions \cup {NoFunction},
          coalesce : BOOLEAN, droppable : BOOLEAN, gen : Nat,
          host : Nat, ref : Refs \cup {NoRef}]

Plain(kind) == [kind |-> kind, fn |-> NoFunction, coalesce |-> FALSE,
                droppable |-> FALSE, gen |-> 0, host |-> NoHost, ref |-> NoRef]

NoEvent == Plain("none")

Call(f, coalesce, droppable) ==
    [Plain("call") EXCEPT !.fn = f, !.coalesce = coalesce, !.droppable = droppable]

Answer(kind, host, ref) == [Plain(kind) EXCEPT !.host = host, !.ref = ref]

\* What the main thread sends: reload(), enqueueUpdate(), enqueueSettingsChanged()
\* and the enqueueCall family.
MainEvents ==
    {Plain(k) : k \in Kinds \cap {"load", "update", "settings"}}
    \cup {Call(f, c, d) : f \in Functions, c \in BOOLEAN,
                          d \in (IF "call" \in Kinds THEN BOOLEAN ELSE {})}

\* A registered callback: its kind and its reference.
Callback == [kind : {"command", "sound", "watch"}, ref : Refs]

\* A sound to load or a command to run, for a callback of a VM.
Request == [rt : Runtimes, host : Nat, ref : Refs]

Result == [rt : Runtimes, gen : Nat, loads : SUBSET Refs, host : Nat]

\* What the VM is called for: onExit, the chunk of a load, the update() after it,
\* or the callback of an event.
Stages == {"exit", "load", "update", "event"}

-----------------------------------------------------------------------------
(* State *)

MailboxTypeOK ==
    /\ queue \in [Runtimes -> Seq(Event)]
    /\ scheduled \in [Runtimes -> BOOLEAN]
    /\ posting \in [Runtimes -> BOOLEAN]
    /\ generation \in [Runtimes -> Nat]
    /\ updates \in [Runtimes -> [queued : BOOLEAN, running : BOOLEAN, accepted : BOOLEAN]]
    /\ health \in [Runtimes -> [unhealthy : BOOLEAN, inRow : Nat, timeouts : Nat,
                                errors : Nat]]

StopTypeOK ==
    /\ stopping \in [Runtimes -> BOOLEAN]
    /\ stopped \in [Runtimes -> BOOLEAN]

HostTypeOK ==
    /\ hostId \in [Runtimes -> Nat]
    /\ callbacks \in [Runtimes -> SUBSET Callback]
    /\ nextHostId \in Nat \ {NoHost}

WorkerTypeOK ==
    /\ pc \in [Workers -> {"idle", "drain", "script", "exit", "reset", "build",
                           "notify", "health", "update", "finish"}]
    /\ job \in [Workers -> Runtimes \cup {NoRuntime}]
    /\ \A w \in Workers : job[w] = NoRuntime <=> pc[w] = "idle"
    /\ event \in [Workers -> Event]
    /\ out \in [Workers -> [outcome : {"ok", "error", "timeout"}, called : BOOLEAN,
                            stage : Stages, loads : SUBSET Refs]]

MainTypeOK ==
    /\ tasks \in Seq(Runtimes)
    /\ results \in Seq(Result)
    /\ loading \subseteq Request
    /\ inFlight \subseteq Request

TypeOK ==
    MailboxTypeOK /\ StopTypeOK /\ HostTypeOK /\ WorkerTypeOK /\ MainTypeOK /\ StoreTypeOK

\* The result of the current event so far: how the last call of the VM ended,
\* whether there was one, what it was for, and the sounds to load.
NoOut == [outcome |-> "ok", called |-> FALSE, stage |-> "event", loads |-> {}]

NoUpdate == [queued |-> FALSE, running |-> FALSE, accepted |-> FALSE]
Healthy == [unhealthy |-> FALSE, inRow |-> 0, timeouts |-> 0, errors |-> 0]

Init ==
    /\ queue = [r \in Runtimes |-> <<>>]
    /\ scheduled = [r \in Runtimes |-> FALSE]
    /\ stopping = [r \in Runtimes |-> FALSE]
    /\ stopped = [r \in Runtimes |-> FALSE]
    /\ generation = [r \in Runtimes |-> 0]
    /\ updates = [r \in Runtimes |-> NoUpdate]
    /\ health = [r \in Runtimes |-> Healthy]
    /\ hostId = [r \in Runtimes |-> NoHost]
    /\ callbacks = [r \in Runtimes |-> {}]
    /\ nextHostId = 1
    /\ posting = [r \in Runtimes |-> FALSE]
    /\ tasks = <<>>
    /\ pc = [w \in Workers |-> "idle"]
    /\ job = [w \in Workers |-> NoRuntime]
    /\ event = [w \in Workers |-> NoEvent]
    /\ out = [w \in Workers |-> NoOut]
    /\ results = <<>>
    /\ loading = {}
    /\ inFlight = {}
    /\ StoreInit

-----------------------------------------------------------------------------
(* enqueue(): one critical section of the runtime's mutex *)

\* Still allowed on a runtime that is disabled for bad health.
Exempt(kind) == kind \in {"load", "sound", "stop"}

Open(r, e) ==
    /\ ~stopped[r] /\ ~stopping[r]
    /\ health[r].unhealthy => Exempt(e.kind)

Superseded(r, e) ==
    IF e.kind = "call" /\ e.coalesce
    THEN SelectInSeq(queue[r],
             LAMBDA q : q.kind = "call" /\ q.coalesce /\ q.fn = e.fn)
    ELSE 0

\* Variant: sound completions obey the limit too.
FullForAll(r, e) == Len(queue[r]) >= QueueLimit

\* Sound completions are admitted beyond the limit.
Full(r, e) == Len(queue[r]) >= QueueLimit /\ e.kind # "sound"

\* Variant: the oldest event is evicted, whatever it is.
EvictableOldest(r) == IF queue[r] = <<>> THEN 0 ELSE 1

Evictable(r) ==
    SelectInSeq(queue[r], LAMBDA q : q.kind = "update" \/ q.droppable)

NoRoom(r, e) ==
    Full(r, e) /\ (e.kind = "update" \/ e.droppable \/ Evictable(r) = 0)

Evicts(r, e) == Full(r, e) /\ ~NoRoom(r, e)

\* Variant: every enqueue posts a task.
ScheduleAlways(r) ==
    /\ scheduled' = [scheduled EXCEPT ![r] = TRUE]
    /\ posting' = [posting EXCEPT ![r] = TRUE]

\* `scheduled` makes the runtime's one task; the post itself follows the unlock.
Schedule(r) ==
    /\ scheduled' = [scheduled EXCEPT ![r] = TRUE]
    /\ posting' = [posting EXCEPT ![r] = @ \/ ~scheduled[r]]

Refuse(r, e) ==
    /\ ~Open(r, e)
    /\ UNCHANGED mailboxVars

Supersede(r, e) ==
    /\ Open(r, e)
    /\ Superseded(r, e) # 0
    /\ queue' = [queue EXCEPT ![r][Superseded(r, e)] = [e EXCEPT !.gen = generation[r]]]
    /\ UNCHANGED <<taskVars, statusVars>>

\* An update is absorbed by one that is queued or running, or, once one was
\* accepted, by the throttle (whether the interval has passed is not modelled).
AbsorbUpdate(r, e) ==
    /\ Open(r, e)
    /\ e.kind = "update"
    /\ updates[r].queued \/ updates[r].running \/ updates[r].accepted
    /\ UNCHANGED mailboxVars

Admissible(r, e) ==
    /\ Open(r, e)
    /\ Superseded(r, e) = 0
    /\ e.kind = "update" => ~updates[r].queued /\ ~updates[r].running

DropWhenFull(r, e) ==
    /\ Admissible(r, e)
    /\ NoRoom(r, e)
    /\ updates' = [updates EXCEPT ![r].accepted = @ \/ e.kind = "update"]
    /\ UNCHANGED <<queue, taskVars, generation, health>>

\* The queue the event is appended to.
Room(r, e) ==
    IF e.kind = "load" THEN <<>>
    ELSE IF Evicts(r, e) THEN RemoveAt(queue[r], Evictable(r))
    ELSE queue[r]

\* Variant: evicting an update leaves its flag set.
EvictsUpdateUnnoticed(r, e) == FALSE

EvictsUpdate(r, e) ==
    Evicts(r, e) /\ queue[r][Evictable(r)].kind = "update"

Admit(r, e) ==
    LET load == e.kind = "load"
        gen == IF load THEN generation[r] + 1 ELSE generation[r]
    IN  /\ Admissible(r, e)
        /\ ~NoRoom(r, e)
        /\ queue' = [queue EXCEPT ![r] = Append(Room(r, e), [e EXCEPT !.gen = gen])]
        /\ generation' = [generation EXCEPT ![r] = gen]
        /\ updates' = [updates EXCEPT ![r] =
              IF load THEN NoUpdate
              ELSE IF e.kind = "update" THEN [@ EXCEPT !.queued = TRUE, !.accepted = TRUE]
              ELSE IF EvictsUpdate(r, e) THEN [@ EXCEPT !.queued = FALSE]
              ELSE @]
        /\ health' = [health EXCEPT ![r] = IF load THEN Healthy ELSE @]
        /\ Schedule(r)

Enqueue(r, e) ==
    \/ Refuse(r, e)
    \/ Supersede(r, e)
    \/ AbsorbUpdate(r, e)
    \/ DropWhenFull(r, e)
    \/ Admit(r, e)

-----------------------------------------------------------------------------
(* The main thread *)

\* stop() blocks its caller, the main thread, until the worker has stopped the
\* runtime; sound loads are done within deliverResult().
MainFree ==
    /\ \A r \in Runtimes : stopping[r] => stopped[r]
    /\ loading = {}

\* One of the calls of ScriptRuntime that post an event.
Send(r, e) ==
    /\ MainFree
    /\ Len(results) <= MaxBacklog
    /\ e.kind = "load" => generation[r] < MaxGeneration
    /\ Enqueue(r, e)
    /\ UNCHANGED <<stopVars, hostVars, workerVars, mainVars, tasks, inFlight, storeVars>>

\* Variant: stop() does not wait for the worker.
StopWithoutWaiting(r) ==
    /\ MainFree
    /\ ~stopping[r]
    /\ stopping' = [stopping EXCEPT ![r] = TRUE]
    /\ stopped' = [stopped EXCEPT ![r] = TRUE]
    /\ queue' = [queue EXCEPT ![r] = <<[Plain("stop") EXCEPT !.gen = generation[r]]>>]
    /\ updates' = [updates EXCEPT ![r].queued = FALSE]
    /\ Schedule(r)
    /\ UNCHANGED <<generation, health, hostVars, workerVars, mainVars, tasks, inFlight,
                   storeVars>>

\* stop(): close the mailbox to all but the Stop event, then wait.
Stop(r) ==
    /\ MainFree
    /\ ~stopping[r]
    /\ stopping' = [stopping EXCEPT ![r] = TRUE]
    /\ queue' = [queue EXCEPT ![r] = <<[Plain("stop") EXCEPT !.gen = generation[r]]>>]
    /\ updates' = [updates EXCEPT ![r].queued = FALSE]
    /\ Schedule(r)
    /\ UNCHANGED <<stopped, generation, health, hostVars, workerVars, mainVars, tasks,
                   inFlight, storeVars>>

\* Variant: the task is lost.
PostLost(r) ==
    /\ posting[r]
    /\ posting' = [posting EXCEPT ![r] = FALSE]
    /\ UNCHANGED <<queue, scheduled, statusVars, stopVars, hostVars, workerVars, mainVars,
                   tasks, inFlight, storeVars>>

\* ScriptWorkerPool::post() by whoever made the runtime scheduled.
Post(r) ==
    /\ posting[r]
    /\ posting' = [posting EXCEPT ![r] = FALSE]
    /\ tasks' = Append(tasks, r)
    /\ UNCHANGED <<queue, scheduled, statusVars, stopVars, hostVars, workerVars, mainVars,
                   inFlight, storeVars>>

\* deliverResult(): a result of an older generation, or of a stopped runtime, is
\* dropped with its side effects.
Deliver ==
    /\ MainFree
    /\ results # <<>>
    /\ LET res == Head(results) IN
          loading' = IF res.gen # generation[res.rt] \/ stopped[res.rt] THEN {}
                     ELSE {[rt |-> res.rt, host |-> res.host, ref |-> f] : f \in res.loads}
    /\ results' = Tail(results)
    /\ UNCHANGED <<mailboxVars, stopVars, hostVars, workerVars, tasks, inFlight, storeVars>>

\* The LoadSound side effect: its completion is enqueued on the runtime.
LoadSound(l) ==
    /\ l \in loading
    /\ loading' = loading \ {l}
    /\ Enqueue(l.rt, Answer("sound", l.host, l.ref))
    /\ UNCHANGED <<stopVars, hostVars, workerVars, tasks, results, inFlight, storeVars>>

-----------------------------------------------------------------------------
(* Detached command threads *)

\* The command of startAsyncCommand() ends and its thread enqueues the result.
CommandEnds(c) ==
    /\ c \in inFlight
    /\ Len(results) <= MaxBacklog
    /\ inFlight' = inFlight \ {c}
    /\ Enqueue(c.rt, Answer("command", c.host, c.ref))
    /\ UNCHANGED <<stopVars, hostVars, workerVars, mainVars, tasks, storeVars>>

-----------------------------------------------------------------------------
(* The worker threads *)

\* runWorker(): wait for a task and take the oldest.
TakeTask(w) ==
    /\ pc[w] = "idle"
    /\ tasks # <<>>
    /\ pc' = [pc EXCEPT ![w] = "drain"]
    /\ job' = [job EXCEPT ![w] = Head(tasks)]
    /\ tasks' = Tail(tasks)
    /\ UNCHANGED <<mailboxVars, stopVars, hostVars, event, out, mainVars, inFlight, storeVars>>

\* Variant: the task ends with `scheduled` still set.
DrainEndsScheduled(w) ==
    LET r == job[w] IN
    /\ pc[w] = "drain"
    /\ queue[r] = <<>> \/ stopped[r]
    /\ pc' = [pc EXCEPT ![w] = "idle"]
    /\ job' = [job EXCEPT ![w] = NoRuntime]
    /\ UNCHANGED <<mailboxVars, stopVars, hostVars, event, out, mainVars, tasks,
                   inFlight, storeVars>>

\* Variant: the worker goes idle without letting go of the runtime.
DrainEndsHolding(w) ==
    LET r == job[w] IN
    /\ pc[w] = "drain"
    /\ queue[r] = <<>> \/ stopped[r]
    /\ scheduled' = [scheduled EXCEPT ![r] = FALSE]
    /\ pc' = [pc EXCEPT ![w] = "idle"]
    /\ UNCHANGED <<queue, posting, statusVars, stopVars, hostVars, job, event, out,
                   mainVars, tasks, inFlight, storeVars>>

\* drain(), nothing left: the task ends, and the next enqueue makes a new one.
DrainEnds(w) ==
    LET r == job[w] IN
    /\ pc[w] = "drain"
    /\ queue[r] = <<>> \/ stopped[r]
    /\ scheduled' = [scheduled EXCEPT ![r] = FALSE]
    /\ pc' = [pc EXCEPT ![w] = "idle"]
    /\ job' = [job EXCEPT ![w] = NoRuntime]
    /\ UNCHANGED <<queue, posting, statusVars, stopVars, hostVars, event, out, mainVars,
                   tasks, inFlight, storeVars>>

\* drain(): pop the next event.
DrainPops(w) ==
    LET r == job[w]
        e == Head(queue[r])
        update == e.kind = "update"
    IN  /\ pc[w] = "drain"
        /\ queue[r] # <<>> /\ ~stopped[r]
        /\ queue' = [queue EXCEPT ![r] = Tail(@)]
        /\ updates' = [updates EXCEPT ![r].queued = @ /\ ~update, ![r].running = @ \/ update]
        /\ event' = [event EXCEPT ![w] = e]
        /\ pc' = [pc EXCEPT ![w] = "script"]
        /\ UNCHANGED <<taskVars, generation, health, stopVars, hostVars, job, out, mainVars,
                       tasks, inFlight, storeVars>>

\* The reference of a new callback of a VM that has the callbacks cbs: lua_ref()
\* numbers them per VM, so two VMs of a runtime use the same references.
FreeRefs(cbs) == Refs \ {c.ref : c \in cbs}

AfterCall(stage) == IF stage = "exit" THEN "reset" ELSE "health"

\* A call of the VM h of the runtime of w, with the callbacks cbs registered.
VmCall(w, h, cbs, stage) ==
    LET r == job[w]
        Registers(kind, ref) ==
            callbacks' = [callbacks EXCEPT ![r] = cbs \cup {[kind |-> kind, ref |-> ref]}]
        Ends(loads) == \E o \in Outcomes :
            out' = [out EXCEPT ![w] = [outcome |-> o, called |-> TRUE, stage |-> stage,
                                       loads |-> @.loads \cup loads]]
        Goto(label) == pc' = [pc EXCEPT ![w] = label]
        Plainly == callbacks' = [callbacks EXCEPT ![r] = cbs]
    IN  \/ /\ Plainly /\ Ends({}) /\ Goto(AfterCall(stage))
           /\ UNCHANGED <<inFlight, storeVars>>
        \/ \* startAsyncCommand(): refused at the global limit
           /\ "command" \in Kinds
           /\ Cardinality(inFlight) < CommandLimit
           /\ \E ref \in FreeRefs(cbs) :
                 /\ Registers("command", ref)
                 /\ inFlight' = inFlight \cup {[rt |-> r, host |-> h, ref |-> ref]}
           /\ Ends({}) /\ Goto(AfterCall(stage))
           /\ UNCHANGED storeVars
        \/ \* scriptLoadSound(): a side effect of the result
           /\ "sound" \in Kinds
           /\ \E ref \in FreeRefs(cbs) : Registers("sound", ref) /\ Ends({ref})
           /\ Goto(AfterCall(stage))
           /\ UNCHANGED <<inFlight, storeVars>>
        \/ \* noctalia.state.watch()
           /\ "watch" \in Kinds
           /\ \E k \in Keys, ref \in FreeRefs(cbs) :
                 Registers("watch", ref) /\ Watch(k, r, ref, h)
           /\ Ends({}) /\ Goto(AfterCall(stage))
           /\ UNCHANGED inFlight
        \/ \* noctalia.state.set(): the watchers are called before the call goes on
           /\ "watch" \in Kinds
           /\ Len(results) <= MaxBacklog
           /\ \E k \in Keys : SetKey(w, k)
           /\ Plainly /\ Ends({})
           /\ Goto(IF notifying'[w] = {} THEN AfterCall(stage) ELSE "notify")
           /\ UNCHANGED inFlight

\* teardownHost(), at the start of a load and for Stop: the watchers go first, so
\* that none answers while the old VM runs onExit, if it has one.
Teardown(w) ==
    LET r == job[w] IN
    /\ pc[w] = "script"
    /\ event[w].kind \in {"load", "stop"}
    /\ RemoveWatchers(r)
    /\ \/ hostId[r] # NoHost /\ pc' = [pc EXCEPT ![w] = "exit"]
       \/ pc' = [pc EXCEPT ![w] = "reset"]
    /\ UNCHANGED <<mailboxVars, stopVars, hostVars, job, event, out, mainVars, tasks, inFlight>>

OnExit(w) ==
    /\ pc[w] = "exit"
    /\ VmCall(w, hostId[job[w]], callbacks[job[w]], "exit")
    /\ UNCHANGED <<mailboxVars, stopVars, hostId, nextHostId, job, event, mainVars, tasks>>

\* Variant: the watchers are removed only before onExit.
ResetHostOnce(w) ==
    LET r == job[w] IN
    /\ pc[w] = "reset"
    /\ hostId' = [hostId EXCEPT ![r] = NoHost]
    /\ callbacks' = [callbacks EXCEPT ![r] = {}]
    /\ out' = [out EXCEPT ![w] = NoOut]
    /\ pc' = [pc EXCEPT ![w] = IF event[w].kind = "load" THEN "build" ELSE "finish"]
    /\ UNCHANGED <<mailboxVars, stopVars, nextHostId, job, event, mainVars, tasks,
                   inFlight, storeVars>>

\* The rest of teardownHost(): the watchers onExit registered go too, its side
\* effects are lost, and the VM is destroyed.
ResetHost(w) ==
    LET r == job[w] IN
    /\ pc[w] = "reset"
    /\ RemoveWatchers(r)
    /\ hostId' = [hostId EXCEPT ![r] = NoHost]
    /\ callbacks' = [callbacks EXCEPT ![r] = {}]
    /\ out' = [out EXCEPT ![w] = NoOut]
    /\ pc' = [pc EXCEPT ![w] = IF event[w].kind = "load" THEN "build" ELSE "finish"]
    /\ UNCHANGED <<mailboxVars, stopVars, nextHostId, job, event, mainVars, tasks, inFlight>>

\* processLoad(): a new VM runs the chunk.
Build(w) ==
    /\ pc[w] = "build"
    /\ hostId' = [hostId EXCEPT ![job[w]] = nextHostId]
    /\ nextHostId' = nextHostId + 1
    /\ VmCall(w, nextHostId, {}, "load")
    /\ UNCHANGED <<mailboxVars, stopVars, job, event, mainVars, tasks>>

\* Variant: a result of an earlier host is not recognised.
AnswersAnyHost(r, e) ==
    e.kind \in {"command", "sound", "watch"} =>
          [kind |-> e.kind, ref |-> e.ref] \in callbacks[r]

\* processEvent(): the callback an asynchronous result answers must be registered
\* and, but for state watches, the result must name the current host.
Answers(r, e) ==
    /\ e.kind \in {"command", "sound"} => e.host = hostId[r]
    /\ e.kind \in {"command", "sound", "watch"} =>
          [kind |-> e.kind, ref |-> e.ref] \in callbacks[r]

\* processEvent() returns no result: no VM, a stale or unknown callback, or a
\* global the script does not define.
Ignore(w) ==
    LET r == job[w]
        e == event[w]
    IN  /\ pc[w] = "script"
        /\ e.kind \notin {"load", "stop"}
        /\ \/ hostId[r] = NoHost
           \/ ~Answers(r, e)
           \/ e.kind \in {"update", "call", "settings"}
        /\ pc' = [pc EXCEPT ![w] = "finish"]
        /\ UNCHANGED <<mailboxVars, stopVars, hostVars, job, event, out, mainVars,
                       tasks, inFlight, storeVars>>

\* processEvent() calls the VM.  One-shot callbacks are unregistered by the call.
Run(w) ==
    LET r == job[w]
        e == event[w]
        used == IF e.kind \in {"command", "sound"}
                THEN {[kind |-> e.kind, ref |-> e.ref]} ELSE {}
    IN  /\ pc[w] = "script"
        /\ e.kind \notin {"load", "stop"}
        /\ hostId[r] # NoHost
        /\ Answers(r, e)
        /\ VmCall(w, hostId[r], callbacks[r] \ used, "event")
        /\ UNCHANGED <<mailboxVars, stopVars, hostId, nextHostId, job, event, mainVars, tasks>>

\* The loop of PluginStateStore::set(): the watcher enqueues on its own runtime.
NotifyNext(w) ==
    /\ pc[w] = "notify"
    /\ \E e \in notifying[w] :
          /\ NotifyWatcher(w, e)
          /\ Enqueue(e.token, Answer("watch", e.vm, e.ref))
          /\ pc' = [pc EXCEPT ![w] = 
                IF notifying[w] = {e} THEN AfterCall(out[w].stage) ELSE "notify"]
    /\ UNCHANGED <<stopVars, hostVars, job, event, out, mainVars, tasks, inFlight>>

\* A history keeps the failures still in the window (which ones is not modelled)
\* and the new one; beyond the limit its length no longer matters.
Grown(n, limit) == {IF kept + 1 < limit THEN kept + 1 ELSE limit : kept \in 0..n}

\* collectResult() and updateHealth(), whatever the generation of the event.
Health(w) ==
    LET r == job[w]
        o == out[w].outcome
        inRow == IF health[r].inRow + 1 < TimeoutLimit THEN health[r].inRow + 1
                 ELSE TimeoutLimit
    IN  /\ pc[w] = "health"
        /\ \/ /\ o = "ok"
              /\ health' = [health EXCEPT ![r].inRow = 0]
           \/ /\ o = "error"
              /\ \E n \in Grown(health[r].errors, ErrorWindow) :
                    health' = [health EXCEPT ![r].inRow = 0, ![r].errors = n,
                                 ![r].unhealthy = @ \/ n >= ErrorWindow]
           \/ /\ o = "timeout"
              /\ \E n \in Grown(health[r].timeouts, TimeoutWindow) :
                    health' = [health EXCEPT ![r].inRow = inRow, ![r].timeouts = n,
                                 ![r].unhealthy = @ \/ n >= TimeoutWindow
                                                    \/ inRow >= TimeoutLimit]
        /\ pc' = [pc EXCEPT ![w] =
              IF out[w].stage = "load" /\ o = "ok" THEN "update" ELSE "finish"]
        /\ UNCHANGED <<queue, taskVars, generation, updates, stopVars, hostVars, job, event,
                       out, mainVars, tasks, inFlight, storeVars>>

\* A load that went well calls update(), if the script defines it.
LoadUpdate(w) ==
    /\ pc[w] = "update"
    /\ \/ /\ pc' = [pc EXCEPT ![w] = "finish"]
          /\ UNCHANGED <<callbacks, out, inFlight, storeVars>>
       \/ VmCall(w, hostId[job[w]], callbacks[job[w]], "update")
    /\ UNCHANGED <<mailboxVars, stopVars, hostId, nextHostId, job, event, mainVars, tasks>>

\* drain(), after an event: the update is over, and the result goes to the main
\* thread (postResult).
Finish(w) ==
    LET r == job[w]
        e == event[w]
    IN  /\ pc[w] = "finish"
        /\ e.kind # "stop"
        /\ updates' = [updates EXCEPT ![r].running = @ /\ e.kind # "update"]
        /\ results' = IF out[w].called
                      THEN Append(results, [rt |-> r, gen |-> e.gen, loads |-> out[w].loads,
                                            host |-> hostId[r]])
                      ELSE results
        /\ event' = [event EXCEPT ![w] = NoEvent]
        /\ out' = [out EXCEPT ![w] = NoOut]
        /\ pc' = [pc EXCEPT ![w] = "drain"]
        /\ UNCHANGED <<queue, taskVars, generation, health, stopVars, hostVars, job, loading,
                       tasks, inFlight, storeVars>>

\* drain(), after the teardown for Stop: the runtime is closed for good.
FinishStop(w) ==
    LET r == job[w] IN
    /\ pc[w] = "finish"
    /\ event[w].kind = "stop"
    /\ queue' = [queue EXCEPT ![r] = <<>>]
    /\ stopped' = [stopped EXCEPT ![r] = TRUE]
    /\ scheduled' = [scheduled EXCEPT ![r] = FALSE]
    /\ event' = [event EXCEPT ![w] = NoEvent]
    /\ pc' = [pc EXCEPT ![w] = "idle"]
    /\ job' = [job EXCEPT ![w] = NoRuntime]
    /\ UNCHANGED <<posting, statusVars, stopping, hostVars, out, mainVars, tasks, inFlight,
                   storeVars>>

Drain(w) ==
    \/ DrainEnds(w) \/ DrainPops(w)
    \/ Teardown(w) \/ OnExit(w) \/ ResetHost(w) \/ Build(w)
    \/ Ignore(w) \/ Run(w) \/ NotifyNext(w) \/ Health(w) \/ LoadUpdate(w)
    \/ Finish(w) \/ FinishStop(w)

-----------------------------------------------------------------------------

Next ==
    \/ \E r \in Runtimes : (\E e \in MainEvents : Send(r, e)) \/ Stop(r) \/ Post(r)
    \/ Deliver
    \/ \E l \in loading : LoadSound(l)
    \/ \E c \in inFlight : CommandEnds(c)
    \/ \E w \in Workers : TakeTask(w) \/ Drain(w)

Spec == Init /\ [][Next]_vars

\* A script call ends within its CPU budget, a posting thread posts, a worker
\* with a task goes on, the main loop runs its deferred calls.
Fairness ==
    /\ \A r \in Runtimes : WF_vars(Post(r))
    /\ \A w \in Workers : WF_vars(TakeTask(w)) /\ WF_vars(Drain(w))
    /\ WF_vars(Deliver)
    /\ WF_vars(\E l \in loading : LoadSound(l))

FairSpec == Spec /\ Fairness
-----------------------------------------------------------------------------
(* Properties *)

\* A VM (LuauHost) is not guarded by a lock: no two workers are ever within one
\* runtime.  The `scheduled` flag set by enqueue() and stop() and cleared by
\* drain() is all that prevents it.
SingleDrain ==
    \A v, w \in Workers : job[v] = job[w] /\ job[v] # NoRuntime => v = w

\* No lost wakeup: while a mailbox has an event, its task is about to be posted,
\* waits in the pool or is run by a worker.  It is what drain() and enqueue() owe
\* each other when the one empties the queue and the other fills it.
NoStrandedEvent ==
    \A r \in Runtimes : queue[r] # <<>> =>
        \/ posting[r]
        \/ \E i \in DOMAIN tasks : tasks[i] = r
        \/ \E w \in Workers : job[w] = r

\* The two flags that make enqueue() absorb an update are never left behind by an
\* eviction, a supersession, a reload or a stop: if they were, the script's
\* update() would never be called again.
UpdateFlags ==
    \A r \in Runtimes :
        /\ updates[r].queued <=> \E i \in DOMAIN queue[r] : queue[r][i].kind = "update"
        /\ updates[r].running => \E w \in Workers : job[w] = r /\ event[w].kind = "update"

\* A load, or the stop, that will tear the current VM of r down.
Doomed(r) ==
    \/ \E i \in DOMAIN queue[r] : queue[r][i].kind \in {"load", "stop"}
    \/ \E w \in Workers : job[w] = r /\ event[w].kind \in {"load", "stop"}
                          /\ (pc[w] \in {"script", "exit", "reset"} \/ out[w].stage = "exit")

\* A VM may have few sound loads pending (kMaxPendingSoundLoadsPerHost), so the
\* completion of each must come back, whatever the mailbox limit and the health of
\* the runtime say: the load is on its way to the main thread, there, in the
\* mailbox, or being answered, unless the VM is about to be torn down.
SoundSlotAccounted ==
    \A r \in Runtimes : \A c \in callbacks[r] : c.kind = "sound" =>
        \/ Doomed(r)
        \/ \E w \in Workers : job[w] = r /\
              (c.ref \in out[w].loads \/ (pc[w] = "script" /\ event[w].kind = "sound"
                                                          /\ event[w].ref = c.ref))
        \/ \E i \in DOMAIN results : results[i].rt = r /\ results[i].host = hostId[r]
                                                      /\ c.ref \in results[i].loads
        \/ [rt |-> r, host |-> hostId[r], ref |-> c.ref] \in loading
        \/ \E i \in DOMAIN queue[r] : queue[r][i].kind = "sound"
                 /\ queue[r][i].ref = c.ref /\ queue[r][i].host = hostId[r]

\* Once stop() may return, nothing of the runtime is left on a worker or in the
\* store: its owner is free to destroy what the scripts' results refer to.
StoppedIsQuiet ==
    \A r \in Runtimes : stopped[r] =>
        /\ hostId[r] = NoHost
        /\ \A w \in Workers : job[w] # r
        /\ \A e \in watchers : e.token # r

\* The result of a command or of a sound load is never handed to another VM than
\* the one that asked for it, although both number their callbacks alike.
AnswerReachesAsker ==
    \A w \in Workers :
        pc[w] \in {"notify", "health"} /\ event[w].kind \in {"command", "sound"}
        => event[w].host = hostId[job[w]]

\* The same of state watches, which is what the comment on teardownHost() says
\* ("Prevent old or newly registered watchers from outliving this VM"): a watch
\* callback runs in the VM that registered it.
WatchReachesWatcher ==
    \A w \in Workers :
        pc[w] \in {"notify", "health"} /\ event[w].kind = "watch"
        => event[w].host = hostId[job[w]]

\* Every registered watcher belongs to the VM its runtime has now: teardownHost()
\* removes the watchers of the old VM, those that onExit adds included.
WatchersOfLiveVm == \A e \in watchers : e.vm = hostId[e.token]

\* stop() blocks the main thread; it returns.
StopReturns == \A r \in Runtimes : stopping[r] ~> stopped[r]

\* The mailbox the runtime implements: what a worker is running is the event it
\* popped, until it is done with it.
Mailbox == INSTANCE ScriptMailbox WITH
    inbox <- queue,
    closed <- stopped,
    current <- [r \in Runtimes |->
                  IF \E w \in Workers : job[w] = r
                  THEN event[CHOOSE w \in Workers : job[w] = r] ELSE NoEvent]

ImplementsMailbox == Mailbox!Spec
MailboxProgress == Mailbox!Progress
=============================================================================
