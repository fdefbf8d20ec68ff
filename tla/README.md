# Noctalia shell: TLA+ models, checks and proofs

The repository is a Wayland desktop shell in C++ (`src/src`): one main thread with an
event loop, services over D-Bus, PipeWire and Wayland, a scripting subsystem that runs
plugins in Luau VMs on worker threads, and a renderer. This directory models the parts
in which the *order* of steps decides whether the program is right, checks them with TLC
and proves with TLAPS, for any number of the things the runs have two of, every invariant and every
action property that a run checks.

`PROJECT.json` is the index: components, runs, the lines each definition models (`map`),
the change of the code each property would notice (`mutants`), hazards, findings and
theorems. Source paths below are relative to `src/src/`.

To check: `tlc -workers 2 -config X.cfg M` for a run, `tlapm M.tla` on a module `...Proofs` for
the proofs.

## 1. Inventory

### Modelled

| part | state it keeps | operations | talks to |
|---|---|---|---|
| **script runtime** (`scripting/script_runtime.cpp`) | per plugin entry: mailbox of at most 64 events, `scheduled`, `stopping`, `stopped`, generation, update flags, health counters; the VM, its id and its registered callbacks | reload, update, call, settings, stop; drain on a worker; deliver on the main thread | worker pool (tasks), state store (watch, set), deferred calls (results), detached command threads |
| **worker pool** (`scripting/script_worker_pool.cpp`) | queue of tasks, 1–4 threads | post, run | script runtimes |
| **plugin state store** (`scripting/plugin_state_store.cpp`) | values and watchers under one mutex | set, watch, remove watchers | calls the mailboxes of the watching runtimes outside its mutex |
| **Luau host and bindings** (`scripting/luau_host.cpp`, `plugin_bindings.cpp`) | host id, callback references, pending async commands and sound loads | one-shot callbacks, watches, teardown | answers return through the mailbox |
| **deferred calls** (`core/deferred_call.cpp`) | queue under a mutex, wake pipe | callLater from any thread, take, drain the pipe | main loop |
| **timers** (`core/timer_manager.*`) | table of entries, ids in flight, ids cancelled while in flight | start, stop, tick with re-entrant callbacks | main loop |
| **main loop** (`app/main_loop.cpp`) | deadlines per source, snapshot of the source list, poll timeout | take calls, collect votes, poll, dispatch, draw | every poll source |
| **idle manager** (`idle/idle_manager.cpp`) | phase per behaviour, grace list, its generation, fallback timer, inhibit count | idled, resumed, inhibit, fade complete, reload | compositor, overlay, deferred calls, timers |
| **grace overlay** (`idle/idle_grace_overlay.cpp`) | surface per output, its fade pending or running, completion callback | show, hide, output change | idle manager, through two callbacks of `app/application_ui.cpp` |
| **screensaver service** (`dbus/idle/screensaver_service.cpp`) | cookies and their owners, the idle block of logind, the lock count | Inhibit, UnInhibit, an owner leaves the bus, BlockInhibited changes | idle manager |
| **notification manager** (`notification/notification_manager.cpp`, `notification_history_store.cpp`) | live list and its index, suppressed ids, deferred close signals, history, next id, filters, scheduled save; the history file | notify and replace, suppress, close, expire, invoke an action, clear and retain the history, save, load | own D-Bus service or KDE's (`dbus/notification/*`), toasts, IPC, deferred calls |
| **thumbnail service** (`render/core/thumbnail_service.cpp`) | entries with owners and textures, keys in flight and canceled, job queue, results, eventfd | acquire, release, peek, upload, decode on workers, loss of the context, shutdown | texture manager, its consumers |
| **file dialog** (`ui/dialogs/file_dialog_view.cpp`, `file_entry_tile.cpp`), as consumer of thumbnails | slots of the grid and their tiles, refresh flag, requested phases of its surface | open, close, browse, scroll, update, layout, draw | thumbnail service, graphics recovery |
| **graphics recovery** (`app/application_events.cpp`, `render/render_context.cpp`) | reset pending, attempts, generation of GPU resources | reset, recover, retry, give up | thumbnail service, every scene |
| **HTTP client** (`net/http_client.cpp`) | transfers by easy handle, downloads by destination, streams by id, offline mode | download, request, start and cancel a stream, end of a transfer | curl, deferred calls, its callers |
| **external address** (`dbus/network/external_ip_service.cpp`) | address, the key it belongs to, the confirmed key, in flight, timer | network or configuration changed, probe, answer | HTTP client, network service |
| **HTTP streams of plugins** (`scripting/luau_host.cpp`) | record per stream, control shared with the main thread | start, stop, close | HTTP client from another thread, by deferred calls |

### Not modelled yet, or not at all

`PROJECT.json` "components" lists every part with the reason. In short:

* *Candidates*: secret store worker; panel manager; plugin source locks; async texture cache; brightness
  writer; session actions (lock before suspend); clipboard transfers; delayed save of the state store.
* *Left out for good*: compositor backends and D-Bus mirrors (parsing and remote state),
  rendering, layout and widgets (data), theme and palette arithmetic, Wayland and
  PipeWire plumbing, screen capture, IPC (one synchronous request each).

### What is hard, and what correctness means

* **Script runtime.** Any thread enqueues while a worker drains. A runtime has a task
  exactly when it has work; two tasks would run one VM on two threads, none would lose
  events. The task is posted *after* the mutex is released. The mailbox is bounded, with
  coalescing, eviction and exempt kinds; answers outlive the VM that asked; a reload
  replaces the VM while answers, notifications and results are under way; `stop()` blocks
  the main thread. Correct: a VM is run by one worker, no wake-up is lost, accepted
  events run in order or are dropped only by rule, update flags never stick, answers reach
  the VM that asked, slots for sounds are given back, watchers die with their VM, and
  after `stop()` nothing is left.
* **Main loop, deferred calls, timers.** A call is queued and the pipe written in two
  critical sections; calls are taken in two places; sources vote for deadlines that later
  votes must not postpone; callbacks of a tick cancel other timers of that tick and
  themselves. Correct: the loop never sleeps on work, calls run once and in order, a
  cancelled timer is silent, no mark of a tick is left behind.
* **Idle manager.** Fade end, fallback, activity, reload and inhibit race for one grace.
  Correct: every grace ends once, a stale end does not complete a newer grace, no
  compositor report is forgotten, and actions are suppressed exactly as long as a cookie or logind asks for it.
* **Notification manager.** A long protocol of small calls on one thread. The one close signal of a
  notification is sent at the close, or deferred when it expires with actions, and then due to
  whichever of six later paths comes first. Ids come from us and from Plasma. The history survives crashes by a
  save that is deferred and may fail. Correct: one close signal each, the entry of a deferred signal is
  kept, the next id is free, the history on disk is the current one or a save is due.
* **Thumbnails and a lost context.** A key has owners on the main thread and is decoded on a worker; it may be
  released and acquired again at any point of the way, and tiles are recycled meanwhile. Results are uploaded in two
  phases of a frame. A lost context makes handles void whose numbers come back. Correct: one decode per key at
  a time, no texture leaked or shown for another file, no result without a wake-up, every thumbnail a tile keeps
  wanting is decided.
* **HTTP.** Callbacks start new requests from within the end of others; easy handles are recycled; a plugin's thread starts
  and stops streams that live on the main thread. Correct: one transfer per destination, indexes that name the transfers there are, one
  answer for each call, no stopped stream left running, no answer shown that the user has switched off.

## 2. Modules

| module | models | extended by |
|---|---|---|
| `PluginStateStore` | watchers of the shared store, and the loop that notifies a copy of them | `ScriptRuntime` |
| `ScriptRuntime` | mailbox, pool, VM lifecycle, health, delivery; composes the store | `ScriptRuntimeMC`, `ScriptRuntimeProofs` |
| `ScriptMailbox` | abstract: each runtime is an inbox run one event at a time | instantiated in `ScriptRuntime` |
| `ScriptRuntimeMC` | instances for TLC | |
| `ScriptRuntimeProofs`, `ScriptHostProofs` | theorems; the second extends the first | |
| `DataLemmas` | facts about minima, sequences and finite sets that several proofs use | all `...Proofs` |
| `Subsequences` | what an `erase_if` leaves of a sequence (`Kept`), defined without recursion | the models that have one, `DataLemmas` |
| `DeferredCall`, `TimerManager` | the two services as state and actions without a Next of their own | `MainLoop` |
| `MainLoop` | one iteration in its phases; composes the two | `MainLoopMC`, `MainLoopProofs` |
| `ScreenSaverService` | cookies, the block of logind, the lock count | `IdleManager` |
| `IdleManager` | manager, overlay and the deferred calls between them; composes the screensaver service | `IdleManagerProofs` |
| `NotificationManager` | the manager, its history file, and what the D-Bus hosts, toasts and IPC call | `NotificationManagerMC`, `NotificationManagerProofs` |
| `ThumbnailService` | cache, workers, textures: what a call does to the cache, and the workers' steps | `FileDialogThumbnails` |
| `FileDialogThumbnails` | the dialog as owner of thumbnails, the frames of its popup, graphics recovery | `FileDialogThumbnailsProofs` |
| `HttpClient`, `ExternalIp` | the client and the address service: what a call does to them | `HttpCallers` |
| `HttpCallers` | downloads with candidates, the probe and plugin streams on one client | `HttpCallersMC`, `HttpCallersProofs` |

### Correspondence

*Script runtime.* One action is one critical section, or one step outside any lock.
`Enqueue` is `enqueue()`: `Refuse`, `Supersede`, `AbsorbUpdate`, `DropWhenFull` and `Admit`
are its early returns and its end, in order. `posting[r]` stands for "between the unlock
and `post()`". `pc[w]` is where worker `w` is within `drain()`:

    idle -> drain -> script -> (exit -> reset -> build) -> notify -> health -> update -> finish -> drain

with shortcuts where the code returns early. `VmCall` is a call into Luau: at most one side
effect (command, sound load, watch, set), then any of `Outcomes`. A call that sets the
store leaves its worker in `notify` until each copied watcher was told. `deliverResult` is
`Deliver` and then `LoadSound` per sound. Event payloads, the update throttle's clock,
exit reasons, stream lines and the replay of the last result to a new subscriber are abstracted.

*Main loop.* `pc` is the phase of the iteration and `running` the callback the loop is in;
`Effect` is what any callback may do, one effect at a time, any number of times. The
periodic source stands for the sources with a constant vote and can leave the list. Time
is a counter that `Clock` advances at any moment, so every phase may take time.

*Idle manager.* An action is one Wayland event, deferred call, timer callback or call from
another service, all on the main thread. `later` is the part of the deferred-call queue
that manager and overlay use. `Renew` models that libwayland drops the queued events of a
destroyed proxy; its returns without a seat or a notifier are left out, as both are bound before the first behaviour and kept until the exit.
The overlay's frames are `StartFade`, which begins the fade that `pendingFadeIn` asks for, and `FadeEnds`, a frame that finds the running one
over and reports it to the callback there is, the newest; `show()` without outputs defers its report twice (*complete*, then *done*).
`faded` has the generations a fade was reported to or whose fallback came. `FallbackFires` waits for the queued `show`, because the timer is armed
with the fade plus 250 ms and the loop runs the queued call first.

*Notification manager.* An action is one call from outside; `AddOrReplace` and `Close` have one disjunct per
early return of `addOrReplace()` and `close()`. Of a notification only *tracked* (external, not of low urgency, not
transient) and *has actions* are kept, of the filters their verdict. Time is open: any live notification may
have expired and any inactive entry may be too old. `Notify` serves the own D-Bus service, `PlasmaNotifies` and
`PlasmaReplaces` the KDE client, whose ids Plasma gives. `Persist` is the deferred save. `Exit` sends the signals still deferred and
saves once more; `Restart` is a start from the file, after an exit or a crash. A file of another shape would stop the start, and is not modelled.
`shown` and `closes` are history variables: which ids this session issued, and how often the close callback was called for each.

*Screensaver service.* Cookies are counted per owner; `Held` is the set of them, and the reasons for a lock are its size and the block. `OwnerGone` drops them all in one step: the code tells the idle manager
after each, but only the last of these calls can reach zero. `logind` starts with or without an idle block.

*Thumbnails.* What the main thread does in one call is an operator from cache to cache (`Acquire`, `Release`, `UploadPending`,
`InvalidateGpuResources`, ...), which `FileDialogThumbnails` applies; the workers' steps are actions. Path and size are one key;
decoding, resizing and the disk cache are one step that succeeds or fails. `PushResult` and `SignalMain` are two steps, as in the code.
A configure that changes the popup's size builds
its scene anew, which for the thumbnails is `CloseDialog`, `OpenDialog` and a frame. `Prepared` is a frame's preparation, `doUpdate()` and then `doLayout()`, each if it was requested; `RenderFrame` is the same followed
by the drawing, whose first one after a recovery clears the images of the scene (`Stale`). A tile keeps `path`, the texture its image draws, and whether the grid has to bind
it again. `Recover` and `RecoveryThrows` are the two ends of `recoverGraphicsAfterReset()`.

*HTTP.* `http` is the client with its part of the deferred calls; `Download`, `Request`, `StartStream`, `CancelStream` and the
`Finish...` operators are the methods. `starts` stands for every local error at once. `AnswerAll` runs the callbacks of one
transfer in order, and each may start the next candidate. A plugin's stop is two steps of its thread, the flag (`StopHttpStream`) and the call
that cancels (`StopCallsLater`); the main thread's start is two as well, up to the stored id (`RunStart`) and the
check of the flag (`CheckStarted`), and `Idle` keeps the main thread from doing anything else in between.

## 3. Runs

| run | instance | shows |
|---|---|---|
| `mailbox` | 1 runtime, 2 workers, limit 2, two generations; fair | `TypeOK`, update flags never stick, `ScriptRuntime` implements `ScriptMailbox` (safety by refinement, and its progress), `stop()` returns |
| `watchers` | 2 runtimes and workers, limit 1, one key | one worker per VM, no stranded event, watchers belong to the live VM, a stopped runtime leaves nothing |
| `callbacks` | 1 runtime, 1 worker, 2 references, all outcomes | a sound slot is always accounted for, an answer reaches its VM |
| `loop_timers` | 2 timers, 3 ids, no calls, clock to 2 | the sleep ends by the earliest deadline, cancelled timers are silent, one timer per owner |
| `loop_calls` | 1 more thread, 2 calls, 1 timer; fair | no call waits for a wake-up, all calls run, due timers fire |
| `idle` | 2 behaviours, graces up to the third generation (`MaxGeneration` 2), 2 clients with up to 2 cookies; fair | each fading behaviour has an end coming, actions follow a report to their own grace, no report is forgotten, every grace ends, the lock count is that of the reasons |
| `notifications` | 2 ids, 1 history entry, every filter verdict and kind of notification, both hosts | one close signal each, the next id is free, changes of the history are saved, at the exit too, a deferred signal keeps its entry |
| `thumbnails` | 2 keys, 1 worker, 1 recycled slot, 1 reset, 2 attempts; fair | textures are owned and current, one decode per key, results are noticed, no foreign texture, wanted thumbnails are decided |
| `http` | 1 destination, 2 callers with 2 candidates, 1 stream, 2 networks, 2 changes | indexes agree, every call is answered once, a stopped stream is cancelled, switched off means nothing is shown |
| `watch_stale`, `thumbnail_refresh`, `external_ip` | smaller or the same | the findings of section 4 |

**Bounds, and why they are enough.**

* `QueueLimit` 1–2 (code: 64) makes the full mailbox, eviction and refusal a matter of two events;
  only *full or not* and *which event is evicted* depend on it. With 2 there is a droppable
  event to evict behind one that is not.
* `TimeoutLimit`, `TimeoutWindow`, `ErrorWindow` 2 (3, 5, 5) and `CommandLimit` 1 (32): each limit is reached.
  Which failures are still in the window is nondeterministic.
* `MaxGeneration` 2: an old VM, its successor, and a reload of that. `MaxBacklog` 0 or 1 only stops
  new input while results wait; the results under way may be more.
* Two workers and two runtimes give each pair of threads that can meet in one runtime or in
  the store; a third adds no new pair.
* Timers: two owners and three ids allow a restart of a timer taken out by the tick, and a
  cancel of another; deferred calls are the other run's, with one timer. `Period` 2 against delays 0 and 1, and `FlushFloor` 1 (16 ms), order the deadlines both ways.
* Notifications: a history of one entry (code: 100) makes every second entry an eviction; two ids
  are one to close and one to keep, and the index has to move; Plasma's ids and ours collide within them. Ids are
  not reused within a session, so `MaxId` ends new notifications and nothing else; the counter's wrap after 2^32 is not modelled.
* Idle: `MaxGeneration` 2 still lets a grace of generation 3 begin; the second and third are what a late fade end and a late fallback meet.
* Screensaver: two cookies of one client are what one departure drops at once; a second client holds one across it.
* Thumbnails: two keys that take turns in one slot give every release and new owner while a decode is queued, running or
  waiting; a second slot, owner or worker adds owners to a key or decodes to run beside, but each key's way is the
  same, and a second context generation is enough for a handle to be old. Two attempts: one retry, then the end.
* HTTP: two callers of one destination join, or come while the last one's next candidate starts; a second destination would be
  independent. One stream meets all the main thread's steps; the limit of streams (code: 4) is reached by one. Two changes take a network away and bring
  another, or switch the offline mode off and on again, under one probe. The callers are symmetric; the runs have no liveness.

Two cfgs per main loop, and three per runtime, split the questions so that each is
exhaustive within its bounds; deadlock is checked in all but the script runtime's runs and `external_ip`, whose instance comes to rest when its one change is used up. In the
script runtime the system really may stop (all runtimes stopped, no thread with work), so
those runs do not check it.

**Fairness.** *Script runtime*: a thread that set `scheduled` goes on to post; a pool worker
takes a task and goes on with it (a script call ends within its CPU budget, enforced by the
interrupt of `luau_host.cpp`); the main loop delivers results. Nothing is assumed of users and
commands. *Main loop*: callbacks return (weak), time passes (weak), a thread that queued a call goes on to write
the byte (weak), and `poll()` is not interrupted by a signal every single time (strong fairness of
`PollWakes`; `EINTR` restarts the iteration, so weak fairness would not do). *Idle manager*: the
loop handles Wayland events, deferred calls and the fallback timer. Beginning and end of a fade depend on the
compositor's frame callbacks and are *not* assumed, which is why the fallback is there. *Thumbnails*: workers go on, the main loop dispatches
the eventfd, runs requested frames (the compositor sends frame callbacks for a popup that is visible), and the recovery that was scheduled (deferred call or timer). That a reset happens, that the dialog is
opened or drawn for other reasons, is not assumed.

## 4. Findings

1. `watch_stale` – a state notification carries no host id; one queued after a reload was
   accepted, for a key set by the old VM itself, as in the run, or by another runtime, and before the old VM's watchers are removed calls the callback of the *new* VM
   that has the same reference number (`script_runtime.cpp:617`). Other answers are compared with the host id.
2. `thumbnail_refresh` – `FileDialogView::doLayout()` uploads thumbnails and clears the refresh flag without making bound tiles
   look again (`ui/dialogs/file_dialog_view.cpp:592`); a layout that comes before the update phase leaves them with the glyph, against
   `thumbnail_service.h:64`, "then re-query visible thumbnail handles". An update in the list view drops the refresh too.
3. `external_ip` – the answer of a probe made on one network is shown on the next (`external_ip_service.cpp:120`): in the run the key of
   the first network is confirmed and its confirming probe in flight. The change to another network clears the value but schedules no probe, since one is in flight; the answer then
   shows the old address, and nothing replaces it until the network or the configuration changes again. The same happens when the network goes away. Against `external_ip_service.h:20`, "a key change clears the value and re-probes".

Seen on the way, without a run of their own:

* *Script runtime*: the mailbox limit comes before the branch that clears the mailbox for a reload, so a disabled runtime with a full mailbox of
  calls refuses the reload that should revive it (`script_runtime.cpp:370`; "until the next reload", 43).
* *Idle*: `show()` of the overlay is deferred and `hide()` is not, so a grace cancelled first leaves the overlay up (`app/application_ui.cpp:223`).
  The fade of an overlay left up may end in the first frame after the next `show()`, which ticks the animations (`wayland/surface.cpp:1306`) before it starts the new fade
  (`idle/idle_grace_overlay.cpp:203`), and is then reported to the new grace, against "once every output has finished fading" (`idle_grace_overlay.h:33`); so `ActionAfterFade` speaks of what is reported.
  A lock taken during the fade does not keep the action from running (`idle_manager.cpp:334`, `idle_manager.h:43`). `NameOwnerChanged` drops a client's
  cookies when it gives up *any* well-known name, although it is still connected (`screensaver_service.cpp:101`).
* *Notifications*: one with actions that never enters the history has its close signal deferred at the expiry to the removal of an entry that does not
  exist (`notification_manager.cpp:564`, `notification_manager.h:179`). The history file is replaced by a truncated one when the disk is full
  (`notification_history_store.cpp:667`). `clearHistory()` empties the history before it asks whether something was unread (`notification_manager.cpp:610`).
  Entries saved as active come back active and the retention never removes them.
* *Graphics*: a tile bound between the recovery and the first drawing is cleared by that drawing and stays blank until it is bound again.
* *HTTP*: `finishRequestTransfer()` asks a cleaned-up easy handle for the effective URL (`http_client.cpp:656`). A joined download
  ignores its own url, so a list of candidates can fail without each having been tried. A stream event names its stream by a Luau reference that may be given to the next
  stream before the event arrives; a close event that a full mailbox refuses leaves its stream counted.

## 5. Proofs

The theorems hold for every value of the constants that the named assumptions (`ASSUME`) of the modules allow: sets that are
finite because the code enumerates or counts them, limits that are naturals, and not zero where the code has room for at least one. The
bounds of the models (`MaxGeneration`, `MaxCalls`, ...) are constants like the others, so nothing depends on their being small. TLC evaluates the
assumptions in every run.

Each property is proved from an invariant that is inductive, which it seldom is itself; TLC was asked about each of these invariants before it was
proved. The proof that the steps keep one has a lemma for each operation that several actions call and a step, or a lemma, for each action.

### Script runtime: `ScriptRuntimeProofs`, `ScriptHostProofs`

| theorem | says | argument |
|---|---|---|
| `TypeCorrect` | `Spec => []TypeOK` | `TypeOK` is inductive; one lemma for `Enqueue` and one for `VmCall`, which most actions use |
| `TaskInvariant` | `Spec => []TaskInv` | below |
| `VmExclusive` | `Spec => []SingleDrain` | from `TaskInv` |
| `NoLostWakeup` | `Spec => []NoStrandedEvent` | from `TaskInv` |
| `AnswersMatch` | `Spec => []AnswerReachesAsker` | inductive with `SingleDrain` and the pc of the worker |
| `HostInvariant` | `Spec => []HostInv` | below |
| `FlagsTrue` | `Spec => []UpdateFlags` | from `HostInv` |
| `WatchersAreOfTheVm` | `Spec => []WatchersOfLiveVm` | from `HostInv` |
| `NothingAfterStop` | `Spec => []StoppedIsQuiet` | from `HostInv` and `TaskInv` |
| `SoundSlots` | `Spec => []SoundSlotAccounted` | `SlotInv`, below |
| `RuntimeImplementsMailbox` | `Spec => ImplementsMailbox` | each step maps to a step or a stutter, below |

Neither `SingleDrain` nor `NoStrandedEvent` is inductive: from a state in which a runtime sits in the pool
*twice*, two workers would take it. `TaskInv` says where the one task of a runtime is:

* `OneTask`: it is about to be posted, or in the pool once, or with one worker, exactly one of these if
  `scheduled[r]` and none of them otherwise;
* `Awake`: a runtime with an event has `scheduled[r]`;
* `StopOnlyClosed`: only `stop()` puts a Stop event into the mailbox, and closes it to others first.
  `FinishStop` needs this: it clears `scheduled` together with the queue, so nothing may follow the Stop.

`ScheduleTask` and `EnqueueTask` show that the mailbox operations preserve it whoever calls them,
`TaskFrame` that steps which touch neither tasks nor queues do, and `TaskStep` has one step per action.

`HostInv` adds what a mailbox, a worker and a VM hold. `MailInv`: the events of a mailbox are of the runtime's generation, since a load clears
it. `PathInv`: which kind of event a worker can have at each pc. `FlagInv`: a mailbox has one update at most, and one exactly while
`updateQueued` says so; `updateRunning` names an update that a worker has. `VmInv`: a runtime without a VM has no callbacks, the watchers
that carry its token are those of the VM it has, and between teardown and build there is neither. `EnqueueEffect` says once what each of the five
ways through `enqueue()` leaves of the mailbox; the invariants are proved from it.

`SlotInv` says where the load of a sound is that a VM waits for: with the worker, in a result, on the main thread or in the mailbox as its
completion, or else the VM is about to go. That the VM is about to go has to survive until it is gone, so it comes with three more: `EventAge` (a worker
whose event is of an earlier generation has a load waiting behind it), `StopComes` (a runtime that is stopping and has not stopped has its Stop in the mailbox or
with a worker) and `ResultAge` (the same for a result of an earlier VM).

The refinement maps `current` to the event of the worker that has the runtime (`Current`), which is one worker by `TaskInv`. `MailboxStep` has
a step per action: `enqueue()` is an `Accept` or a `Replace` with the loss the specification allows it, the pop is `Start`, the end of an event
`Complete`, and all that happens between is a stutter.

### Main loop: `MainLoopProofs`

| theorem | says | argument |
|---|---|---|
| `TypeCorrect` | `Spec => []TypeOK` | `TypeOK` with the length of the snapshot |
| `NoLostCall` | `Spec => []CallWakesLoop` | `CallHasByte`: outside the moment between draining the pipe and taking the calls, a queued call has its byte or a writer |
| `SleepIsBounded` | `Spec => []SleepEnds` | `SleepInv`: no callback runs outside its phase, and a deadline once given is not moved later (`AskedIsKept`) |
| `TimersAreOwned` | `Spec => []OneTimerEach` | `TimerInv` |
| `CancelledStaysSilent` | `Spec => CancelledIsSilent` | `TimerInv` at the state before the step |

`TimerInv`: a timer is in one place, the table, the tick or the callback that runs (`OnePlace`); only timers of the tick are marked as cancelled
and ids to come are unused (`Marked`); what is not cancelled has its `Timer` object (`Held`); what was reported as cancelled is out of the table and marked if the tick has it (`GoneIsMarked`).
The deadlines are kept by `MinIsLeast` of `DataLemmas`.

### Idle manager: `IdleManagerProofs`

| theorem | says | argument |
|---|---|---|
| `FadesEnd` | `Spec => []FadeHasEnd` | `GraceInv` |
| `ActionsWaitForFade` | `Spec => ActionAfterFade` | `GraceInv` at the state before the step |
| `NothingForgotten` | `Spec => []NoForgottenIdle` | `WireInv` |
| `LocksAccounted` | `Spec => []LocksHaveReasons` | `LocksInv` |
| `TypeInvariant` | `Spec => []TypeOK` | from the three |

`GraceInv` is `FadeHasEnd` with `DoneIsFaded`: each *done* in the queue of deferred calls is for a generation
that the overlay reported over. `FadeHasEnd` makes the fallback's generation the current one, so that `FallbackFires` ends the grace it was armed for;
`DoneIsFaded` gives the same for the report of the overlay. Neither needs to know which Wayland events are on their way, so that part
covers any order of them, those for behaviours that are not configured included.

`WireInv` does know them: behind each *resumed* on the way there is one more event for every behaviour the compositor considers idle
(`Answered`), and such a behaviour is handled or mentioned by an event (`Mentions`). `Renew` drops the events of a destroyed proxy, which is a `Kept` of the queue.

`LocksInv` is the equation of `LocksHaveReasons` for both copies of the count, the service's and the manager's. `Inhibit`, `UnInhibit` and a departure
add one member to `Held`, take one, or take all of one client.

### Notification manager: `NotificationManagerProofs`

| theorem | says | argument |
|---|---|---|
| `TypeCorrect` | `Spec => []TypeOK` | from `Inv` |
| `FreshIds` | `Spec => []IdsAreFresh` | from `Inv` |
| `NoChangeUnsaved` | `Spec => []HistorySaved` | inductive with `Inv`: each path that changes the history schedules the save (`EveryCall`), and the exit makes it (`SaveStep`, `ExitKeepsInv`) |
| `EntryOutlivesSignal` | `Spec => DeferredKeepsEntry` | `Inv` at both ends of the step |
| `OneSignalEach` | `Spec => []CloseAccounted` | inductive with `Inv` |

`Inv` is `TypeOK` with `HistoriesOK` (a notification has one entry at most, in memory and on disk), `Indexed` (`idToIndex` is the inverse of the list) and
`Fresh`, which is `IdsAreFresh` extended to the file: without that a restart would lead out of it. `Request` and `Issued` say what a host may ask of
`addOrReplace()`; that no host forces the id of a live notification is proved, not assumed.

### Thumbnails: `FileDialogThumbnailsProofs`

| theorem | says | argument |
|---|---|---|
| `Invariant` | `Spec => []Inv` | below |
| `TypeInvariant` | `Spec => []TypeOK` | from `Inv` |
| `TexturesAreOwned` | `Spec => []TexturesOwned` | from `Inv` |
| `DecodedOnce` | `Spec => []OneDecodeEach` | from `Inv` |
| `OwnImages` | `Spec => []NoForeignTexture` | from `Inv` |
| `NoResultForgotten` | `Spec => []ResultsAreNoticed` | inductive with `Inv` |

`Sound(c, H, K)` is the cache between any two calls, with the slots `H` that own each key and the keys `K` that are with the workers or among the results. A
handle names a texture of the current context and of an owned key (`Textured`); the owners are counted (`Counted`); a key in flight is queued once or in `K`
(`Placed`). A lemma for `Acquire`, `Release`, `UploadPending` and each other call says how it moves `H` and `K`; a frame is a sequence of them,
and `Inv` has `H` from the tiles, `K` from the workers and results, each of these once (`Apart`). `GraphicsInv` says when the images of the scene
are the tiles' own: while nothing is lost and the scene has been drawn with this context.

### HTTP: `HttpCallersProofs`

| theorem | says | argument |
|---|---|---|
| `OffShowsNoAddress` | `Spec => []OffShowsNothing` | inductive with the fields of the service (`AddressInv`) |
| `Invariance` | `Spec => []Inv` | below |
| `TypeInvariant` | `Spec => []TypeOK` | from `Inv` |
| `IndexesAlwaysAgree` | `Spec => []IndexesAgree` | from `Inv` |
| `EveryoneOwedOnce` | `Spec => []OwedOnce` | from `Inv`, by counting |
| `StoppedStreamsEnd` | `Spec => []StoppedIsCancelled` | from `Inv` |

`Books(h, a, W, p, ctl, st)` says of the client `h` at any moment of a step: each transfer has the callbacks and the name of its kind (`Shaped`);
both indexes agree with the transfers (`DestsAgree`, `StreamsAgree`); a caller that waits has its callback in one place, a transfer, a deferred call, or
the hand of the code that runs, `W` (`AskInv`); the probe in flight is one request or one answer to come (`ProbeInv`), which is the probe's half of `OwedOnce`; a stream in a transfer was
started once, has the id its control has, and is going to be cancelled if it was stopped, unless it is `st`, whose start has yet to check (`StreamInv`). `Inv` has `W`
empty. The end of a download puts all its callbacks into `W` (`Finished`); `AllAnswered` takes them out one by one, each answered, or waiting again
for its next candidate, whose download may join or start another.

The model has as many easy handles as callers, streams and one probe. `HandleIsFree` is the count that this is enough: transfers have
different callbacks, so as long as one of these has none, a handle is free; `IdIsFree` is the same for the ids of streams. `CallbacksApart` assumes that a callback says whom
it belongs to, which in the code is what its closure captures.

### Data

`DataLemmas` has what the proofs need of minima, of sequences and of counts. Two things of the models are written so that they can be proved about. A loop that erases by a
condition is `Kept` of `Subsequences`, the elements at the places that pass; TLC evaluates that it is `SelectSeq` on all sequences up to a
length (`KeptIsSelectSeq`). A loop over a list with a running state is a recursive function over the positions (`AnswerAll`, `UploadPending`, the loops
over the tiles of the dialog). The provers cannot instantiate an induction theorem with an operator, so an induction over positions is stated for a *set* of them, those up to which the
claim holds (`Counting`, `CountingTo`).

### Model-checked only

Liveness (`MailboxProgress`, `StopReturns`, `CallsAreRun`, `TimersFire`, `FadeIsOver`, `KeptIsDecided`) rests on fairness and `ENABLED`, which are out
of the prover's reach. That `Kept` is `SelectSeq` for sequences of every length is an induction over data. The three findings are counterexamples, and stay with TLC.

## 6. Plan

Done, in the order of importance: script runtime and store with the abstract mailbox; deferred calls, timers and main loop; idle
manager with the screensaver service; notification manager; thumbnails with graphics recovery; HTTP client with its callers.
The project has as many runs as it should have, so what comes next takes the place of a smaller run or joins one:

1. Values in `PluginStateStore`, for the order in which two setters' notifications arrive.
2. Seen marks and the unread indicator in `NotificationManager`.
3. `SecretStore` (`security/secret_store.cpp`): a request queue over one worker, and its shutdown.
4. `PanelManager` (`shell/panel/panel_manager.cpp`): opening, closing and switching panels while they animate.
5. The other candidates of section 1.

### Not modelled, and why

Most of the shell's 190 000 lines are views, drawing, parsing of other programs' answers, and mirrors of remote state: what they do is decided by data
rather than by the order of steps, and a model of it would repeat the code. The models cover the parts where several actors share state, and the whole
of each operation there; the share of the code's lines they stand for stays small for that reason.

To prove next: that the screensaver service and the idle manager implement a lock count of their own (an abstract specification as
`ScriptMailbox` is one); the bounds of the counters that the runs only reach (`TimeoutWindow`, the timer ids); and whatever safety the items
above bring with them.
