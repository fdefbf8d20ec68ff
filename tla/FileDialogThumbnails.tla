------------------------ MODULE FileDialogThumbnails ------------------------
(***************************************************************************)
(* The thumbnails of the file dialog, from the worker that decodes one to  *)
(* the tile that shows it, and the recovery from a lost graphics context:  *)
(* ui/dialogs/file_dialog_view.cpp, ui/dialogs/file_entry_tile.cpp, the    *)
(* frames of its popup (ui/dialogs/dialog_popup_host.cpp,                  *)
(* wayland/surface.cpp), the slots of ui/controls/virtual_grid_view.cpp,   *)
(* and app/application_events.cpp with render/render_context.cpp.          *)
(*                                                                         *)
(* The dialog is the only owner of thumbnails.  Its tiles are recycled: a  *)
(* slot of the grid shows another file after a scroll, and binds to it in  *)
(* the next layout; it keeps its thumbnail until then, and for as long as  *)
(* it is out of sight.  A frame of the popup first runs the update phase,  *)
(* then the layout phase, then draws.  A lost context disables drawing     *)
(* until a recovery, which may fail and is retried by a timer, succeeds;   *)
(* scenes drop the textures of the old context in their next drawing.      *)
(*                                                                         *)
(* Everything but the workers is the main thread: one action is one        *)
(* callback, phase or input.  Layout is one step, although workers run     *)
(* meanwhile: they only take from the queue, which it appends to.          *)
(***************************************************************************)
EXTENDS ThumbnailService

CONSTANTS
    Slots,             \* m_pool of the grid
    MaxResets,         \* bound: graphics resets
    MaxAttempts        \* kMaxGraphicsRecoveryAttempts

ASSUME DialogConstants ==
    /\ IsFiniteSet(Slots)
    /\ MaxResets \in Nat /\ MaxAttempts \in Nat \ {0}

VARIABLES
    \* the dialog; it is open while it subscribes to pending uploads
    open,
    gridView,          \* m_viewMode is Grid
    refreshPending,    \* m_thumbnailRefreshPending
    item,              \* the file each slot has to show: a key, a folder or nothing
    tile,              \* the tile in each slot
    \* its surface
    update,            \* m_updateRequested
    layout,            \* m_layoutRequested
    sceneGeneration,   \* Node::m_gpuResourceGeneration of the scene
    \* the application
    graphicsReset,     \* m_graphicsResetPending
    gpuGeneration,     \* RenderContext::m_gpuResourceGeneration
    recovery,          \* m_graphicsRecoveryScheduled, and by what
    attempts,          \* m_graphicsRecoveryAttempts
    resets             \* history: graphics resets so far

dialogVars == <<open, gridView, refreshPending, item, tile>>
surfaceVars == <<update, layout, sceneGeneration>>
appVars == <<graphicsReset, gpuGeneration, recovery, attempts, resets>>
vars == <<serviceVars, dialogVars, surfaceVars, appVars>>

Folder == "folder"
Nothing == "nothing"
Items == Keys \cup {Folder, Nothing}

\* path is m_thumbnailPath, image the texture of m_image; dirty says that the
\* grid has to bind the slot again (m_slotBoundIndex and what is kept with it).
Tile == [path : Keys \cup {None}, image : {0} \cup TextureIds, dirty : BOOLEAN]
NewTile == [path |-> None, image |-> 0, dirty |-> TRUE]

TypeOK ==
    /\ ServiceTypeOK
    /\ open \in BOOLEAN /\ gridView \in BOOLEAN /\ refreshPending \in BOOLEAN
    /\ item \in [Slots -> Items] /\ tile \in [Slots -> Tile]
    /\ update \in BOOLEAN /\ layout \in BOOLEAN
    /\ sceneGeneration \in Nat /\ gpuGeneration \in Nat
    /\ graphicsReset \in BOOLEAN
    /\ recovery \in {"none", "queued", "waiting", "given up"}
    /\ recovery # "none" <=> graphicsReset
    /\ attempts \in 0 .. MaxAttempts /\ resets \in 0 .. MaxResets

Init ==
    /\ ServiceInit
    /\ open = FALSE /\ gridView = FALSE /\ refreshPending = FALSE
    /\ item = [s \in Slots |-> Nothing] /\ tile = [s \in Slots |-> NewTile]
    /\ update = FALSE /\ layout = FALSE /\ sceneGeneration = 0
    /\ graphicsReset = FALSE /\ gpuGeneration = 0
    /\ recovery = "none" /\ attempts = 0 /\ resets = 0

-----------------------------------------------------------------------------
(* Opening, closing and browsing                                           *)

\* create() subscribes, and is called back at once if results are pending;
\* onOpen() then resets the flag.  The first frame lays the new scene out.
OpenDialog ==
    /\ ~open /\ ~shutdown
    /\ open' = TRUE
    /\ gridView' \in BOOLEAN
    /\ refreshPending' = FALSE
    /\ item' \in [Slots -> Items]
    /\ tile' = [s \in Slots |-> NewTile]
    /\ update' = (results # <<>>) /\ layout' = TRUE
    /\ sceneGeneration' = 0
    /\ UNCHANGED <<serviceVars, appVars>>

EachSlot == SetToSeq(Slots)

\* FileEntryTile::releaseThumbnail().
ReleaseThumbnail(c, path) == IF path = None THEN c ELSE Release(c, path)

\* Every tile lets go of its thumbnail.
ReleaseAll ==
    LET after[i \in 0 .. Len(EachSlot)] ==
            IF i = 0 THEN cache ELSE ReleaseThumbnail(after[i - 1], tile[EachSlot[i]].path)
    IN  after[Len(EachSlot)]

\* The scene goes, and with it every tile; onClose() disconnects.
CloseDialog ==
    /\ open /\ ~shutdown
    /\ open' = FALSE
    /\ cache' = ReleaseAll
    /\ refreshPending' = FALSE
    /\ item' = [s \in Slots |-> Nothing] /\ tile' = [s \in Slots |-> NewTile]
    /\ update' = FALSE /\ layout' = FALSE /\ sceneGeneration' = 0
    /\ UNCHANGED <<at, decoding, results, eventFd, shutdown, gridView, appVars>>

\* Another directory, filter or order: notifyDataChanged() for every slot.
ApplyFilter ==
    /\ open /\ ~shutdown
    /\ item' \in [Slots -> Items]
    /\ tile' = [s \in Slots |-> [tile[s] EXCEPT !.dirty = TRUE]]
    /\ layout' = TRUE
    /\ UNCHANGED <<serviceVars, open, gridView, refreshPending, update,
                   sceneGeneration, appVars>>

\* A scroll gives one slot another file, or none; so does hovering or
\* selecting the file it has, as far as binding goes.
Scroll(s) ==
    /\ open /\ ~shutdown /\ gridView
    /\ \E i \in Items : item' = [item EXCEPT ![s] = i]
    /\ tile' = [tile EXCEPT ![s].dirty = TRUE]
    /\ layout' = TRUE
    /\ UNCHANGED <<serviceVars, open, gridView, refreshPending, update,
                   sceneGeneration, appVars>>

SetViewMode ==
    /\ open /\ ~shutdown
    /\ gridView' = ~gridView
    /\ layout' = TRUE
    /\ UNCHANGED <<serviceVars, open, refreshPending, item, tile, update,
                   sceneGeneration, appVars>>

\* The popup is configured, a style changed, text was typed. A configure that changes
\* the popup's size also builds its scene anew: for the thumbnails that is
\* CloseDialog, OpenDialog and a frame.
RequestLayout ==
    /\ open /\ ~shutdown /\ ~layout
    /\ layout' = TRUE
    /\ UNCHANGED <<serviceVars, dialogVars, update, sceneGeneration, appVars>>

-----------------------------------------------------------------------------
(* Wakeups and frames                                                      *)

\* Variant: the listener sets its flag and does not request the update phase.
DispatchWithoutUpdate ==
    /\ eventFd /\ ~shutdown
    /\ eventFd' = FALSE
    /\ refreshPending' = (refreshPending \/ open)
    /\ UNCHANGED <<cache, at, decoding, results, shutdown, open, gridView, item, tile,
                   update, layout, sceneGeneration, appVars>>

\* ThumbnailService::dispatch() and the dialog's listener.
Dispatch ==
    /\ eventFd /\ ~shutdown
    /\ eventFd' = FALSE
    /\ refreshPending' = (refreshPending \/ open)
    /\ update' = (update \/ open)
    /\ UNCHANGED <<cache, at, decoding, results, shutdown, open, gridView, item, tile,
                   layout, sceneGeneration, appVars>>

\* Variant: a tile that is bound to another file goes on showing the old image.
BindKeepsImage(bound, s) ==
    LET old == bound.tile[s].path
        new == IF item[s] \in Keys THEN item[s] ELSE None
        released == IF old = new THEN bound.cache ELSE ReleaseThumbnail(bound.cache, old)
        owned == IF old = new \/ new = None THEN released ELSE Acquire(released, new)
    IN  IF item[s] = Nothing \/ ~bound.tile[s].dirty
        THEN bound
        ELSE [cache |-> owned,
              tile |-> [bound.tile EXCEPT ![s].path = new, ![s].dirty = FALSE,
                        ![s].image = IF new = None \/ Peek(owned, new).id = 0 THEN @
                                     ELSE Peek(owned, new).id]]

\* VirtualGridView::doLayout() binds a dirty slot that has a file to show:
\* FileEntryTile::bind() exchanges its thumbnail for that of the file, if it is
\* another one, and refreshThumbnail() shows what there is of it.
Bind(bound, s) ==
    LET old == bound.tile[s].path
        new == IF item[s] \in Keys THEN item[s] ELSE None
        released == IF old = new THEN bound.cache ELSE ReleaseThumbnail(bound.cache, old)
        owned == IF old = new \/ new = None THEN released ELSE Acquire(released, new)
        image == IF new = None THEN 0 ELSE Peek(owned, new).id
    IN  IF item[s] = Nothing \/ ~bound.tile[s].dirty
        THEN bound
        ELSE [cache |-> owned,
              tile |-> [bound.tile EXCEPT ![s] = [path |-> new, image |-> image, dirty |-> FALSE]]]

\* The slots one after the other.
BindAll(bound) ==
    LET after[i \in 0 .. Len(EachSlot)] ==
            IF i = 0 THEN bound ELSE Bind(after[i - 1], EachSlot[i])
    IN  after[Len(EachSlot)]

\* The slots that have nothing to show are bound when they next have.
Unused(t) == [s \in Slots |-> [t[s] EXCEPT !.dirty = @ \/ item[s] = Nothing]]

\* uploadPending() in a frame: it is called by a layout, and by an update if a
\* refresh is pending.  Without a context the driver may refuse any result; with
\* one, what it refuses ends as what could not be decoded does.
Refreshes == update /\ refreshPending

Uploads ==
    IF Refreshes \/ layout
    THEN {UploadPending(cache, results, refused) :
             refused \in SUBSET {k \in Keys : graphicsReset}}
    ELSE {[cache |-> cache, changed |-> FALSE]}

\* After an upload the update phase makes the grid, if that is what is shown,
\* bind every slot again.
Rebinds(up) == Refreshes /\ up.changed /\ gridView

\* preparePendingFrame(): doUpdate() if an update was requested, doLayout() if a
\* layout was.  Both upload; only the first makes bound tiles look again.
Prepared(up) ==
    LET seen == [s \in Slots |-> [tile[s] EXCEPT !.dirty = @ \/ Rebinds(up)]]
        bound == IF layout /\ gridView
                 THEN BindAll([cache |-> up.cache, tile |-> Unused(seen)])
                 ELSE [cache |-> up.cache, tile |-> seen]
    IN  [cache |-> bound.cache, tile |-> bound.tile,
         results |-> IF Refreshes \/ layout THEN <<>> ELSE results,
         refreshPending |-> refreshPending /\ ~update /\ ~(layout /\ up.changed)]

Frames == {Prepared(up) : up \in Uploads}

FramePrepared(f) ==
    /\ cache' = f.cache /\ results' = f.results
    /\ refreshPending' = f.refreshPending
    /\ update' = FALSE /\ layout' = Refreshes

\* processQueuedFrameWork().
PrepareFrame ==
    /\ open /\ ~shutdown /\ (update \/ layout)
    /\ \E f \in Frames : FramePrepared(f) /\ tile' = f.tile
    /\ UNCHANGED <<at, decoding, eventFd, shutdown, open, gridView, item, sceneGeneration,
                   appVars>>

\* The context has been replaced since this scene was last drawn.
Stale == ~graphicsReset /\ gpuGeneration # 0 /\ sceneGeneration # gpuGeneration

\* renderQueuedFrame(): prepares what was requested, then draws.  A recovery
\* asks every surface for it, and much else may (hovering, an animation).  The
\* first drawing after a recovery clears the images of the scene; while a reset
\* is pending nothing is drawn.
RenderFrame ==
    /\ open /\ ~shutdown
    /\ \E f \in Frames :
          /\ FramePrepared(f)
          /\ tile' = IF Stale THEN [s \in Slots |-> [f.tile[s] EXCEPT !.image = 0]] ELSE f.tile
    /\ sceneGeneration' = IF Stale THEN gpuGeneration ELSE sceneGeneration
    /\ UNCHANGED <<at, decoding, eventFd, shutdown, open, gridView, item, appVars>>

-----------------------------------------------------------------------------
(* A lost graphics context, and the end                                    *)

\* A drawing of any surface finds the context lost.
GraphicsReset ==
    /\ ~graphicsReset /\ ~shutdown /\ resets < MaxResets
    /\ graphicsReset' = TRUE /\ recovery' = "queued"
    /\ resets' = resets + 1
    /\ UNCHANGED <<serviceVars, dialogVars, surfaceVars, gpuGeneration, attempts>>

\* recoverGraphicsAfterReset() that succeeds.
Recover ==
    /\ recovery \in {"queued", "waiting"} /\ ~shutdown
    /\ cache' = InvalidateGpuResources(AbandonGpuResources(cache))
    /\ graphicsReset' = FALSE /\ recovery' = "none" /\ attempts' = 0
    /\ gpuGeneration' = gpuGeneration + 1
    /\ UNCHANGED <<at, decoding, results, eventFd, shutdown, dialogVars, update, layout,
                   sceneGeneration, resets>>

\* Variant: one attempt too many.
ThrowsOnceMore ==
    /\ recovery \in {"queued", "waiting"} /\ ~shutdown
    /\ cache' = AbandonGpuResources(cache)
    /\ attempts' = attempts + 1
    /\ recovery' = IF attempts + 1 > MaxAttempts THEN "given up" ELSE "waiting"
    /\ UNCHANGED <<at, decoding, results, eventFd, shutdown, dialogVars, surfaceVars,
                   graphicsReset, gpuGeneration, resets>>

\* recoverGraphicsAfterReset() that throws: before or after the context was
\* restored, which shows only in gpuGeneration, and that is compared with
\* nothing before the next success raises it again.
RecoveryThrows ==
    /\ recovery \in {"queued", "waiting"} /\ ~shutdown
    /\ cache' = AbandonGpuResources(cache)
    /\ attempts' = attempts + 1
    /\ recovery' = IF attempts + 1 >= MaxAttempts THEN "given up" ELSE "waiting"
    /\ UNCHANGED <<at, decoding, results, eventFd, shutdown, dialogVars, surfaceVars,
                   graphicsReset, gpuGeneration, resets>>

\* The destructor: stops the workers, ...
BeginDestroy ==
    /\ ~open /\ ~shutdown
    /\ shutdown' = TRUE
    /\ UNCHANGED <<cache, at, decoding, results, eventFd, dialogVars, surfaceVars, appVars>>

\* ... joins them, and deletes what textures are left.
Join ==
    /\ shutdown
    /\ \A w \in Workers : at[w] = "exited"
    /\ cache' = DeleteAllTextures(cache)
    /\ eventFd' = FALSE
    /\ UNCHANGED <<at, decoding, results, shutdown, dialogVars, surfaceVars, appVars>>

MainThread ==
    \/ OpenDialog \/ CloseDialog \/ ApplyFilter \/ SetViewMode \/ RequestLayout
    \/ \E s \in Slots : Scroll(s)
    \/ Dispatch \/ PrepareFrame \/ RenderFrame
    \/ GraphicsReset \/ Recover \/ RecoveryThrows
    \/ BeginDestroy \/ Join

WorkerThread(w) == WorkerStep(w) /\ UNCHANGED <<dialogVars, surfaceVars, appVars>>

Next == MainThread \/ \E w \in Workers : WorkerThread(w)

Spec == Init /\ [][Next]_vars

\* Workers are threads that always run; the main loop polls the eventfd, runs
\* the frames that were requested, the deferred recovery and its retry timer.
\* Nothing says that the user does anything, or that a reset happens.
Fairness ==
    /\ \A w \in Workers : WF_vars(WorkerThread(w))
    /\ WF_vars(Dispatch) /\ WF_vars(PrepareFrame)
    /\ WF_vars(Recover \/ RecoveryThrows)

FairSpec == Spec /\ Fairness

-----------------------------------------------------------------------------
(* Properties                                                              *)

\* No texture is leaked, and none is used after it was deleted: every texture
\* of the service belongs to exactly one key that has an owner, and the handle
\* of a key names a texture of the context in use.
TexturesOwned ==
    /\ \A i \in cache.textures : \E k \in Keys :
          /\ cache.refs[k] > 0
          /\ {j \in Keys : cache.handle[j].id = i} = {k}
    /\ \A k \in Keys : cache.handle[k] # NoHandle =>
          /\ cache.handle[k].id \in cache.textures
          /\ cache.handle[k].generation = cache.generation

\* A key is decoded once at a time, whoever acquires and releases it meanwhile:
\* m_inFlight holds exactly the keys that are queued, being decoded or decoded
\* and not uploaded, each of them in one place.
OneDecodeEach ==
    \A k \in Keys :
        Cardinality({i \in DOMAIN cache.queue : cache.queue[i] = k})
          + Cardinality({w \in Workers : decoding[w] = k})
          + Cardinality({i \in DOMAIN results : results[i].key = k})
            = IF k \in cache.inFlight THEN 1 ELSE 0

\* No wakeup is lost: while the dialog is open and a decoded thumbnail waits,
\* the main loop is or will be woken, or a phase that uploads it is due.
ResultsAreNoticed ==
    open /\ results # <<>> =>
        \/ eventFd
        \/ \E w \in Workers : at[w] = "pushed"
        \/ refreshPending /\ update
        \/ layout

\* A tile never draws the texture of another file, nor one that was deleted.
NoForeignTexture ==
    ~graphicsReset /\ ~Stale =>
        \A s \in Slots : tile[s].image # 0 =>
            tile[s].path # None /\ cache.handle[tile[s].path].id = tile[s].image

\* A thumbnail that a tile keeps wanting is there in the end, or it cannot be
\* had, or drawing was given up.
Decided(k) == cache.handle[k] # NoHandle \/ cache.failed[k] \/ recovery = "given up"

KeptIsDecided ==
    \A s \in Slots, k \in Keys : <>[](tile[s].path = k) => <>[]Decided(k)

\* What thumbnail_service.h asks of a consumer: once a thumbnail is uploaded, a
\* tile bound to it that is in sight shows it.
ReadyTilesShow ==
    open /\ gridView =>
        \A s \in Slots : ~tile[s].dirty /\ tile[s].path # None =>
            tile[s].image = cache.handle[tile[s].path].id
=============================================================================
