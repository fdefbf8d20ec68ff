-------------------------- MODULE ThumbnailService --------------------------
(***************************************************************************)
(* The thumbnail service: src/src/render/core/thumbnail_service.cpp, with  *)
(* what it uses of the texture manager                                     *)
(* (render/backend/gles_texture_manager.cpp).  A key is a (path, size)     *)
(* pair.  Owners acquire and release it on the main thread; a pool of      *)
(* workers decodes what nobody has decoded yet and wakes the main loop     *)
(* through an eventfd; the main thread uploads the results to textures.    *)
(* A module that extends this one says who the owners are and when they    *)
(* upload; what the main thread does to the cache in one call is an        *)
(* operator from cache to cache.                                           *)
(*                                                                         *)
(* An entry exists as long as it has owners: release() erases it with the  *)
(* last one.  subscribeReady() has no caller in this repository, so there  *)
(* is nobody for notifyReady() to tell.  The disk cache, the decoding and  *)
(* the resizing are one step that succeeds or fails.                       *)
(***************************************************************************)
EXTENDS Naturals, FiniteSets, SequencesExt

CONSTANTS
    Keys,              \* RequestKey
    Workers            \* m_workers

ASSUME ThumbnailConstants == IsFiniteSet(Keys) /\ IsFiniteSet(Workers) /\ Workers # {}

VARIABLES
    cache,             \* m_entries, m_inFlight, m_canceled, m_jobQueue, and the textures
    at,                \* where each worker is in workerLoop()
    decoding,          \* the key each worker has taken, or None
    results,           \* m_results
    eventFd,           \* whether m_eventFd is readable
    shutdown           \* m_shutdown

serviceVars == <<cache, at, decoding, results, eventFd, shutdown>>

None == "none"
ASSUME NoneIsNoKey == None \notin Keys

NoHandle == [id |-> 0, generation |-> 0]
TextureIds == 1 .. (Cardinality(Keys) + 1)
Handle == [id : {0} \cup TextureIds, generation : Nat]
DecodedJob == [key : Keys, ok : BOOLEAN]

CacheType ==
    [refs : [Keys -> Nat], handle : [Keys -> Handle], failed : [Keys -> BOOLEAN],
     inFlight : SUBSET Keys, canceled : SUBSET Keys, queue : Seq(Keys),
     manager : BOOLEAN,              \* m_textureManager is set
     textures : SUBSET TextureIds,   \* GlesTextureManager::m_textures
     generation : Nat]               \* GlesTextureManager::m_generation

ServiceTypeOK ==
    /\ cache \in CacheType
    /\ at \in [Workers -> {"waiting", "decoding", "pushed", "exited"}]
    /\ decoding \in [Workers -> Keys \cup {None}]
    /\ \A w \in Workers : (decoding[w] # None) <=> (at[w] = "decoding")
    /\ results \in Seq(DecodedJob)
    /\ eventFd \in BOOLEAN /\ shutdown \in BOOLEAN

ServiceInit ==
    /\ cache = [refs |-> [k \in Keys |-> 0], handle |-> [k \in Keys |-> NoHandle],
                failed |-> [k \in Keys |-> FALSE], inFlight |-> {}, canceled |-> {},
                queue |-> <<>>, manager |-> FALSE, textures |-> {}, generation |-> 1]
    /\ at = [w \in Workers |-> "waiting"]
    /\ decoding = [w \in Workers |-> None]
    /\ results = <<>>
    /\ eventFd = FALSE /\ shutdown = FALSE

-----------------------------------------------------------------------------
(* Owners, on the main thread                                              *)

\* A key whose decode was canceled while in flight is wanted again.
EnqueueDecodeIfNeeded(c, k) ==
    [c EXCEPT !.canceled = @ \ {k},
              !.inFlight = @ \cup {k},
              !.queue = IF k \in c.inFlight THEN @ ELSE Append(@, k)]

Acquire(c, k) ==
    LET owned == [c EXCEPT !.refs[k] = @ + 1] IN
    IF c.handle[k] # NoHandle \/ c.failed[k]
    THEN owned
    ELSE EnqueueDecodeIfNeeded(owned, k)

Peek(c, k) == c.handle[k]

\* The manager deletes only textures of its own generation; the handle is
\* cleared either way.
Unload(c, k) ==
    [c EXCEPT !.textures = IF c.handle[k].generation = c.generation
                           THEN @ \ {c.handle[k].id} ELSE @,
              !.handle[k] = NoHandle]

\* Variant: the last owner's texture stays behind.
ReleaseKeepsTexture(c, k) ==
    IF c.refs[k] <= 1
    THEN [c EXCEPT !.refs[k] = 0, !.handle[k] = NoHandle, !.failed[k] = FALSE,
                   !.canceled = IF k \in c.inFlight THEN @ \cup {k} ELSE @]
    ELSE [c EXCEPT !.refs[k] = @ - 1]

Release(c, k) ==
    IF c.refs[k] = 0
    THEN c
    ELSE IF c.refs[k] > 1
    THEN [c EXCEPT !.refs[k] = @ - 1]
    ELSE LET unloaded == IF c.manager THEN Unload(c, k) ELSE c IN
         [unloaded EXCEPT !.refs[k] = 0, !.handle[k] = NoHandle, !.failed[k] = FALSE,
                          !.canceled = IF k \in c.inFlight THEN @ \cup {k} ELSE @]

-----------------------------------------------------------------------------
(* Uploads and the loss of the graphics context, on the main thread        *)

FreeTexture(c) == CHOOSE i \in TextureIds \ c.textures : \A j \in TextureIds \ c.textures : i <= j

\* The new texture is there before the old one goes, if there is one.
LoadFromRgba(c, k) ==
    LET i == FreeTexture(c) IN
    [Unload(c, k) EXCEPT !.textures = @ \cup {i},
                         !.handle[k] = [id |-> i, generation |-> c.generation],
                         !.failed[k] = FALSE]

Landed(c, k) == [c EXCEPT !.inFlight = @ \ {k}, !.canceled = @ \ {k}]

\* Results of canceled decodes, and of keys that have no owner, are dropped.
Dropped(c, k) == k \in c.canceled \/ c.refs[k] = 0

\* One result of uploadPending().  refused are the keys whose upload the
\* graphics driver refuses.
UploadOne(up, job, refused) ==
    LET k == job.key
        landed == Landed(up.cache, k)
    IN  IF Dropped(up.cache, k)
        THEN [up EXCEPT !.cache = landed]
        ELSE [cache |-> IF ~job.ok \/ k \in refused
                        THEN [landed EXCEPT !.failed[k] = TRUE]
                        ELSE LoadFromRgba(landed, k),
              changed |-> TRUE]

\* The results one after the other.
UploadPending(c, jobs, refused) ==
    LET after[i \in 0 .. Len(jobs)] ==
            IF i = 0 THEN [cache |-> [c EXCEPT !.manager = TRUE], changed |-> FALSE]
            ELSE UploadOne(after[i - 1], jobs[i], refused)
    IN  after[Len(jobs)]

\* abandonGpuResources() of the service and of the texture manager: the
\* context is gone, so there is nothing to delete.
AbandonGpuResources(c) ==
    [c EXCEPT !.handle = [k \in Keys |-> NoHandle], !.failed = [k \in Keys |-> FALSE],
              !.manager = FALSE, !.textures = {}, !.generation = @ + 1]

Owned(c) == {k \in Keys : c.refs[k] > 0}

\* The textures of all entries are unloaded.
UnloadAll(c) ==
    [c EXCEPT !.textures = @ \ {c.handle[k].id : k \in {j \in Keys : c.handle[j].generation = c.generation}},
              !.handle = [k \in Keys |-> NoHandle],
              !.failed = [k \in Keys |-> FALSE]]

\* Variant: decodes in flight are taken for lost and queued again.
Requeued(c) == SetToSeq(Owned(c))

\* What invalidateGpuResources() queues: the owned keys that are not in flight.
Redecoded(c) == SetToSeq(Owned(c) \ c.inFlight)

InvalidateGpuResources(c) ==
    [UnloadAll(c) EXCEPT !.manager = TRUE,
                         !.canceled = @ \ Owned(c),
                         !.queue = @ \o Redecoded(c),
                         !.inFlight = @ \cup Owned(c)]

DeleteAllTextures(c) ==
    [(IF c.manager THEN UnloadAll(c) ELSE c) EXCEPT !.refs = [k \in Keys |-> 0],
                                                    !.handle = [k \in Keys |-> NoHandle]]

-----------------------------------------------------------------------------
(* workerLoop()                                                            *)

TakeJob(w) ==
    /\ at[w] = "waiting" /\ ~shutdown /\ cache.queue # <<>>
    /\ at' = [at EXCEPT ![w] = "decoding"]
    /\ decoding' = [decoding EXCEPT ![w] = Head(cache.queue)]
    /\ cache' = [cache EXCEPT !.queue = Tail(@)]
    /\ UNCHANGED <<results, eventFd, shutdown>>

\* Variant: the main loop is not woken for the result.
PushSilently(w) ==
    /\ at[w] = "decoding"
    /\ \E ok \in BOOLEAN : results' = Append(results, [key |-> decoding[w], ok |-> ok])
    /\ at' = [at EXCEPT ![w] = "waiting"]
    /\ decoding' = [decoding EXCEPT ![w] = None]
    /\ UNCHANGED <<cache, eventFd, shutdown>>

PushResult(w) ==
    /\ at[w] = "decoding"
    /\ \E ok \in BOOLEAN : results' = Append(results, [key |-> decoding[w], ok |-> ok])
    /\ at' = [at EXCEPT ![w] = "pushed"]
    /\ decoding' = [decoding EXCEPT ![w] = None]
    /\ UNCHANGED <<cache, eventFd, shutdown>>

SignalMain(w) ==
    /\ at[w] = "pushed"
    /\ eventFd' = TRUE
    /\ at' = [at EXCEPT ![w] = "waiting"]
    /\ UNCHANGED <<cache, decoding, results, shutdown>>

\* Jobs still queued at shutdown are not decoded.
ExitWorker(w) ==
    /\ at[w] = "waiting" /\ shutdown
    /\ at' = [at EXCEPT ![w] = "exited"]
    /\ UNCHANGED <<cache, decoding, results, eventFd, shutdown>>

WorkerStep(w) == TakeJob(w) \/ PushResult(w) \/ SignalMain(w) \/ ExitWorker(w)
=============================================================================
