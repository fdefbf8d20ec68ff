------------------------ MODULE NotificationManager ------------------------
(***************************************************************************)
(* The notification daemon: src/src/notification/notification_manager.cpp, *)
(* as its D-Bus hosts, the toasts and the IPC commands call it, with the   *)
(* history it keeps in a file across restarts (notification_history_store).*)
(*                                                                         *)
(* A notification is live until it is closed.  Whoever sent it is owed one *)
(* NotificationClosed signal, which is deferred for one that expires while *)
(* it has actions: those can still be invoked from the history.  Filters   *)
(* may keep a notification out of the history, or suppress it altogether,  *)
(* in which case its sender gets an id that stands for nothing.            *)
(*                                                                         *)
(* All of it runs on the main thread; an action is one call from outside.  *)
(* Data.  Of a notification only what decides its way is kept: whether it  *)
(* is tracked (external, not of low urgency, not transient) and whether it *)
(* has actions.  Contents, close reasons, sounds, toast events and the     *)
(* "seen" marks are left out.  Time is open: which live notifications have *)
(* expired, since the toasts pause and resume them at will, and which      *)
(* history entries the retention finds too old.                            *)
(***************************************************************************)
EXTENDS Naturals, Sequences, FiniteSets, SequencesExt, Subsequences

CONSTANTS
    HistoryLimit,     \* kMaxHistoryEntries
    Filters,          \* the verdicts of the configured filters
    Hosts,            \* "server": own D-Bus service; "kde": watcher of Plasma's
    Classes,          \* the kinds of notifications that D-Bus clients send
    MaxId             \* bound: notification ids

ASSUME NotificationConstants ==
    /\ HistoryLimit \in Nat \ {0}
    /\ MaxId \in Nat
    /\ Filters \subseteq [toast : BOOLEAN, save : BOOLEAN, allowed : BOOLEAN]
    /\ Hosts \subseteq {"server", "kde"}
    /\ Classes \subseteq [tracked : BOOLEAN, actions : BOOLEAN]

VARIABLES
    live,             \* m_notifications
    idToIndex,        \* m_idToIndex
    suppressed,       \* m_suppressedIds
    pending,          \* m_pendingDBusClose
    history,          \* m_history
    nextId,
    filter,           \* what m_filters resolve to
    host,
    running,          \* whether the shell runs
    plasmaId,         \* the last id Plasma gave to a notification
    persistScheduled,
    disk,             \* the history file
    saveFailed,       \* history: the last save failed
    shown,            \* history: the ids of notifications issued in this session
    closes            \* history: calls of the close callback since the id was issued

fileVars == <<persistScheduled, disk, saveFailed>>
idVars == <<suppressed, nextId, plasmaId>>
vars == <<live, idToIndex, idVars, pending, history, filter, host, running, fileVars,
          shown, closes>>

Id == 1..MaxId
NoId == 0

Notification == [id : Id, tracked : BOOLEAN, actions : BOOLEAN]
HistoryEntry == [id : Id, tracked : BOOLEAN, actions : BOOLEAN, active : BOOLEAN]

IdsOf(seq) == {seq[i].id : i \in DOMAIN seq}
IsLive(id) == id \in DOMAIN idToIndex
Find(id) == live[idToIndex[id]]

TypeOK ==
    /\ live \in Seq(Notification)
    /\ DOMAIN idToIndex \subseteq Id
    /\ \A id \in DOMAIN idToIndex : idToIndex[id] \in 1..Len(live)
    /\ suppressed \subseteq Id
    /\ pending \subseteq Id
    /\ history \in Seq(HistoryEntry) /\ Len(history) <= HistoryLimit
    /\ nextId \in 1..(MaxId + 1)
    /\ filter \in Filters /\ host \in Hosts
    /\ running \in BOOLEAN
    /\ plasmaId \in 0..MaxId
    /\ persistScheduled \in BOOLEAN /\ saveFailed \in BOOLEAN
    /\ disk.history \in Seq(HistoryEntry) /\ disk.nextId \in 1..(MaxId + 1)
    /\ shown \subseteq Id
    /\ closes \in [Id -> Nat]

\* What the shell starts with from no file, or from one that does not parse.
NoFile == [history |-> <<>>, nextId |-> 1]

NoIndex == [id \in {} |-> 0]
NoCloses == [id \in Id |-> 0]

Init ==
    /\ live = <<>> /\ idToIndex = NoIndex
    /\ suppressed = {} /\ pending = {}
    /\ history = <<>>
    /\ nextId = 1 /\ plasmaId = 0
    /\ filter \in Filters /\ host \in Hosts /\ running = TRUE
    /\ persistScheduled = FALSE /\ saveFailed = FALSE
    /\ disk = NoFile
    /\ shown = {} /\ closes = NoCloses

-----------------------------------------------------------------------------
(* Filters *)

\* dispatch.saveHistory, or that the request itself asks for the history
Saves(q) == (q.tracked /\ filter.allowed /\ filter.save) \/ q.persist

FullySuppressed(q) ==
    \/ ~filter.allowed
    \/ ~filter.toast /\ ~(q.tracked /\ filter.save)

\* shouldSaveNotificationToHistory(), when a notification is closed
SavesClosed(n) == n.tracked /\ filter.save

-----------------------------------------------------------------------------
(* History and close signals *)

\* The close callback is called for the ids.
Told(count, ids) == [id \in Id |-> count[id] + (IF id \in ids THEN 1 ELSE 0)]

\* Variant: the signal is sent and still due.
EmitPendingAgain(ids) ==
    /\ pending' = pending
    /\ closes' = Told(closes, pending \cap ids)

\* emitPendingDBusClose() of each of the ids
EmitPending(ids) ==
    /\ pending' = pending \ ids
    /\ closes' = Told(closes, pending \cap ids)

\* Variant: the save is forgotten.
SchedulePersistNot == UNCHANGED fileVars

SchedulePersist == persistScheduled' = TRUE /\ UNCHANGED <<disk, saveFailed>>

\* The history without the entry of an id.
Removed(id) == Kept(history, LAMBDA e : e.id # id)

\* upsertHistory(): the entry becomes the newest ...
Upserted(n, active) ==
    Append(Removed(n.id), [id |-> n.id, tracked |-> n.tracked, actions |-> n.actions,
                           active |-> active])

\* ... and the oldest beyond the limit go.
Excess(h) == IF Len(h) > HistoryLimit THEN Len(h) - HistoryLimit ELSE 0

\* Variant: nothing is evicted.
TrimmedNot(h) == h

Trimmed(h) == SubSeq(h, Excess(h) + 1, Len(h))

\* Variant: eviction forgets the signal that is due.
EvictedQuietly(h) == {}

Evicted(h) == IdsOf(SubSeq(h, 1, Excess(h)))

-----------------------------------------------------------------------------
(* addOrReplace() *)

\* What D-Bus clients ask for; `persist` asks for an entry in the history.
External(replaces, forced) ==
    {[tracked |-> c.tracked, actions |-> c.actions, persist |-> FALSE, replaces |-> id,
      forced |-> forced] : c \in Classes, id \in replaces}

\* What the shell itself asks for: notifications without actions that reach the history
\* only on demand.
Internal ==
    {[tracked |-> FALSE, actions |-> FALSE, persist |-> persist, replaces |-> NoId,
      forced |-> NoId] : persist \in BOOLEAN}

FromRequest(id, q) ==
    [id |-> id, tracked |-> q.tracked, actions |-> q.actions]

\* Variant: ids of an external server are not counted.
NextFreeOwn(q) == nextId

\* The next id of our own; ids of an external server are skipped.
NextFree(q) == IF q.forced # NoId /\ q.forced >= nextId THEN q.forced + 1 ELSE nextId

\* An id stands for a suppressed notification that is still to be suppressed.
KeepSuppressed(q) ==
    /\ q.replaces \in suppressed
    /\ FullySuppressed(q)
    /\ UNCHANGED <<live, idToIndex, suppressed, nextId, pending, history, filter, host, running,
                   fileVars, shown, closes>>

\* The id of a suppressed notification that no longer is: the request counts as new.
Unsuppress(q) ==
    /\ q.replaces \in suppressed => ~FullySuppressed(q)
    /\ suppressed' = suppressed \ {q.replaces}

\* A live notification changes in place.  One that may no longer be saved leaves the
\* history.
Replace(q) ==
    LET n == FromRequest(q.replaces, q) IN
    /\ Unsuppress(q)
    /\ IsLive(q.replaces)
    /\ live' = [live EXCEPT ![idToIndex[q.replaces]] = n]
    /\ IF Saves(q)
       THEN LET h == Upserted(n, TRUE) IN
            /\ history' = Trimmed(h)
            /\ EmitPending(Evicted(h))
            /\ SchedulePersist
       ELSE IF n.id \in IdsOf(history)
       THEN /\ history' = Removed(n.id)
            /\ EmitPending({n.id})
            /\ SchedulePersist
       ELSE UNCHANGED <<history, pending, closes, fileVars>>
    /\ UNCHANGED <<idToIndex, nextId, filter, host, running, shown>>

\* suppressExternal()
Suppress(q) ==
    /\ q.replaces \notin suppressed
    /\ ~IsLive(q.replaces)
    /\ FullySuppressed(q)
    /\ NextFree(q) <= MaxId
    /\ suppressed' = suppressed \cup {NextFree(q)}
    /\ nextId' = NextFree(q) + 1
    /\ UNCHANGED <<live, idToIndex, pending, history, filter, host, running, fileVars, shown,
                   closes>>

\* A notification with the contents of one that has just come is that one.  Which of
\* the live ones have just come, with which contents, is open.
IgnoreDuplicate(q) ==
    /\ Unsuppress(q)
    /\ ~IsLive(q.replaces)
    /\ ~FullySuppressed(q)
    /\ live # <<>>
    /\ nextId' = NextFree(q)
    /\ UNCHANGED <<live, idToIndex, pending, history, filter, host, running, fileVars, shown,
                   closes>>

Add(q) ==
    LET id == IF q.forced = NoId THEN NextFree(q) ELSE q.forced
        n == FromRequest(id, q)
        h == Upserted(n, TRUE)
    IN  /\ Unsuppress(q)
        /\ ~IsLive(q.replaces)
        /\ ~FullySuppressed(q)
        /\ id <= MaxId
        /\ nextId' = IF q.forced = NoId THEN id + 1 ELSE NextFree(q)
        /\ live' = Append(live, n)
        /\ idToIndex' = [i \in DOMAIN idToIndex \cup {id} |->
                            IF IsLive(i) THEN idToIndex[i] ELSE Len(live')]
        /\ shown' = shown \cup {id}
        /\ IF Saves(q)
           THEN /\ history' = Trimmed(h)
                /\ pending' = pending \ Evicted(h)
                /\ closes' = Told([closes EXCEPT ![id] = 0], pending \cap Evicted(h))
                /\ SchedulePersist
           ELSE /\ closes' = [closes EXCEPT ![id] = 0]
                /\ UNCHANGED <<history, pending, fileVars>>
        /\ UNCHANGED <<filter, host, running>>

AddOrReplace(q) ==
    KeepSuppressed(q) \/ Replace(q) \/ Suppress(q) \/ IgnoreDuplicate(q) \/ Add(q)

-----------------------------------------------------------------------------
(* close() *)

\* The index after the notification of an id is erased from the list.
Reindexed(id) ==
    [i \in DOMAIN idToIndex \ {id} |->
        IF idToIndex[i] > idToIndex[id] THEN idToIndex[i] - 1 ELSE idToIndex[i]]

\* The id of a suppressed notification is forgotten; no signal is due.
CloseSuppressed(id) ==
    /\ id \in suppressed
    /\ suppressed' = suppressed \ {id}
    /\ UNCHANGED <<live, idToIndex, pending, history, nextId, fileVars, closes>>

\* The signal deferred at the expiry is sent, and the history entry goes.
ClosePending(id) ==
    /\ id \notin suppressed
    /\ ~IsLive(id)
    /\ id \in pending
    /\ EmitPending({id})
    /\ history' = Removed(id)
    /\ IF id \in IdsOf(history) THEN SchedulePersist ELSE UNCHANGED fileVars
    /\ UNCHANGED <<live, idToIndex, suppressed, nextId>>

Defers(n, reason) == reason = "expired" /\ n.actions

\* Dismissed ones leave the history, others stay in it as closed.
CloseLive(id, reason) ==
    LET closed == Find(id)
        removes == SavesClosed(closed) /\ reason = "dismissed" /\ id \in IdsOf(history)
        upserts == SavesClosed(closed) /\ reason # "dismissed"
        h == IF upserts THEN Upserted(closed, FALSE)
             ELSE IF removes THEN Removed(id) ELSE history
        leaving == IF removes THEN {id} ELSE Evicted(h)
        now == IF Defers(closed, reason) THEN {} ELSE {id}
    IN  /\ id \notin suppressed
        /\ IsLive(id)
        /\ history' = Trimmed(h)
        /\ live' = RemoveAt(live, idToIndex[id])
        /\ idToIndex' = Reindexed(id)
        /\ pending' = (pending \ leaving) \cup ({id} \ now)
        /\ closes' = Told(Told(closes, pending \cap leaving), now)
        /\ IF upserts \/ removes THEN SchedulePersist ELSE UNCHANGED fileVars
        /\ UNCHANGED <<suppressed, nextId>>

Close(id, reason) ==
    /\ CloseSuppressed(id) \/ ClosePending(id) \/ CloseLive(id, reason)
    /\ UNCHANGED <<plasmaId, filter, host, running, shown>>

-----------------------------------------------------------------------------
(* What is called from outside *)

\* Notify of the own service.  Clients name any id they like to replace.
Notify ==
    /\ running
    /\ host = "server"
    /\ \E q \in External(Id \cup {NoId}, NoId) : AddOrReplace(q)
    /\ UNCHANGED plasmaId

\* Plasma gives an id to a new notification and tells its watchers (adoptExternal()) ...
PlasmaNotifies ==
    /\ running
    /\ host = "kde"
    /\ plasmaId < MaxId
    /\ plasmaId' = plasmaId + 1
    /\ \E q \in IF IsLive(plasmaId') THEN External({plasmaId'}, NoId)
                ELSE External({NoId}, plasmaId') : AddOrReplace(q)

\* ... or replaces one.
PlasmaReplaces ==
    /\ running
    /\ host = "kde"
    /\ \E q \in External(1..plasmaId, NoId) : AddOrReplace(q)
    /\ UNCHANGED plasmaId

AddInternal ==
    /\ running
    /\ \E q \in Internal : AddOrReplace(q)
    /\ UNCHANGED plasmaId

\* CloseNotification over D-Bus, with any id, and the toasts and IPC commands, which
\* dismiss what is live.
CloseNotification ==
    /\ running
    /\ \E id \in Id : Close(id, "called") \/ (IsLive(id) /\ Close(id, "dismissed"))

\* processExpired() closes what it finds expired, one by one, and toasts do so when
\* their time is over.
Expire == running /\ \E id \in DOMAIN idToIndex : Close(id, "expired")

\* The history entry whose action was invoked: it has none any more.
Invoked(id) ==
    [i \in DOMAIN history |->
        IF history[i].id = id THEN [history[i] EXCEPT !.actions = FALSE, !.active = FALSE]
        ELSE history[i]]

\* invokeAction() with closeAfterInvoke; without, it only sends a signal.
InvokeAction ==
    /\ running
    /\ \E id \in Id :
          \/ IsLive(id) /\ Find(id).actions /\ Close(id, "dismissed")
          \/ /\ ~IsLive(id)
             /\ id \in pending
             /\ \E i \in DOMAIN history : history[i].id = id /\ history[i].actions
             /\ EmitPending({id})
             /\ history' = Invoked(id)
             /\ SchedulePersist
             /\ UNCHANGED <<live, idToIndex, idVars, filter, host, running, shown>>

SetFilters ==
    /\ running
    /\ filter' \in Filters \ {filter}
    /\ UNCHANGED <<live, idToIndex, idVars, pending, history, host, running, fileVars, shown,
                   closes>>

\* clearHistory(), cleanupOldHistoryEntries(): entries go, and so do the signals that
\* are due for them.  The retention leaves active entries alone.
RemoveFromHistory ==
    /\ running
    /\ history # <<>>
    /\ \E ids \in {IdsOf(history)}
                  \cup (SUBSET IdsOf(Kept(history, LAMBDA e : ~e.active)) \ {{}}) :
          /\ history' = Kept(history, LAMBDA e : e.id \notin ids)
          /\ EmitPending(ids)
    /\ SchedulePersist
    /\ UNCHANGED <<live, idToIndex, idVars, filter, host, running, shown>>

-----------------------------------------------------------------------------
(* The history file *)

Current == [history |-> history, nextId |-> nextId]

\* persistHistoryToDisk().  The file is replaced, or it stays when there is no state
\* directory, or when the new one cannot be opened or renamed; a write that fails half
\* way, on a full disk, goes unnoticed, and what replaces the file does not parse.
Save ==
    \/ disk' = Current /\ saveFailed' = FALSE
    \/ disk' \in {disk, NoFile} /\ saveFailed' = TRUE

\* The save that was deferred
Persist ==
    /\ running
    /\ persistScheduled
    /\ persistScheduled' = FALSE
    /\ Save
    /\ UNCHANGED <<live, idToIndex, idVars, pending, history, filter, host, running, shown,
                   closes>>

\* The shell exits (flushPersistedHistory()): the signals still deferred are sent, and
\* the history is saved once more.
Exit ==
    /\ running
    /\ EmitPending(pending)
    /\ Save
    /\ running' = FALSE
    /\ UNCHANGED <<live, idToIndex, idVars, history, filter, host, persistScheduled, shown>>

\* What loadPersistedHistory() makes of a saved history.
Retained(h) == Kept(h, LAMBDA e : e.tracked)

\* The shell starts again, after an exit or a crash.  (A file that parses but is not of
\* the shape the shell writes would stop the start.)
Restart ==
    /\ history' = Retained(disk.history)
    /\ nextId' = disk.nextId
    /\ live' = <<>> /\ idToIndex' = NoIndex
    /\ suppressed' = {} /\ pending' = {}
    /\ running' = TRUE
    /\ persistScheduled' = FALSE /\ saveFailed' = FALSE
    /\ shown' = {} /\ closes' = NoCloses
    /\ UNCHANGED <<plasmaId, filter, host, disk>>

Next ==
    \/ Notify \/ PlasmaNotifies \/ PlasmaReplaces \/ AddInternal
    \/ CloseNotification \/ Expire \/ InvokeAction
    \/ SetFilters \/ RemoveFromHistory
    \/ Persist \/ Exit \/ Restart

Spec == Init /\ [][Next]_vars

-----------------------------------------------------------------------------
(* Properties *)

\* The sender of a notification gets one NotificationClosed and no second one: the
\* notification is live, its signal is deferred, or it was sent, whatever order
\* expiry, dismissal, actions, eviction and the retention come in.
CloseAccounted ==
    host = "server" =>
        /\ IdsOf(live) \cup pending \subseteq shown
        /\ IdsOf(live) \cap pending = {}
        /\ \A id \in Id :
              closes[id] = IF id \in shown \ (IdsOf(live) \cup pending) THEN 1 ELSE 0

\* The next id of ours names nothing that is still around: what is live, suppressed,
\* deferred or in the history, that of earlier sessions and ids of Plasma's included, is
\* below it.
IdsAreFresh ==
    IdsOf(live) \cup IdsOf(history) \cup suppressed \cup pending \subseteq 1..(nextId - 1)

\* A history entry whose signal is deferred stays, as the only one of its notification,
\* until the signal is sent: it is what is left to invoke actions on or to remove, so
\* that an eviction or a clean-up that drops it quietly leaves the sender waiting.
DeferredKeepsEntry ==
    [][\A id \in pending \cap pending' :
          id \in IdsOf(history) =>
              Cardinality({i \in DOMAIN history' : history'[i].id = id}) = 1]_vars

\* Unless a save is due or the last one failed, a crash loses nothing of the history:
\* no change of it, by whichever path, goes without a save, and none is due any more
\* when the shell has exited.
HistorySaved ==
    Retained(history) # Retained(disk.history)
        => (running /\ persistScheduled) \/ saveFailed
=============================================================================
