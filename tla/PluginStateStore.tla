-------------------------- MODULE PluginStateStore --------------------------
(***************************************************************************)
(* The watchers of src/src/scripting/plugin_state_store.cpp, for one       *)
(* plugin id.  Entry runtimes of the plugin write the store from their     *)
(* worker threads; set() copies the watchers of the key under the store    *)
(* mutex and calls them one by one after releasing it.  The values         *)
(* themselves are abstracted: no property here depends on which value a    *)
(* key has.  The code keeps the watchers of a key in registration order;   *)
(* here they are a set, notified in any order.                             *)
(***************************************************************************)
EXTENDS Naturals, FiniteSets

CONSTANTS
    Runtimes,     \* the watching runtimes; each is its own token
    Workers,      \* the threads that call set()
    Keys,
    Refs          \* callback references (lua_ref) a watcher can carry

VARIABLES
    watchers,     \* state.watchers: the registered entries
    notifying     \* per setter: the copied watchers (toNotify) yet to be called

storeVars == <<watchers, notifying>>

\* WatcherEntry.  `vm` is a history field: it records which VM registered the
\* callback, so that a property can compare it with the VM the callback runs in.
Watcher == [key : Keys, token : Runtimes, ref : Refs, vm : Nat]

StoreTypeOK ==
    /\ watchers \subseteq Watcher
    /\ notifying \in [Workers -> SUBSET Watcher]

StoreInit ==
    /\ watchers = {}
    /\ notifying = [w \in Workers |-> {}]

\* The locked half of set(): the watchers of the key are copied.
SetKey(w, k) ==
    /\ notifying' = [notifying EXCEPT ![w] = {e \in watchers : e.key = k}]
    /\ UNCHANGED watchers

\* One iteration of the loop after the unlock.  What the watcher does (it
\* enqueues on a runtime's mailbox) is the caller's conjunct.
NotifyWatcher(w, e) ==
    /\ e \in notifying[w]
    /\ notifying' = [notifying EXCEPT ![w] = @ \ {e}]
    /\ UNCHANGED watchers

Watch(k, r, ref, vm) ==
    /\ watchers' = watchers \cup {[key |-> k, token |-> r, ref |-> ref, vm |-> vm]}
    /\ UNCHANGED notifying

RemoveWatchers(r) ==
    /\ watchers' = {e \in watchers : e.token # r}
    /\ UNCHANGED notifying
=============================================================================
