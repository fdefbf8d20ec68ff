---------------------- MODULE NotificationManagerProofs ----------------------
(***************************************************************************)
(* Proofs about NotificationManager: its type invariant, that ids are      *)
(* fresh, that every sender gets its close signal once, that a deferred    *)
(* signal keeps its history entry and that no change of the history is     *)
(* left unsaved.                                                           *)
(***************************************************************************)
EXTENDS NotificationManager, DataLemmas

-----------------------------------------------------------------------------
(* Histories *)

\* A notification has one entry at most.
OneEach(h) == \A i, j \in DOMAIN h : h[i].id = h[j].id => i = j

LEMMA IdsOfSeq ==
    ASSUME NEW S, NEW h \in Seq(S)
    PROVE  /\ IdsOf(h) = {h[i].id : i \in 1..Len(h)}
           /\ DOMAIN h = 1..Len(h) /\ Len(h) \in Nat
  BY LenProperties DEF IdsOf

\* Entries that are kept are entries of the history.
LEMMA KeptEntries ==
    ASSUME NEW h \in Seq(HistoryEntry), NEW I \in SUBSET DOMAIN h
    PROVE  /\ AtPlaces(h, I) \in Seq(HistoryEntry)
           /\ Len(AtPlaces(h, I)) <= Len(h)
           /\ IdsOf(AtPlaces(h, I)) = {h[i].id : i \in I}
           /\ OneEach(h) => OneEach(AtPlaces(h, I))
<1> DEFINE r == AtPlaces(h, I)
           C == 1..Cardinality(I)
<1>1. /\ r \in Seq(HistoryEntry) /\ Len(r) = Cardinality(I) /\ Cardinality(I) \in 0..Len(h)
      /\ DOMAIN r = C
      /\ \A k \in C : NthOf(I, k) \in I /\ r[k] = h[NthOf(I, k)]
      /\ \A i \in I : \E k \in C : NthOf(I, k) = i
      /\ \A k, l \in C : NthOf(I, k) = NthOf(I, l) => k = l
  BY Subsequence
<1> HIDE DEF r
<1>2. IdsOf(r) = {h[i].id : i \in I}
  <2>1. IdsOf(r) = {r[k].id : k \in C}
    BY <1>1 DEF IdsOf
  <2>2. \A k \in C : r[k].id \in {h[i].id : i \in I}
    BY <1>1
  <2>3. ASSUME NEW i \in I PROVE h[i].id \in {r[k].id : k \in C}
    <3>1. PICK k \in C : NthOf(I, k) = i
      BY <1>1
    <3> QED BY <1>1, <3>1
  <2> QED BY <2>1, <2>2, <2>3
<1>3. OneEach(h) => OneEach(r)
  BY <1>1 DEF OneEach
<1>4. Len(r) <= Len(h)
  BY <1>1, LenProperties
<1> QED BY <1>1, <1>2, <1>3, <1>4 DEF r

LEMMA RemovedEntries ==
    ASSUME history \in Seq(HistoryEntry), NEW id
    PROVE  /\ Removed(id) \in Seq(HistoryEntry)
           /\ Len(Removed(id)) <= Len(history)
           /\ IdsOf(Removed(id)) = IdsOf(history) \ {id}
           /\ OneEach(history) => OneEach(Removed(id))
           /\ id \notin IdsOf(history) => Removed(id) = history
<1> DEFINE I == {i \in DOMAIN history : history[i].id # id}
<1>1. Removed(id) = AtPlaces(history, I)
  BY DEF Removed, Kept
<1>2. {history[i].id : i \in I} = IdsOf(history) \ {id}
  BY DEF IdsOf
<1>3. id \notin IdsOf(history) => I = DOMAIN history
  BY DEF IdsOf
<1> HIDE DEF I
<1>4. I \in SUBSET DOMAIN history
  BY DEF I
<1> QED BY <1>1, <1>2, <1>3, <1>4, KeptEntries, AllOfIt

LEMMA UpsertedEntries ==
    ASSUME history \in Seq(HistoryEntry), NEW n \in Notification, NEW active \in BOOLEAN
    PROVE  /\ Upserted(n, active) \in Seq(HistoryEntry)
           /\ Len(Upserted(n, active)) > 0
           /\ IdsOf(Upserted(n, active)) = IdsOf(history) \cup {n.id}
           /\ Upserted(n, active)[Len(Upserted(n, active))].id = n.id
           /\ OneEach(history) => OneEach(Upserted(n, active))
<1> DEFINE r == Removed(n.id)
           e == [id |-> n.id, tracked |-> n.tracked, actions |-> n.actions, active |-> active]
           u == Append(r, e)
<1>1. Upserted(n, active) = u
  BY DEF Upserted
<1>2. e \in HistoryEntry /\ e.id = n.id
  BY DEF HistoryEntry, Notification
<1>3. /\ r \in Seq(HistoryEntry) /\ IdsOf(r) = IdsOf(history) \ {n.id}
      /\ OneEach(history) => OneEach(r)
  BY RemovedEntries
<1> HIDE DEF r, e
<1>4. /\ u \in Seq(HistoryEntry) /\ Len(u) = Len(r) + 1 /\ u # <<>>
      /\ \A i \in 1..Len(r) : u[i] = r[i]
      /\ u[Len(r) + 1] = e
  BY <1>2, <1>3, AppendProperties
<1> HIDE DEF u
<1>5. DOMAIN r = 1..Len(r) /\ Len(r) \in Nat /\ DOMAIN u = 1..(Len(r) + 1)
  BY <1>3, <1>4, LenProperties
<1>6. IdsOf(u) = IdsOf(r) \cup {n.id}
  <2>1. \A i \in DOMAIN u : i \in DOMAIN r \/ i = Len(r) + 1
    BY <1>5
  <2>2. \A i \in DOMAIN r : i \in DOMAIN u /\ u[i] = r[i]
    BY <1>4, <1>5
  <2>3. Len(r) + 1 \in DOMAIN u
    BY <1>5
  <2> QED BY <1>2, <1>4, <2>1, <2>2, <2>3 DEF IdsOf
<1>7. OneEach(history) => OneEach(u)
  <2>1. \A i \in DOMAIN r : r[i].id # n.id
    BY <1>3 DEF IdsOf
  <2> QED BY <1>2, <1>3, <1>4, <1>5, <2>1 DEF OneEach
<1> QED BY <1>1, <1>2, <1>3, <1>4, <1>5, <1>6, <1>7

\* What does not fit goes, from the oldest entry on, and the newest stays.
LEMMA TrimmedEntries ==
    ASSUME NEW h \in Seq(HistoryEntry)
    PROVE  /\ Trimmed(h) \in Seq(HistoryEntry)
           /\ Len(Trimmed(h)) <= HistoryLimit
           /\ IdsOf(Trimmed(h)) \subseteq IdsOf(h)
           /\ IdsOf(h) \subseteq IdsOf(Trimmed(h)) \cup Evicted(h)
           /\ OneEach(h) => OneEach(Trimmed(h))
           /\ Len(h) > 0 => h[Len(h)].id \in IdsOf(Trimmed(h))
           /\ Len(h) <= HistoryLimit => Trimmed(h) = h /\ Evicted(h) = {}
<1> USE NotificationConstants
<1> DEFINE x == Excess(h)
           t == SubSeq(h, x + 1, Len(h))
           v == SubSeq(h, 1, x)
<1>1. /\ Len(h) \in Nat /\ DOMAIN h = 1..Len(h) /\ h \in [1..Len(h) -> HistoryEntry]
      /\ \A i \in 1..Len(h) : h[i] \in HistoryEntry
  BY LenProperties, ElementOfSeq
<1>2. /\ x \in 0..Len(h) /\ Len(h) - x <= HistoryLimit /\ (Len(h) > 0 => x < Len(h))
      /\ (Len(h) <= HistoryLimit => x = 0)
  <2> DEFINE n == Len(h)
  <2>1. x = IF n > HistoryLimit THEN n - HistoryLimit ELSE 0
    BY DEF Excess
  <2>2. n \in Nat /\ HistoryLimit \in Nat \ {0}
    BY <1>1
  <2> HIDE DEF n, x
  <2>3. /\ x \in 0..n /\ n - x <= HistoryLimit /\ (n > 0 => x < n)
        /\ (n <= HistoryLimit => x = 0)
    BY <2>1, <2>2
  <2> QED BY <2>3 DEF n
<1>3. Trimmed(h) = t /\ Evicted(h) = IdsOf(v)
  BY DEF Trimmed, Evicted
<1> HIDE DEF x
<1>4. /\ t \in Seq(HistoryEntry) /\ Len(t) = Len(h) - x
      /\ \A i \in 1..(Len(h) - x) : t[i] = h[x + i]
  <2>1. /\ t \in Seq(HistoryEntry)
        /\ Len(t) = IF x + 1 <= Len(h) THEN Len(h) - (x + 1) + 1 ELSE 0
        /\ \A i \in 1..(Len(h) - (x + 1) + 1) : t[i] = h[(x + 1) + i - 1]
    BY <1>1, <1>2, SubSeqProperties
  <2> HIDE DEF t
  <2>2. Len(t) = Len(h) - x
    <3> DEFINE n == Len(h)
    <3>1. n \in Nat /\ x \in 0..n /\ Len(t) = IF x + 1 <= n THEN n - (x + 1) + 1 ELSE 0
      BY <1>1, <1>2, <2>1
    <3> HIDE DEF n
    <3>2. Len(t) = n - x
      BY <3>1
    <3> QED BY <3>2 DEF n
  <2>3. ASSUME NEW i \in 1..(Len(h) - x) PROVE t[i] = h[x + i]
    <3>1. i \in 1..(Len(h) - (x + 1) + 1) /\ (x + 1) + i - 1 = x + i
      BY <1>1, <1>2
    <3> QED BY <2>1, <3>1
  <2> QED BY <2>1, <2>2, <2>3
<1>5. /\ v \in Seq(HistoryEntry) /\ Len(v) = x
      /\ \A i \in 1..x : v[i] = h[i]
  <2>1. /\ v \in Seq(HistoryEntry)
        /\ Len(v) = IF 1 <= x THEN x - 1 + 1 ELSE 0
        /\ \A i \in 1..(x - 1 + 1) : v[i] = h[1 + i - 1]
    BY <1>1, <1>2, SubSeqProperties
  <2> HIDE DEF v
  <2> QED BY <1>1, <1>2, <2>1
<1> HIDE DEF t, v
<1>6. DOMAIN t = 1..(Len(h) - x) /\ DOMAIN v = 1..x
  BY <1>4, <1>5, LenProperties
<1>7. IdsOf(t) \subseteq IdsOf(h)
  <2>1. \A i \in DOMAIN t : x + i \in DOMAIN h /\ t[i] = h[x + i]
    BY <1>1, <1>2, <1>4, <1>6
  <2> QED BY <2>1 DEF IdsOf
<1>8. IdsOf(h) \subseteq IdsOf(t) \cup IdsOf(v)
  <2> SUFFICES ASSUME NEW i \in DOMAIN h PROVE h[i].id \in IdsOf(t) \cup IdsOf(v)
    BY DEF IdsOf
  <2>1. CASE i <= x
    <3>1. i \in DOMAIN v /\ v[i] = h[i]
      BY <1>1, <1>2, <1>5, <1>6, <2>1
    <3> QED BY <3>1 DEF IdsOf
  <2>2. CASE ~(i <= x)
    <3>1. i - x \in 1..(Len(h) - x) /\ x + (i - x) = i
      BY <1>1, <1>2, <2>2
    <3>2. i - x \in DOMAIN t /\ t[i - x] = h[i]
      BY <1>4, <1>6, <3>1
    <3> QED BY <3>2 DEF IdsOf
  <2> QED BY <2>1, <2>2
<1>9. OneEach(h) => OneEach(t)
  <2> SUFFICES ASSUME OneEach(h), NEW i \in DOMAIN t, NEW j \in DOMAIN t, t[i].id = t[j].id
               PROVE  i = j
    BY DEF OneEach
  <2>1. x + i \in DOMAIN h /\ x + j \in DOMAIN h /\ t[i] = h[x + i] /\ t[j] = h[x + j]
    BY <1>1, <1>2, <1>4, <1>6
  <2>2. x + i = x + j
    BY <2>1 DEF OneEach
  <2> QED BY <1>1, <1>2, <1>6, <2>2
<1>10. Len(h) > 0 => h[Len(h)].id \in IdsOf(t)
  <2> SUFFICES ASSUME Len(h) > 0 PROVE h[Len(h)].id \in IdsOf(t)
    OBVIOUS
  <2>1. Len(h) - x \in 1..(Len(h) - x) /\ x + (Len(h) - x) = Len(h)
    BY <1>1, <1>2
  <2>2. Len(h) - x \in DOMAIN t /\ t[Len(h) - x] = h[Len(h)]
    BY <1>4, <1>6, <2>1
  <2> QED BY <2>2 DEF IdsOf
<1>11. Len(h) <= HistoryLimit => t = h /\ IdsOf(v) = {}
  <2> SUFFICES ASSUME Len(h) <= HistoryLimit PROVE t = h /\ IdsOf(v) = {}
    OBVIOUS
  <2>1. x = 0
    BY <1>2
  <2>2. \A i \in 1..Len(h) : t[i] = h[i]
    BY <1>1, <1>4, <2>1
  <2>3. t \in [1..Len(h) -> HistoryEntry]
    BY <1>1, <1>4, <2>1, LenProperties
  <2>4. t = h
    BY <1>1, <2>2, <2>3
  <2>5. DOMAIN v = {}
    BY <1>6, <2>1
  <2> QED BY <2>4, <2>5 DEF IdsOf
<1>12. Len(t) <= HistoryLimit
  BY <1>1, <1>2, <1>4
<1> QED BY <1>3, <1>4, <1>7, <1>8, <1>9, <1>10, <1>11, <1>12

-----------------------------------------------------------------------------
(* The invariants *)

\* The two copies of the history.
HistoriesOK ==
    /\ history \in Seq(HistoryEntry) /\ Len(history) <= HistoryLimit /\ OneEach(history)
    /\ /\ disk.history \in Seq(HistoryEntry) /\ Len(disk.history) <= HistoryLimit
       /\ OneEach(disk.history)

\* The list of live notifications and the index over it agree.
Indexed ==
    /\ DOMAIN idToIndex = IdsOf(live)
    /\ \A id \in DOMAIN idToIndex :
          idToIndex[id] \in 1..Len(live) /\ live[idToIndex[id]].id = id
    /\ \A i \in 1..Len(live) : idToIndex[live[i].id] = i

\* No id is given out twice, in this session or, by what is on disk, in the next one.
Fresh == IdsAreFresh /\ IdsOf(disk.history) \subseteq 1..(disk.nextId - 1)

Inv == TypeOK /\ HistoriesOK /\ Indexed /\ Fresh

\* What is asked of addOrReplace().
Request == [tracked : BOOLEAN, actions : BOOLEAN, persist : BOOLEAN,
            replaces : Id \cup {NoId}, forced : Id \cup {NoId}]

\* The id of an external server is new to the list when it is forced on us.
Issued(q) ==
    /\ q \in Request
    /\ q.forced # NoId => host = "kde" /\ ~IsLive(q.forced)

\* invokeAction() on an entry of the history.
InvokePending(id) ==
    /\ ~IsLive(id)
    /\ id \in pending
    /\ \E i \in DOMAIN history : history[i].id = id /\ history[i].actions
    /\ EmitPending({id})
    /\ history' = Invoked(id)
    /\ SchedulePersist
    /\ UNCHANGED <<live, idToIndex, idVars, filter, host, shown>>

Reasons == {"called", "dismissed", "expired"}

\* Every step is one of these calls.
LEMMA Calls ==
    ASSUME TypeOK, Next
    PROVE  \/ \E q \in Request : /\ Issued(q) /\ AddOrReplace(q)
                                 /\ plasmaId' \in 0..MaxId
           \/ \E id \in Id, reason \in Reasons : Close(id, reason)
           \/ \E id \in Id : InvokePending(id)
           \/ SetFilters \/ RemoveFromHistory \/ Persist \/ Exit \/ Restart
<1> USE NotificationConstants
<1>0. plasmaId \in 0..MaxId
  BY DEF TypeOK
<1>1. \A ids \in SUBSET (Id \cup {NoId}), f \in Id \cup {NoId} :
         \A q \in External(ids, f) : q \in Request /\ q.forced = f
  <2> SUFFICES ASSUME NEW ids \in SUBSET (Id \cup {NoId}), NEW f \in Id \cup {NoId},
                      NEW q \in External(ids, f)
               PROVE  q \in Request /\ q.forced = f
    OBVIOUS
  <2>1. PICK c \in Classes, id \in ids :
           q = [tracked |-> c.tracked, actions |-> c.actions, persist |-> FALSE, replaces |-> id,
                forced |-> f]
    BY DEF External
  <2>2. c.tracked \in BOOLEAN /\ c.actions \in BOOLEAN
    OBVIOUS
  <2> QED BY <2>1, <2>2 DEF Request
<1>2. CASE Notify
  <2>1. PICK q \in External(Id \cup {NoId}, NoId) : AddOrReplace(q)
    BY <1>2 DEF Notify
  <2>2. q \in Request /\ q.forced = NoId
    BY <1>1, <2>1
  <2>3. plasmaId' = plasmaId
    BY <1>2 DEF Notify
  <2> QED BY <1>0, <2>1, <2>2, <2>3 DEF Issued
<1>3. CASE PlasmaNotifies
  <2>1. plasmaId' \in Id /\ host = "kde"
    BY <1>0, <1>3 DEF PlasmaNotifies, Id
  <2>2. PICK q \in IF IsLive(plasmaId') THEN External({plasmaId'}, NoId)
                   ELSE External({NoId}, plasmaId') : AddOrReplace(q)
    BY <1>3 DEF PlasmaNotifies
  <2>3. q \in Request /\ (q.forced # NoId => ~IsLive(q.forced))
    <3>1. CASE IsLive(plasmaId')
      BY <1>1, <2>1, <2>2, <3>1
    <3>2. CASE ~IsLive(plasmaId')
      BY <1>1, <2>1, <2>2, <3>2
    <3> QED BY <3>1, <3>2
  <2>4. plasmaId' \in 0..MaxId
    BY <2>1 DEF Id
  <2> QED BY <2>1, <2>2, <2>3, <2>4 DEF Issued
<1>4. CASE PlasmaReplaces
  <2>1. PICK q \in External(1..plasmaId, NoId) : AddOrReplace(q)
    BY <1>4 DEF PlasmaReplaces
  <2>2. 1..plasmaId \subseteq Id
    BY <1>0 DEF Id
  <2>3. q \in Request /\ q.forced = NoId
    BY <1>1, <2>1, <2>2
  <2>4. plasmaId' = plasmaId
    BY <1>4 DEF PlasmaReplaces
  <2> QED BY <1>0, <2>1, <2>3, <2>4 DEF Issued
<1>5. CASE AddInternal
  <2>1. PICK q \in Internal : AddOrReplace(q)
    BY <1>5 DEF AddInternal
  <2>2. q \in Request /\ q.forced = NoId
    <3>1. PICK persist \in BOOLEAN :
             q = [tracked |-> FALSE, actions |-> FALSE, persist |-> persist, replaces |-> NoId,
                  forced |-> NoId]
      BY <2>1 DEF Internal
    <3> QED BY <3>1 DEF Request
  <2>3. plasmaId' = plasmaId
    BY <1>5 DEF AddInternal
  <2> QED BY <1>0, <2>1, <2>2, <2>3 DEF Issued
<1>6. CASE CloseNotification \/ Expire
  BY <1>6 DEF CloseNotification, Expire, Reasons, TypeOK
<1>7. CASE InvokeAction
  BY <1>7 DEF InvokeAction, InvokePending, Reasons
<1> QED BY <1>2, <1>3, <1>4, <1>5, <1>6, <1>7 DEF Next

-----------------------------------------------------------------------------
(* What calls do to the history *)

\* Of the history only entries of notifications that are or were live change; the
\* entry of a signal that stays deferred stays, and every change schedules a save.
HistoryChange ==
    /\ history' \in Seq(HistoryEntry) /\ Len(history') <= HistoryLimit /\ OneEach(history')
    /\ IdsOf(history') \subseteq IdsOf(history) \cup IdsOf(live) \cup IdsOf(live')
    /\ \A id \in pending \cap pending' : id \in IdsOf(history) => id \in IdsOf(history')
    /\ UNCHANGED <<disk, saveFailed>>
    /\ persistScheduled' \in {persistScheduled, TRUE}
    /\ history' # history => persistScheduled' = TRUE

LEMMA NoHistoryChange ==
    ASSUME Inv, UNCHANGED history,
           UNCHANGED <<disk, saveFailed>>, persistScheduled' \in {persistScheduled, TRUE}
    PROVE  HistoryChange
  BY DEF Inv, HistoriesOK, HistoryChange

\* An entry is written.
LEMMA UpsertChange ==
    ASSUME Inv, NEW n \in Notification, NEW active \in BOOLEAN, n.id \in IdsOf(live) \cup IdsOf(live'),
           history' = Trimmed(Upserted(n, active)),
           \A id \in pending \cap pending' : id # n.id => id \notin Evicted(Upserted(n, active)),
           SchedulePersist
    PROVE  HistoryChange
<1> DEFINE u == Upserted(n, active)
<1>1. history \in Seq(HistoryEntry) /\ OneEach(history)
  BY DEF Inv, HistoriesOK
<1>2. /\ u \in Seq(HistoryEntry) /\ Len(u) > 0 /\ IdsOf(u) = IdsOf(history) \cup {n.id}
      /\ u[Len(u)].id = n.id /\ OneEach(u)
  BY <1>1, UpsertedEntries
<1> HIDE DEF u
<1>3. /\ Trimmed(u) \in Seq(HistoryEntry) /\ Len(Trimmed(u)) <= HistoryLimit
      /\ IdsOf(Trimmed(u)) \subseteq IdsOf(u) /\ IdsOf(u) \subseteq IdsOf(Trimmed(u)) \cup Evicted(u)
      /\ OneEach(Trimmed(u)) /\ u[Len(u)].id \in IdsOf(Trimmed(u))
  BY <1>2, TrimmedEntries
<1>4. history' = Trimmed(u)
  BY DEF u
<1>5. \A id \in pending \cap pending' : id \in IdsOf(history) => id \in IdsOf(history')
  <2> SUFFICES ASSUME NEW id \in pending \cap pending', id \in IdsOf(history)
               PROVE  id \in IdsOf(Trimmed(u))
    BY <1>4
  <2>1. CASE id = n.id
    BY <1>2, <1>3, <2>1
  <2>2. CASE id # n.id
    <3>1. id \notin Evicted(u)
      BY <2>2 DEF u
    <3> QED BY <1>2, <1>3, <3>1
  <2> QED BY <2>1, <2>2
<1> QED BY <1>2, <1>3, <1>4, <1>5 DEF HistoryChange, SchedulePersist

\* An entry is removed, with the signal that was due for it.
LEMMA RemoveChange ==
    ASSUME Inv, NEW id, history' = Removed(id), id \notin pending \cap pending',
           IF id \in IdsOf(history) THEN SchedulePersist ELSE UNCHANGED fileVars
    PROVE  HistoryChange
<1>1. history \in Seq(HistoryEntry) /\ OneEach(history) /\ Len(history) <= HistoryLimit
  BY DEF Inv, HistoriesOK
<1>2. /\ history' \in Seq(HistoryEntry) /\ Len(history') <= Len(history)
      /\ IdsOf(history') = IdsOf(history) \ {id} /\ OneEach(history')
      /\ id \notin IdsOf(history) => history' = history
  BY <1>1, RemovedEntries
<1>3. /\ UNCHANGED <<disk, saveFailed>>
      /\ persistScheduled' \in {persistScheduled, TRUE}
      /\ id \in IdsOf(history) => persistScheduled' = TRUE
  BY DEF SchedulePersist, fileVars
<1>4. Len(history') <= HistoryLimit
  BY <1>1, <1>2, NotificationConstants, LenProperties
<1> QED BY <1>1, <1>2, <1>3, <1>4 DEF HistoryChange

-----------------------------------------------------------------------------
(* The live notifications and their index *)

LiveOK == live \in Seq(Notification) /\ Indexed

LEMMA LiveAdd ==
    ASSUME LiveOK, NEW n \in Notification, ~IsLive(n.id), live' = Append(live, n),
           idToIndex' = [i \in DOMAIN idToIndex \cup {n.id} |->
                            IF IsLive(i) THEN idToIndex[i] ELSE Len(live')]
    PROVE  LiveOK' /\ IdsOf(live') = IdsOf(live) \cup {n.id}
<1>1. live \in Seq(Notification) /\ Len(live) \in Nat /\ DOMAIN live = 1..Len(live)
  BY LenProperties DEF LiveOK
<1>2. /\ live' \in Seq(Notification) /\ Len(live') = Len(live) + 1
      /\ \A i \in 1..Len(live) : live'[i] = live[i]
      /\ live'[Len(live) + 1] = n
  BY <1>1, AppendProperties
<1>3. DOMAIN live' = 1..(Len(live) + 1)
  BY <1>1, <1>2, LenProperties
<1>4. IdsOf(live') = IdsOf(live) \cup {n.id}
  <2>1. \A i \in DOMAIN live' : i \in DOMAIN live \/ i = Len(live) + 1
    BY <1>1, <1>3
  <2>2. \A i \in DOMAIN live : i \in DOMAIN live' /\ live'[i] = live[i]
    BY <1>1, <1>2, <1>3
  <2>3. Len(live) + 1 \in DOMAIN live'
    BY <1>1, <1>3
  <2> QED BY <1>2, <2>1, <2>2, <2>3 DEF IdsOf
<1>5. n.id \notin DOMAIN idToIndex /\ DOMAIN idToIndex = IdsOf(live)
  BY DEF LiveOK, Indexed, IsLive
<1>6. /\ DOMAIN idToIndex' = IdsOf(live')
      /\ \A i \in DOMAIN idToIndex : idToIndex'[i] = idToIndex[i]
      /\ idToIndex'[n.id] = Len(live) + 1
  BY <1>2, <1>4, <1>5 DEF IsLive
<1>7. \A id \in DOMAIN idToIndex' :
         idToIndex'[id] \in 1..Len(live') /\ live'[idToIndex'[id]].id = id
  <2> TAKE id \in DOMAIN idToIndex'
  <2>1. CASE id \in DOMAIN idToIndex
    <3>1. idToIndex[id] \in 1..Len(live) /\ live[idToIndex[id]].id = id
      BY <2>1 DEF LiveOK, Indexed
    <3> QED BY <1>1, <1>2, <1>6, <2>1, <3>1
  <2>2. CASE id = n.id
    BY <1>1, <1>2, <1>6, <2>2
  <2> QED BY <1>4, <1>5, <1>6, <2>1, <2>2
<1>8. \A i \in 1..Len(live') : idToIndex'[live'[i].id] = i
  <2> TAKE i \in 1..Len(live')
  <2>1. CASE i \in 1..Len(live)
    <3>1. idToIndex[live[i].id] = i /\ live[i].id \in DOMAIN idToIndex
      BY <1>1, <1>5, <2>1 DEF LiveOK, Indexed, IdsOf
    <3> QED BY <1>2, <1>6, <2>1, <3>1
  <2>2. CASE i = Len(live) + 1
    BY <1>2, <1>6, <2>2
  <2> QED BY <1>1, <1>2, <2>1, <2>2
<1> QED BY <1>2, <1>4, <1>6, <1>7, <1>8 DEF LiveOK, Indexed

LEMMA LiveReplace ==
    ASSUME LiveOK, NEW n \in Notification, IsLive(n.id),
           live' = [live EXCEPT ![idToIndex[n.id]] = n], UNCHANGED idToIndex
    PROVE  LiveOK' /\ IdsOf(live') = IdsOf(live)
<1> DEFINE p == idToIndex[n.id]
<1>1. live \in Seq(Notification) /\ Len(live) \in Nat /\ DOMAIN live = 1..Len(live)
  BY LenProperties DEF LiveOK
<1>2. p \in 1..Len(live) /\ live[p].id = n.id
  BY DEF LiveOK, Indexed, IsLive
<1> HIDE DEF p
<1>3. live' = [live EXCEPT ![p] = n]
  BY DEF p
<1>4. /\ live' \in Seq(Notification) /\ Len(live') = Len(live)
      /\ \A i \in 1..Len(live) : live'[i] = IF i = p THEN n ELSE live[i]
  <2> DEFINE w == [live EXCEPT ![p] = n]
  <2>1. /\ w \in Seq(Notification) /\ Len(w) = Len(live)
        /\ \A i \in 1..Len(live) : w[i] = IF i = p THEN n ELSE live[i]
    BY <1>1, <1>2, ExceptSeq
  <2> HIDE DEF w
  <2> QED BY <1>3, <2>1 DEF w
<1>5. DOMAIN live' = 1..Len(live)
  BY <1>1, <1>4, LenProperties
<1>6. \A i \in 1..Len(live) : live'[i].id = live[i].id
  BY <1>2, <1>4
<1>7. IdsOf(live') = IdsOf(live)
  BY <1>1, <1>5, <1>6 DEF IdsOf
<1> QED BY <1>4, <1>6, <1>7 DEF LiveOK, Indexed

LEMMA LiveRemove ==
    ASSUME LiveOK, NEW id, IsLive(id), live' = RemoveAt(live, idToIndex[id]),
           idToIndex' = Reindexed(id)
    PROVE  LiveOK' /\ IdsOf(live') = IdsOf(live) \ {id}
<1> DEFINE p == idToIndex[id]
<1>1. live \in Seq(Notification) /\ Len(live) \in Nat /\ DOMAIN live = 1..Len(live)
  BY LenProperties DEF LiveOK
<1>2. p \in 1..Len(live) /\ live[p].id = id /\ DOMAIN idToIndex = IdsOf(live)
  BY DEF LiveOK, Indexed, IsLive
<1>3. /\ DOMAIN idToIndex' = DOMAIN idToIndex \ {id}
      /\ \A i \in DOMAIN idToIndex \ {id} :
            idToIndex'[i] = IF idToIndex[i] > p THEN idToIndex[i] - 1 ELSE idToIndex[i]
  BY DEF Reindexed
<1> HIDE DEF p
<1>4. live' = RemoveAt(live, p)
  BY DEF p
<1>5. /\ live' \in Seq(Notification) /\ Len(live') = Len(live) - 1
      /\ \A j \in 1..(Len(live) - 1) : live'[j] = IF j < p THEN live[j] ELSE live[j + 1]
  BY <1>1, <1>2, <1>4, RemoveAtSeq, RemoveAtElements
<1>6. DOMAIN live' = 1..(Len(live) - 1)
  BY <1>1, <1>5, LenProperties
<1>7. \A i \in 1..Len(live) : live[i].id \in DOMAIN idToIndex /\ idToIndex[live[i].id] = i
  BY <1>1, <1>2 DEF LiveOK, Indexed, IdsOf
<1>p. idToIndex[id] = p
  BY DEF p
<1>8. \A i \in 1..Len(live) : live[i].id = id => i = p
  BY <1>7, <1>p
<1>9. \A x \in DOMAIN idToIndex \ {id} :
         /\ idToIndex[x] \in 1..Len(live) /\ live[idToIndex[x]].id = x /\ idToIndex[x] # p
         /\ idToIndex'[x] \in 1..(Len(live) - 1) /\ live'[idToIndex'[x]].id = x
  <2> TAKE x \in DOMAIN idToIndex \ {id}
  <2> DEFINE k == idToIndex[x]
  <2>1. k \in 1..Len(live) /\ live[k].id = x
    BY DEF LiveOK, Indexed
  <2>2. k # p
    BY <1>2, <2>1
  <2>3. idToIndex'[x] = IF k > p THEN k - 1 ELSE k
    BY <1>3
  <2> HIDE DEF k
  <2>4. CASE k > p
    <3>1. k - 1 \in 1..(Len(live) - 1) /\ ~(k - 1 < p) /\ (k - 1) + 1 = k
      BY <1>1, <1>2, <2>1, <2>4
    <3>2. live'[k - 1] = live[k]
      BY <1>5, <3>1
    <3> QED BY <2>1, <2>2, <2>3, <2>4, <3>1, <3>2 DEF k
  <2>5. CASE ~(k > p)
    <3>1. k \in 1..(Len(live) - 1) /\ k < p
      BY <1>1, <1>2, <2>1, <2>2, <2>5
    <3>2. live'[k] = live[k]
      BY <1>5, <3>1
    <3> QED BY <2>1, <2>2, <2>3, <2>5, <3>1, <3>2 DEF k
  <2> QED BY <2>4, <2>5
<1>10. \A j \in 1..(Len(live) - 1) : idToIndex'[live'[j].id] = j
  <2> TAKE j \in 1..(Len(live) - 1)
  <2>1. CASE j < p
    <3>1. j \in 1..Len(live) /\ live'[j] = live[j] /\ ~(j > p) /\ j # p
      BY <1>1, <1>2, <1>5, <2>1
    <3>2. live[j].id \in DOMAIN idToIndex \ {id} /\ idToIndex[live[j].id] = j
      BY <1>7, <1>8, <3>1
    <3> QED BY <1>3, <3>1, <3>2
  <2>2. CASE ~(j < p)
    <3>1. j + 1 \in 1..Len(live) /\ live'[j] = live[j + 1] /\ j + 1 > p /\ j + 1 # p /\ (j + 1) - 1 = j
      BY <1>1, <1>2, <1>5, <2>2
    <3>2. live[j + 1].id \in DOMAIN idToIndex \ {id} /\ idToIndex[live[j + 1].id] = j + 1
      BY <1>7, <1>8, <3>1
    <3> QED BY <1>3, <3>1, <3>2
  <2> QED BY <2>1, <2>2
<1>11. IdsOf(live') = IdsOf(live) \ {id}
  <2>1. ASSUME NEW j \in DOMAIN live' PROVE live'[j].id \in IdsOf(live) \ {id}
    <3>1. CASE j < p
      <4>1. j \in 1..Len(live) /\ live'[j] = live[j] /\ j # p
        BY <1>1, <1>2, <1>5, <1>6, <2>1, <3>1
      <4> QED BY <1>2, <1>7, <1>8, <4>1
    <3>2. CASE ~(j < p)
      <4>1. j + 1 \in 1..Len(live) /\ live'[j] = live[j + 1] /\ j + 1 # p
        BY <1>1, <1>2, <1>5, <1>6, <2>1, <3>2
      <4> QED BY <1>2, <1>7, <1>8, <4>1
    <3> QED BY <3>1, <3>2
  <2>2. \A x \in IdsOf(live) \ {id} : \E j \in DOMAIN live' : live'[j].id = x
    BY <1>2, <1>6, <1>9
  <2> QED BY <2>1, <2>2 DEF IdsOf
<1>12. DOMAIN idToIndex' = IdsOf(live')
  BY <1>2, <1>3, <1>11
<1> QED BY <1>3, <1>5, <1>9, <1>10, <1>11, <1>12 DEF LiveOK, Indexed

-----------------------------------------------------------------------------
(* The step of each call *)

\* What a call does to the ids: none that is new reaches past the next one.
IdsChange ==
    /\ nextId' \in 1..(MaxId + 1) /\ nextId' >= nextId
    /\ suppressed' \subseteq Id
    /\ pending' \subseteq IdsOf(live) \cup pending
    /\ IdsOf(live') \cup suppressed' \subseteq IdsOf(live) \cup suppressed \cup 1..(nextId' - 1)
    /\ UNCHANGED host /\ filter' \in Filters
    /\ shown' \subseteq Id
    /\ closes' \in [Id -> Nat]

LEMMA ToldType ==
    ASSUME NEW c \in [Id -> Nat], NEW ids
    PROVE  /\ Told(c, ids) \in [Id -> Nat]
           /\ \A id \in Id : Told(c, ids)[id] = IF id \in ids THEN c[id] + 1 ELSE c[id]
  BY DEF Told

LEMMA LiveIds ==
    ASSUME LiveOK
    PROVE  /\ IdsOf(live) \subseteq Id
           /\ \A id : IsLive(id) <=> id \in IdsOf(live)
           /\ \A id : IsLive(id) => Find(id) \in Notification /\ Find(id).id = id
<1>1. live \in Seq(Notification) /\ DOMAIN live = 1..Len(live)
  BY LenProperties DEF LiveOK
<1>2. \A i \in 1..Len(live) : live[i] \in Notification
  BY <1>1, ElementOfSeq
<1> QED BY <1>1, <1>2 DEF LiveOK, Indexed, IdsOf, IsLive, Find, Notification

LEMMA NextFreeId ==
    ASSUME TypeOK, NEW q \in Request
    PROVE  /\ NextFree(q) \in 1..(MaxId + 1) /\ NextFree(q) >= nextId
           /\ q.forced # NoId => q.forced < NextFree(q) /\ q.forced \in Id
           /\ q.forced = NoId => NextFree(q) = nextId
<1>1. nextId \in 1..(MaxId + 1) /\ MaxId \in Nat
  BY NotificationConstants DEF TypeOK
<1>2. q.forced \in Id \cup {NoId}
  BY DEF Request
<1> QED BY <1>1, <1>2 DEF NextFree, Id, NoId

LEMMA InvParts ==
    ASSUME Inv
    PROVE  /\ LiveOK /\ NoId \notin Id
           /\ suppressed \subseteq Id /\ pending \subseteq Id /\ shown \subseteq Id
           /\ closes \in [Id -> Nat] /\ nextId \in 1..(MaxId + 1) /\ MaxId \in Nat
           /\ filter \in Filters /\ host \in Hosts
  BY NotificationConstants DEF Inv, TypeOK, LiveOK, Id, NoId

LEMMA ReplaceStep ==
    ASSUME Inv, NEW q, Issued(q), Replace(q)
    PROVE  HistoryChange /\ LiveOK' /\ IdsChange /\ IdsOf(live') = IdsOf(live)
<1> DEFINE n == FromRequest(q.replaces, q)
           h == Upserted(n, TRUE)
<1>0. /\ LiveOK /\ suppressed \subseteq Id /\ closes \in [Id -> Nat] /\ shown \subseteq Id
      /\ nextId \in 1..(MaxId + 1) /\ filter \in Filters
  BY InvParts
<1>1. q \in Request /\ IsLive(q.replaces) /\ q.replaces \in IdsOf(live) /\ q.replaces \in Id
  BY <1>0, LiveIds DEF Issued, Replace
<1>2. n \in Notification /\ n.id = q.replaces
  BY <1>1 DEF FromRequest, Notification, Request
<1>3. live' = [live EXCEPT ![idToIndex[n.id]] = n] /\ UNCHANGED idToIndex
  BY <1>2 DEF Replace
<1> HIDE DEF n
<1>4. LiveOK' /\ IdsOf(live') = IdsOf(live)
  BY <1>0, <1>1, <1>2, <1>3, LiveReplace
<1>5. ASSUME Saves(q)
      PROVE  HistoryChange /\ closes' \in [Id -> Nat] /\ pending' \subseteq pending
  <2>1. history' = Trimmed(h) /\ EmitPending(Evicted(h)) /\ SchedulePersist
    BY <1>5 DEF Replace, n
  <2> HIDE DEF h
  <2>2. pending' = pending \ Evicted(h) /\ closes' \in [Id -> Nat]
    BY <1>0, <2>1, ToldType DEF EmitPending
  <2>3. HistoryChange
    <3>1. \A id \in pending \cap pending' : id \notin Evicted(h)
      BY <2>2
    <3> QED BY <1>1, <1>2, <2>1, <3>1, UpsertChange DEF h
  <2> QED BY <2>2, <2>3
<1>6. ASSUME ~Saves(q), n.id \in IdsOf(history)
      PROVE  HistoryChange /\ closes' \in [Id -> Nat] /\ pending' \subseteq pending
  <2>1. history' = Removed(n.id) /\ EmitPending({n.id}) /\ SchedulePersist
    BY <1>6 DEF Replace, n
  <2>2. pending' = pending \ {n.id} /\ closes' \in [Id -> Nat]
    BY <1>0, <2>1, ToldType DEF EmitPending
  <2>3. HistoryChange
    BY <1>6, <2>1, <2>2, RemoveChange
  <2> QED BY <2>2, <2>3
<1>7. ASSUME ~Saves(q), n.id \notin IdsOf(history)
      PROVE  HistoryChange /\ closes' \in [Id -> Nat] /\ pending' \subseteq pending
  <2>1. UNCHANGED <<history, pending, closes, persistScheduled, disk, saveFailed>>
    BY <1>7 DEF Replace, n, fileVars
  <2>2. HistoryChange
    BY <2>1, NoHistoryChange
  <2> QED BY <1>0, <2>1, <2>2
<1>8. HistoryChange /\ closes' \in [Id -> Nat] /\ pending' \subseteq pending
  BY <1>5, <1>6, <1>7
<1>9. /\ UNCHANGED <<nextId, filter, host, shown>> /\ suppressed' \subseteq suppressed
  BY DEF Replace, Unsuppress
<1>10. IdsChange
  BY <1>0, <1>4, <1>8, <1>9 DEF IdsChange
<1> QED BY <1>4, <1>8, <1>10

\* The id a new notification gets is not in use.
LEMMA NewId ==
    ASSUME Inv, NEW q, Issued(q), ~IsLive(q.replaces)
    PROVE  LET id == IF q.forced = NoId THEN NextFree(q) ELSE q.forced
           IN  /\ ~IsLive(id)
               /\ id < (IF q.forced = NoId THEN id + 1 ELSE NextFree(q))
               /\ id \in Nat \ {0}
               /\ host = "server" => id \notin pending
<1> DEFINE id == IF q.forced = NoId THEN NextFree(q) ELSE q.forced
<1>1. /\ LiveOK /\ nextId \in 1..(MaxId + 1) /\ MaxId \in Nat /\ TypeOK /\ q \in Request
      /\ q.forced # NoId => host = "kde" /\ ~IsLive(q.forced)
  BY InvParts DEF Inv, Issued
<1>2. IdsOf(live) \cup pending \subseteq 1..(nextId - 1)
  BY DEF Inv, Fresh, IdsAreFresh
<1>3. CASE q.forced = NoId
  <2>1. id = nextId
    BY <1>1, <1>3, NextFreeId
  <2>2. nextId \notin IdsOf(live) \cup pending
    BY <1>1, <1>2
  <2>3. ~IsLive(nextId)
    BY <1>1, <2>2, LiveIds
  <2> QED BY <1>1, <1>3, <2>1, <2>2, <2>3
<1>4. CASE q.forced # NoId
  BY <1>1, <1>4, NextFreeId DEF Id
<1> QED BY <1>3, <1>4

LEMMA AddStep ==
    ASSUME Inv, NEW q, Issued(q), Add(q)
    PROVE  HistoryChange /\ LiveOK' /\ IdsChange
<1> DEFINE id == IF q.forced = NoId THEN NextFree(q) ELSE q.forced
           n == FromRequest(id, q)
           h == Upserted(n, TRUE)
           next == IF q.forced = NoId THEN id + 1 ELSE NextFree(q)
<1>0. /\ LiveOK /\ suppressed \subseteq Id /\ pending \subseteq Id /\ closes \in [Id -> Nat]
      /\ shown \subseteq Id /\ nextId \in 1..(MaxId + 1) /\ filter \in Filters /\ MaxId \in Nat
      /\ TypeOK /\ q \in Request
  BY InvParts DEF Inv, Issued
<1>1. /\ ~IsLive(q.replaces) /\ id <= MaxId /\ nextId' = next /\ live' = Append(live, n)
      /\ idToIndex' = [i \in DOMAIN idToIndex \cup {id} |->
                          IF IsLive(i) THEN idToIndex[i] ELSE Len(live')]
      /\ shown' = shown \cup {id} /\ UNCHANGED <<filter, host>>
      /\ suppressed' \subseteq suppressed
  BY DEF Add, Unsuppress
<1>2. ~IsLive(id) /\ id < next /\ id \in Nat \ {0}
  BY <1>1, NewId
<1>3. id \in Id
  BY <1>0, <1>1, <1>2 DEF Id
<1>4. next \in 1..(MaxId + 1) /\ next >= nextId
  BY <1>0, <1>1, <1>2, NextFreeId
<1> HIDE DEF id, next
<1>5. n \in Notification /\ n.id = id
  BY <1>0, <1>3 DEF FromRequest, Notification, Request
<1>h. /\ Saves(q) => /\ history' = Trimmed(h)
                     /\ pending' = pending \ Evicted(h)
                     /\ closes' = Told([closes EXCEPT ![id] = 0], pending \cap Evicted(h))
                     /\ SchedulePersist
      /\ ~Saves(q) => /\ closes' = [closes EXCEPT ![id] = 0]
                      /\ UNCHANGED <<history, pending, fileVars>>
  BY DEF Add, id
<1> HIDE DEF n
<1>6. LiveOK' /\ IdsOf(live') = IdsOf(live) \cup {id}
  BY <1>0, <1>1, <1>2, <1>5, LiveAdd
<1>7. [closes EXCEPT ![id] = 0] \in [Id -> Nat]
  BY <1>0
<1>8. closes' \in [Id -> Nat] /\ pending' \subseteq pending
  <2> DEFINE c == [closes EXCEPT ![id] = 0]
  <2>1. \A ids : Told(c, ids) \in [Id -> Nat]
    <3> HIDE DEF c
    <3> QED BY <1>7, ToldType DEF c
  <2>2. closes' = c \/ closes' = Told(c, pending \cap Evicted(h))
    BY <1>h
  <2>3. pending' \subseteq pending
    BY <1>h
  <2> HIDE DEF c, h
  <2> QED BY <1>7, <2>1, <2>2, <2>3 DEF c
<1>9. HistoryChange
  <2>1. ASSUME Saves(q) PROVE HistoryChange
    <3>1. \A x \in pending \cap pending' : x \notin Evicted(h)
      BY <1>h, <2>1
    <3> QED BY <1>5, <1>6, <1>h, <2>1, <3>1, UpsertChange
  <2>2. ASSUME ~Saves(q) PROVE HistoryChange
    BY <1>h, <2>2, NoHistoryChange DEF fileVars
  <2> QED BY <2>1, <2>2
<1>10. IdsChange
  <2>1. IdsOf(live') \subseteq IdsOf(live) \cup 1..(nextId' - 1)
    BY <1>1, <1>2, <1>4, <1>6
  <2> QED BY <1>0, <1>1, <1>3, <1>4, <1>8, <2>1 DEF IdsChange
<1> QED BY <1>6, <1>9, <1>10

\* Suppressed notifications and duplicates change nothing but ids.
LEMMA SuppressStep ==
    ASSUME Inv, NEW q, Issued(q), KeepSuppressed(q) \/ Suppress(q) \/ IgnoreDuplicate(q)
    PROVE  HistoryChange /\ LiveOK' /\ IdsChange /\ UNCHANGED <<live, pending, closes, shown>>
<1>0. /\ LiveOK /\ suppressed \subseteq Id /\ pending \subseteq Id /\ closes \in [Id -> Nat]
      /\ shown \subseteq Id /\ nextId \in 1..(MaxId + 1) /\ filter \in Filters /\ MaxId \in Nat
      /\ TypeOK /\ q \in Request
  BY InvParts DEF Inv, Issued
<1>1. UNCHANGED <<live, idToIndex, pending, history, filter, host, shown, closes,
                  persistScheduled, disk, saveFailed>>
  BY DEF KeepSuppressed, Suppress, IgnoreDuplicate, fileVars
<1>2. HistoryChange
  BY <1>1, NoHistoryChange
<1>3. LiveOK'
  BY <1>0, <1>1 DEF LiveOK, Indexed
<1>4. /\ NextFree(q) \in 1..(MaxId + 1) /\ NextFree(q) >= nextId
  BY <1>0, NextFreeId
<1>5. /\ nextId' \in 1..(MaxId + 1) /\ nextId' >= nextId
      /\ suppressed' \subseteq suppressed \cup 1..(nextId' - 1) /\ suppressed' \subseteq Id
  <2>1. CASE KeepSuppressed(q)
    BY <1>0, <2>1 DEF KeepSuppressed
  <2>2. CASE Suppress(q)
    <3>1. NextFree(q) \in Id
      BY <1>0, <1>4, <2>2 DEF Suppress, Id
    <3>2. nextId' = NextFree(q) + 1 /\ suppressed' = suppressed \cup {NextFree(q)}
          /\ NextFree(q) <= MaxId
      BY <2>2 DEF Suppress
    <3>3. NextFree(q) \in 1..(nextId' - 1)
      BY <1>4, <3>2
    <3>4. nextId' \in 1..(MaxId + 1) /\ nextId' >= nextId
      BY <1>0, <1>4, <3>2
    <3> QED BY <1>0, <3>1, <3>2, <3>3, <3>4
  <2>3. CASE IgnoreDuplicate(q)
    BY <1>0, <1>4, <2>3 DEF IgnoreDuplicate, Unsuppress
  <2> QED BY <2>1, <2>2, <2>3
<1>6. IdsChange
  BY <1>0, <1>1, <1>5 DEF IdsChange
<1> QED BY <1>1, <1>2, <1>3, <1>6

LEMMA CloseStep ==
    ASSUME Inv, NEW id \in Id, NEW reason, Close(id, reason)
    PROVE  HistoryChange /\ LiveOK' /\ IdsChange
<1>0. /\ LiveOK /\ suppressed \subseteq Id /\ pending \subseteq Id /\ closes \in [Id -> Nat]
      /\ shown \subseteq Id /\ nextId \in 1..(MaxId + 1) /\ filter \in Filters /\ MaxId \in Nat
      /\ history \in Seq(HistoryEntry) /\ Len(history) <= HistoryLimit
  BY InvParts DEF Inv, HistoriesOK
<1>1. UNCHANGED <<filter, host, shown>>
  BY DEF Close
<1>2. ASSUME CloseSuppressed(id) PROVE HistoryChange /\ LiveOK' /\ IdsChange
  <2>1. UNCHANGED <<live, idToIndex, pending, history, nextId, closes, persistScheduled,
                    disk, saveFailed>> /\ suppressed' \subseteq suppressed
    BY <1>2 DEF CloseSuppressed, fileVars
  <2>2. HistoryChange
    BY <2>1, NoHistoryChange
  <2>3. LiveOK'
    BY <1>0, <2>1 DEF LiveOK, Indexed
  <2>4. IdsChange
    BY <1>0, <1>1, <2>1 DEF IdsChange
  <2> QED BY <2>2, <2>3, <2>4
<1>3. ASSUME ClosePending(id) PROVE HistoryChange /\ LiveOK' /\ IdsChange
  <2>1. /\ UNCHANGED <<live, idToIndex, suppressed, nextId>>
        /\ pending' = pending \ {id} /\ closes' = Told(closes, pending \cap {id})
        /\ history' = Removed(id)
        /\ IF id \in IdsOf(history) THEN SchedulePersist ELSE UNCHANGED fileVars
    BY <1>3 DEF ClosePending, EmitPending
  <2>2. HistoryChange
    BY <2>1, RemoveChange
  <2>3. LiveOK'
    BY <1>0, <2>1 DEF LiveOK, Indexed
  <2>4. closes' \in [Id -> Nat]
    BY <1>0, <2>1, ToldType
  <2>5. IdsChange
    <3>1. pending' \subseteq pending /\ UNCHANGED <<live, suppressed, nextId>>
      BY <2>1
    <3> QED BY <1>0, <1>1, <2>4, <3>1 DEF IdsChange
  <2> QED BY <2>2, <2>3, <2>5
<1>4. ASSUME CloseLive(id, reason) PROVE HistoryChange /\ LiveOK' /\ IdsChange
  <2> DEFINE closed == Find(id)
             removes == SavesClosed(closed) /\ reason = "dismissed" /\ id \in IdsOf(history)
             upserts == SavesClosed(closed) /\ reason # "dismissed"
             h == IF upserts THEN Upserted(closed, FALSE)
                  ELSE IF removes THEN Removed(id) ELSE history
             leaving == IF removes THEN {id} ELSE Evicted(h)
             now == IF Defers(closed, reason) THEN {} ELSE {id}
  <2>1. /\ IsLive(id) /\ history' = Trimmed(h) /\ live' = RemoveAt(live, idToIndex[id])
        /\ idToIndex' = Reindexed(id)
        /\ pending' = (pending \ leaving) \cup ({id} \ now)
        /\ closes' = Told(Told(closes, pending \cap leaving), now)
        /\ IF upserts \/ removes THEN SchedulePersist ELSE UNCHANGED fileVars
        /\ UNCHANGED <<suppressed, nextId>>
    BY <1>4 DEF CloseLive
  <2>2. closed \in Notification /\ closed.id = id /\ id \in IdsOf(live)
    BY <1>0, <2>1, LiveIds
  <2>3. LiveOK' /\ IdsOf(live') = IdsOf(live) \ {id}
    BY <1>0, <2>1, LiveRemove
  <2>4. closes' \in [Id -> Nat]
    <3>1. Told(closes, pending \cap leaving) \in [Id -> Nat]
      BY <1>0, ToldType
    <3> QED BY <2>1, <3>1, ToldType
  <2>5. removes => now = {id}
    BY DEF Defers
  <2> HIDE DEF now
  <2>6. HistoryChange
    <3>1. ASSUME upserts PROVE HistoryChange
      <4>1. h = Upserted(closed, FALSE) /\ ~removes /\ leaving = Evicted(h)
        BY <3>1
      <4>2. \A x \in pending \cap pending' : x # id => x \notin Evicted(h)
        BY <2>1, <4>1
      <4> QED BY <2>1, <2>2, <3>1, <4>1, <4>2, UpsertChange
    <3>2. ASSUME removes PROVE HistoryChange
      <4>1. h = Removed(id) /\ leaving = {id}
        BY <3>2
      <4>2. Removed(id) \in Seq(HistoryEntry) /\ Len(Removed(id)) <= HistoryLimit
        BY <1>0, RemovedEntries, NotificationConstants, LenProperties
      <4>3. history' = Removed(id)
        BY <2>1, <4>1, <4>2, TrimmedEntries
      <4>4. id \notin pending'
        BY <2>1, <2>5, <3>2, <4>1
      <4> QED BY <2>1, <3>2, <4>3, <4>4, RemoveChange
    <3>3. ASSUME ~upserts, ~removes PROVE HistoryChange
      <4>1. h = history
        BY <3>3
      <4>2. history' = history
        BY <1>0, <2>1, <4>1, TrimmedEntries
      <4>3. UNCHANGED <<disk, saveFailed, persistScheduled>>
        BY <2>1, <3>3 DEF fileVars
      <4> QED BY <4>2, <4>3, NoHistoryChange
    <3> QED BY <3>1, <3>2, <3>3
  <2>7. IdsChange
    <3>1. pending' \subseteq pending \cup {id} /\ UNCHANGED <<suppressed, nextId>>
      BY <2>1
    <3>2. pending' \subseteq IdsOf(live) \cup pending
      BY <2>2, <3>1
    <3> QED BY <1>0, <1>1, <2>3, <2>4, <3>1, <3>2 DEF IdsChange
  <2> QED BY <2>3, <2>6, <2>7
<1> QED BY <1>2, <1>3, <1>4 DEF Close

LEMMA InvokedEntries ==
    ASSUME history \in Seq(HistoryEntry), NEW id
    PROVE  /\ Invoked(id) \in Seq(HistoryEntry) /\ Len(Invoked(id)) = Len(history)
           /\ IdsOf(Invoked(id)) = IdsOf(history)
           /\ OneEach(history) => OneEach(Invoked(id))
<1> DEFINE r == Invoked(id)
<1>1. Len(history) \in Nat /\ DOMAIN history = 1..Len(history)
      /\ \A i \in 1..Len(history) : history[i] \in HistoryEntry
  BY LenProperties, ElementOfSeq
<1>2. r = [i \in 1..Len(history) |->
             IF history[i].id = id THEN [history[i] EXCEPT !.actions = FALSE, !.active = FALSE]
             ELSE history[i]]
  BY <1>1 DEF Invoked
<1> HIDE DEF r
<1>3. \A i \in 1..Len(history) : r[i] \in HistoryEntry /\ r[i].id = history[i].id
  BY <1>1, <1>2 DEF HistoryEntry
<1>4. r \in [1..Len(history) -> HistoryEntry]
  BY <1>2, <1>3
<1>5. r \in Seq(HistoryEntry) /\ Len(r) = Len(history) /\ DOMAIN r = DOMAIN history
  BY <1>1, <1>4, LenProperties
<1>6. IdsOf(r) = IdsOf(history)
  BY <1>1, <1>3, <1>5 DEF IdsOf
<1>7. OneEach(history) => OneEach(r)
  BY <1>1, <1>3, <1>5 DEF OneEach
<1> QED BY <1>5, <1>6, <1>7 DEF r

LEMMA InvokeStep ==
    ASSUME Inv, NEW id \in Id, InvokePending(id)
    PROVE  HistoryChange /\ LiveOK' /\ IdsChange
<1>0. /\ LiveOK /\ suppressed \subseteq Id /\ pending \subseteq Id /\ closes \in [Id -> Nat]
      /\ shown \subseteq Id /\ nextId \in 1..(MaxId + 1) /\ filter \in Filters /\ MaxId \in Nat
      /\ history \in Seq(HistoryEntry) /\ Len(history) <= HistoryLimit /\ OneEach(history)
  BY InvParts DEF Inv, HistoriesOK
<1>1. /\ UNCHANGED <<live, idToIndex, suppressed, nextId, filter, host, shown>>
      /\ pending' = pending \ {id} /\ closes' = Told(closes, pending \cap {id})
      /\ history' = Invoked(id) /\ SchedulePersist
  BY DEF InvokePending, EmitPending, idVars
<1>2. HistoryChange
  <2>1. /\ history' \in Seq(HistoryEntry) /\ Len(history') <= HistoryLimit /\ OneEach(history')
        /\ IdsOf(history') = IdsOf(history)
    BY <1>0, <1>1, InvokedEntries
  <2>2. persistScheduled' = TRUE /\ UNCHANGED <<disk, saveFailed>>
    BY <1>1 DEF SchedulePersist
  <2> QED BY <2>1, <2>2 DEF HistoryChange
<1>3. LiveOK'
  BY <1>0, <1>1 DEF LiveOK, Indexed
<1>4. closes' \in [Id -> Nat]
  BY <1>0, <1>1, ToldType
<1>5. IdsChange
  <2>1. pending' \subseteq pending /\ UNCHANGED <<live, suppressed, nextId, filter, host, shown>>
    BY <1>1
  <2> QED BY <1>0, <1>4, <2>1 DEF IdsChange
<1> QED BY <1>2, <1>3, <1>5

LEMMA RemoveStep ==
    ASSUME Inv, RemoveFromHistory
    PROVE  /\ HistoryChange /\ LiveOK' /\ IdsChange
           /\ \E ids : EmitPending(ids)
<1>0. /\ LiveOK /\ suppressed \subseteq Id /\ pending \subseteq Id /\ closes \in [Id -> Nat]
      /\ shown \subseteq Id /\ nextId \in 1..(MaxId + 1) /\ filter \in Filters /\ MaxId \in Nat
      /\ history \in Seq(HistoryEntry) /\ Len(history) <= HistoryLimit /\ OneEach(history)
  BY InvParts DEF Inv, HistoriesOK
<1>1. /\ UNCHANGED <<live, idToIndex, suppressed, nextId, filter, host, shown>>
      /\ SchedulePersist
  BY DEF RemoveFromHistory, idVars
<1>2. PICK ids : /\ history' = Kept(history, LAMBDA e : e.id \notin ids)
                 /\ EmitPending(ids)
  BY DEF RemoveFromHistory
<1>3. pending' = pending \ ids /\ closes' = Told(closes, pending \cap ids)
  BY <1>2 DEF EmitPending
<1>4. HistoryChange
  <2> DEFINE I == {i \in DOMAIN history : history[i].id \notin ids}
  <2>1. history' = AtPlaces(history, I)
    BY <1>2 DEF Kept
  <2>2. {history[i].id : i \in I} = IdsOf(history) \ ids
    BY DEF IdsOf
  <2>3. I \in SUBSET DOMAIN history
    OBVIOUS
  <2> HIDE DEF I
  <2>4. /\ history' \in Seq(HistoryEntry) /\ Len(history') <= Len(history)
        /\ IdsOf(history') = IdsOf(history) \ ids /\ OneEach(history')
    BY <1>0, <2>1, <2>2, <2>3, KeptEntries
  <2>5. Len(history') <= HistoryLimit
    BY <1>0, <2>4, NotificationConstants, LenProperties
  <2>6. persistScheduled' = TRUE /\ UNCHANGED <<disk, saveFailed>>
    BY <1>1 DEF SchedulePersist
  <2> QED BY <1>3, <2>4, <2>5, <2>6 DEF HistoryChange
<1>5. LiveOK'
  BY <1>0, <1>1 DEF LiveOK, Indexed
<1>6. closes' \in [Id -> Nat]
  BY <1>0, <1>3, ToldType
<1>7. IdsChange
  <2>1. pending' \subseteq pending
    BY <1>3
  <2> QED BY <1>0, <1>1, <1>6, <2>1 DEF IdsChange
<1> QED BY <1>2, <1>4, <1>5, <1>7

LEMMA FilterStep ==
    ASSUME Inv, SetFilters \/ UNCHANGED vars
    PROVE  HistoryChange /\ LiveOK' /\ IdsChange /\ UNCHANGED <<live, pending, closes, shown>>
<1>0. /\ LiveOK /\ suppressed \subseteq Id /\ pending \subseteq Id /\ closes \in [Id -> Nat]
      /\ shown \subseteq Id /\ nextId \in 1..(MaxId + 1) /\ filter \in Filters /\ MaxId \in Nat
  BY InvParts
<1>1. /\ UNCHANGED <<live, idToIndex, suppressed, nextId, pending, closes, host, shown,
                     history, persistScheduled, disk, saveFailed>>
      /\ filter' \in Filters
  BY <1>0 DEF SetFilters, vars, idVars, fileVars
<1>2. HistoryChange
  BY <1>1, NoHistoryChange
<1>3. LiveOK'
  BY <1>0, <1>1 DEF LiveOK, Indexed
<1>4. IdsChange
  BY <1>0, <1>1 DEF IdsChange
<1> QED BY <1>1, <1>2, <1>3, <1>4

\* What is written to the file, or read back, is a history the shell has had.
LEMMA DiskStep ==
    ASSUME Inv, disk' \in {disk, Current, NoFile}
    PROVE  /\ disk.history' \in Seq(HistoryEntry) /\ Len(disk.history') <= HistoryLimit
           /\ OneEach(disk.history') /\ disk.nextId' \in 1..(MaxId + 1)
           /\ IdsOf(disk.history') \subseteq 1..(disk.nextId' - 1)
<1> USE NotificationConstants
<1>1. CASE disk' = disk
  BY <1>1 DEF Inv, HistoriesOK, Fresh, TypeOK
<1>2. CASE disk' = Current
  <2>1. disk.history' = history /\ disk.nextId' = nextId
    BY <1>2 DEF Current
  <2> QED BY <2>1 DEF Inv, HistoriesOK, Fresh, IdsAreFresh, TypeOK
<1>3. CASE disk' = NoFile
  <2>1. disk.history' = <<>> /\ disk.nextId' = 1
    BY <1>3 DEF NoFile
  <2>2. /\ <<>> \in Seq(HistoryEntry) /\ Len(<<>>) = 0 /\ DOMAIN <<>> = {}
    BY EmptySeq, LenProperties
  <2>3. OneEach(<<>>) /\ IdsOf(<<>>) = {}
    BY <2>2 DEF OneEach, IdsOf
  <2> QED BY <2>1, <2>2, <2>3
<1> QED BY <1>1, <1>2, <1>3

-----------------------------------------------------------------------------
(* The invariant *)

\* In this session's calls.
LEMMA CallKeepsInv ==
    ASSUME Inv, HistoryChange, LiveOK', IdsChange, plasmaId' \in 0..MaxId, running' \in BOOLEAN
    PROVE  Inv'
<1> USE NotificationConstants
<1>1. /\ live' \in Seq(Notification) /\ DOMAIN live' = 1..Len(live')
      /\ \A i \in 1..Len(live') : live'[i] \in Notification
  BY LenProperties, ElementOfSeq DEF LiveOK
<1>2. /\ DOMAIN idToIndex' \subseteq Id
      /\ \A id \in DOMAIN idToIndex' : idToIndex'[id] \in 1..Len(live')
  BY <1>1 DEF LiveOK, Indexed, IdsOf, Notification
<1>3. disk' = disk /\ saveFailed' = saveFailed /\ persistScheduled' \in {persistScheduled, TRUE}
  BY DEF HistoryChange
<1>4. persistScheduled \in BOOLEAN /\ saveFailed \in BOOLEAN /\ pending \subseteq Id
      /\ host \in Hosts /\ disk.history \in Seq(HistoryEntry) /\ disk.nextId \in 1..(MaxId + 1)
      /\ nextId \in 1..(MaxId + 1)
  BY DEF Inv, TypeOK
<1>5. IdsOf(live) \subseteq Id
  BY LiveIds, InvParts
<1>6. pending' \subseteq Id /\ suppressed' \subseteq Id
  BY <1>4, <1>5 DEF IdsChange
<1>7. persistScheduled' \in BOOLEAN /\ saveFailed' \in BOOLEAN
  BY <1>3, <1>4
<1>8. TypeOK'
  BY <1>1, <1>2, <1>3, <1>4, <1>6, <1>7 DEF TypeOK, IdsChange, HistoryChange
<1>9. HistoriesOK'
  BY <1>3 DEF Inv, HistoriesOK, HistoryChange
<1>10. Indexed'
  BY DEF LiveOK
<1>11. Fresh'
  <2>1. nextId' >= nextId /\ nextId' \in 1..(MaxId + 1)
    BY DEF IdsChange
  <2>2. 1..(nextId - 1) \subseteq 1..(nextId' - 1)
    <3>1. nextId \in Int /\ nextId' \in Int
      BY <1>4, <2>1
    <3>2. \A a, b \in Int : a <= b => 1..(a - 1) \subseteq 1..(b - 1)
      OBVIOUS
    <3> QED BY <2>1, <3>1, <3>2
  <2>3. IdsOf(live) \cup IdsOf(history) \cup suppressed \cup pending \subseteq 1..(nextId' - 1)
    BY <2>2 DEF Inv, Fresh, IdsAreFresh
  <2>4. IdsOf(live') \cup suppressed' \cup pending' \subseteq 1..(nextId' - 1)
    BY <2>3 DEF IdsChange
  <2>5. IdsOf(history') \subseteq 1..(nextId' - 1)
    BY <2>3, <2>4 DEF HistoryChange
  <2>6. IdsOf(disk.history') \subseteq 1..(disk.nextId' - 1)
    BY <1>3 DEF Inv, Fresh
  <2> QED BY <2>4, <2>5, <2>6 DEF Fresh, IdsAreFresh
<1> QED BY <1>8, <1>9, <1>10, <1>11 DEF Inv

\* Every call and every step that is none.
CallChange == HistoryChange /\ LiveOK' /\ IdsChange /\ plasmaId' \in 0..MaxId

LEMMA EveryCall ==
    ASSUME Inv, [Next]_vars, ~Persist, ~Exit, ~Restart
    PROVE  CallChange
<1>0. TypeOK /\ plasmaId \in 0..MaxId
  BY DEF Inv, TypeOK
<1>1. ASSUME NEW q \in Request, Issued(q), AddOrReplace(q), plasmaId' \in 0..MaxId
      PROVE  CallChange
  BY <1>1, ReplaceStep, AddStep, SuppressStep DEF AddOrReplace, CallChange
<1>2. ASSUME NEW id \in Id, NEW reason \in Reasons, Close(id, reason) PROVE CallChange
  <2>1. plasmaId' = plasmaId
    BY <1>2 DEF Close
  <2> QED BY <1>0, <1>2, <2>1, CloseStep DEF CallChange
<1>3. ASSUME NEW id \in Id, InvokePending(id) PROVE CallChange
  <2>1. plasmaId' = plasmaId
    BY <1>3 DEF InvokePending, idVars
  <2> QED BY <1>0, <1>3, <2>1, InvokeStep DEF CallChange
<1>4. ASSUME SetFilters \/ RemoveFromHistory \/ UNCHANGED vars PROVE CallChange
  <2>1. plasmaId' = plasmaId
    BY <1>4 DEF SetFilters, RemoveFromHistory, idVars, vars
  <2> QED BY <1>0, <1>4, <2>1, FilterStep, RemoveStep DEF CallChange
<1> QED BY <1>0, <1>1, <1>2, <1>3, <1>4, Calls

\* Only a shell that runs is called.
LEMMA CallsRun ==
    ASSUME [Next]_vars, ~Persist, ~Exit, ~Restart
    PROVE  running' = running /\ (running \/ UNCHANGED vars)
<1>1. ASSUME NEW q, AddOrReplace(q) PROVE running' = running
  BY <1>1 DEF AddOrReplace, KeepSuppressed, Replace, Suppress, IgnoreDuplicate, Add
<1>2. ASSUME NEW id, NEW reason, Close(id, reason) PROVE running' = running
  BY <1>2 DEF Close
<1>3. CASE Notify \/ PlasmaNotifies \/ PlasmaReplaces \/ AddInternal
  BY <1>1, <1>3 DEF Notify, PlasmaNotifies, PlasmaReplaces, AddInternal
<1>4. CASE CloseNotification \/ Expire \/ InvokeAction
  BY <1>2, <1>4 DEF CloseNotification, Expire, InvokeAction
<1>5. CASE SetFilters \/ RemoveFromHistory
  BY <1>5 DEF SetFilters, RemoveFromHistory
<1>6. CASE UNCHANGED vars
  BY <1>6 DEF vars
<1> QED BY <1>3, <1>4, <1>5, <1>6 DEF Next

\* What was written is a history the shell has had.
LEMMA SaveStep ==
    ASSUME Inv, Save
    PROVE  disk' \in {disk, Current, NoFile} /\ saveFailed' \in BOOLEAN
BY DEF Save

LEMMA PersistKeepsInv ==
    ASSUME Inv, Persist
    PROVE  Inv'
<1>1. /\ disk' \in {disk, Current, NoFile} /\ persistScheduled' \in BOOLEAN /\ saveFailed' \in BOOLEAN
      /\ UNCHANGED <<live, idToIndex, suppressed, nextId, plasmaId, pending, history, filter,
                     host, running, shown, closes>>
  BY SaveStep DEF Persist, idVars
<1>2. /\ disk.history' \in Seq(HistoryEntry) /\ Len(disk.history') <= HistoryLimit
      /\ OneEach(disk.history') /\ disk.nextId' \in 1..(MaxId + 1)
      /\ IdsOf(disk.history') \subseteq 1..(disk.nextId' - 1)
  BY <1>1, DiskStep
<1>3. TypeOK'
  BY <1>1, <1>2 DEF Inv, TypeOK
<1>4. HistoriesOK' /\ Indexed' /\ Fresh'
  BY <1>1, <1>2 DEF Inv, HistoriesOK, Indexed, Fresh, IdsAreFresh
<1> QED BY <1>3, <1>4 DEF Inv

LEMMA ExitKeepsInv ==
    ASSUME Inv, Exit
    PROVE  Inv'
<1>1. /\ disk' \in {disk, Current, NoFile} /\ saveFailed' \in BOOLEAN /\ running' = FALSE
      /\ UNCHANGED <<live, idToIndex, suppressed, nextId, plasmaId, history, filter, host,
                     persistScheduled, shown>>
      /\ pending' = pending \ pending /\ closes' = Told(closes, pending \cap pending)
  BY SaveStep DEF Exit, EmitPending, idVars
<1>2. /\ disk.history' \in Seq(HistoryEntry) /\ Len(disk.history') <= HistoryLimit
      /\ OneEach(disk.history') /\ disk.nextId' \in 1..(MaxId + 1)
      /\ IdsOf(disk.history') \subseteq 1..(disk.nextId' - 1)
  BY <1>1, DiskStep
<1>3. pending' = {}
  BY <1>1
<1>4. closes' \in [Id -> Nat]
  <2>1. closes \in [Id -> Nat]
    BY InvParts
  <2> QED BY <1>1, <2>1, ToldType
<1>5. TypeOK'
  <2>1. TypeOK
    BY DEF Inv
  <2> QED BY <1>1, <1>2, <1>3, <1>4, <2>1 DEF TypeOK
<1>6. HistoriesOK' /\ Indexed' /\ Fresh'
  BY <1>1, <1>2, <1>3 DEF Inv, HistoriesOK, Indexed, Fresh, IdsAreFresh
<1> QED BY <1>5, <1>6 DEF Inv

\* What is read back at a start is kept as it is by the next start.
LEMMA RetainedEntries ==
    ASSUME NEW h \in Seq(HistoryEntry)
    PROVE  /\ Retained(h) \in Seq(HistoryEntry) /\ Len(Retained(h)) <= Len(h)
           /\ IdsOf(Retained(h)) \subseteq IdsOf(h)
           /\ OneEach(h) => OneEach(Retained(h))
           /\ Retained(Retained(h)) = Retained(h)
<1> DEFINE I == {i \in DOMAIN h : h[i].tracked}
           r == Retained(h)
<1>1. r = AtPlaces(h, I)
  BY DEF Retained, Kept
<1>2. {h[i].id : i \in I} \subseteq IdsOf(h)
  BY DEF IdsOf
<1>3. \A i \in I : h[i].tracked
  OBVIOUS
<1>4. I \in SUBSET DOMAIN h
  OBVIOUS
<1>5. {i \in DOMAIN r : r[i].tracked} = {i \in DOMAIN Retained(h) : Retained(h)[i].tracked}
  OBVIOUS
<1> HIDE DEF I, r
<1>6. /\ r \in Seq(HistoryEntry) /\ Len(r) <= Len(h)
      /\ IdsOf(r) \subseteq IdsOf(h)
      /\ OneEach(h) => OneEach(r)
  BY <1>1, <1>2, <1>4, KeptEntries
<1>7. \A k \in DOMAIN r : r[k].tracked
  <2>1. /\ DOMAIN r = 1..Cardinality(I)
        /\ \A k \in 1..Cardinality(I) : NthOf(I, k) \in I /\ r[k] = h[NthOf(I, k)]
    BY <1>1, <1>4, Subsequence
  <2> QED BY <1>3, <2>1
<1>8. Retained(r) = r
  <2>1. Retained(r) = AtPlaces(r, {i \in DOMAIN r : r[i].tracked})
    BY DEF Retained, Kept
  <2>2. {i \in DOMAIN r : r[i].tracked} = DOMAIN r
    BY <1>7
  <2> QED BY <1>6, <2>1, <2>2, AllOfIt
<1> QED BY <1>6, <1>8 DEF r

LEMMA RestartKeepsInv ==
    ASSUME Inv, Restart
    PROVE  Inv'
<1> USE NotificationConstants
<1>1. /\ disk' = disk /\ history' = Retained(disk.history')
      /\ nextId' = disk.nextId' /\ live' = <<>> /\ idToIndex' = NoIndex
      /\ suppressed' = {} /\ pending' = {} /\ shown' = {} /\ closes' = NoCloses
      /\ persistScheduled' \in BOOLEAN /\ saveFailed' \in BOOLEAN /\ running' \in BOOLEAN
      /\ UNCHANGED <<plasmaId, filter, host>>
  BY DEF Restart
<1>2. /\ disk.history' \in Seq(HistoryEntry) /\ Len(disk.history') <= HistoryLimit
      /\ OneEach(disk.history') /\ disk.nextId' \in 1..(MaxId + 1)
      /\ IdsOf(disk.history') \subseteq 1..(disk.nextId' - 1)
  BY <1>1, DiskStep
<1>3. /\ history' \in Seq(HistoryEntry) /\ Len(history') <= Len(disk.history')
      /\ IdsOf(history') \subseteq IdsOf(disk.history') /\ OneEach(history')
  BY <1>1, <1>2, RetainedEntries
<1>4. Len(history') <= HistoryLimit
  BY <1>2, <1>3, LenProperties
<1>5. live' \in Seq(Notification) /\ Len(live') = 0 /\ DOMAIN live' = {}
  BY <1>1, EmptySeq, LenProperties
<1>6. DOMAIN idToIndex' = {}
  BY <1>1 DEF NoIndex
<1>7. closes' \in [Id -> Nat]
  BY <1>1 DEF NoCloses
<1>8. IdsOf(live') = {}
  BY <1>5 DEF IdsOf
<1>9. TypeOK'
  <2>1. plasmaId \in 0..MaxId /\ filter \in Filters /\ host \in Hosts
    BY DEF Inv, TypeOK
  <2>2. /\ suppressed' \subseteq Id /\ pending' \subseteq Id /\ shown' \subseteq Id
        /\ nextId' \in 1..(MaxId + 1) /\ UNCHANGED <<plasmaId, filter, host>>
        /\ persistScheduled' \in BOOLEAN /\ saveFailed' \in BOOLEAN /\ running' \in BOOLEAN
    BY <1>1, <1>2
  <2> QED BY <1>2, <1>3, <1>4, <1>5, <1>6, <1>7, <2>1, <2>2 DEF TypeOK
<1>10. HistoriesOK'
  BY <1>2, <1>3, <1>4 DEF HistoriesOK
<1>11. Indexed'
  BY <1>5, <1>6, <1>8 DEF Indexed
<1>12. Fresh'
  <2>1. nextId' = disk.nextId' /\ suppressed' = {} /\ pending' = {}
    BY <1>1
  <2> QED BY <1>2, <1>3, <1>8, <2>1 DEF Fresh, IdsAreFresh
<1> QED BY <1>9, <1>10, <1>11, <1>12 DEF Inv

LEMMA InvInit == Init => Inv
<1> SUFFICES ASSUME Init PROVE Inv
  OBVIOUS
<1> USE NotificationConstants
<1>1. live \in Seq(Notification) /\ Len(live) = 0 /\ DOMAIN live = {}
  BY EmptySeq, LenProperties DEF Init
<1>2. history \in Seq(HistoryEntry) /\ Len(history) = 0 /\ DOMAIN history = {}
  BY EmptySeq, LenProperties DEF Init
<1>3. disk.history = history /\ disk.nextId = 1 /\ nextId = 1 /\ plasmaId = 0
  BY DEF Init, NoFile
<1>4. suppressed = {} /\ pending = {} /\ shown = {} /\ filter \in Filters /\ host \in Hosts
      /\ persistScheduled \in BOOLEAN /\ saveFailed \in BOOLEAN /\ running \in BOOLEAN
  BY DEF Init
<1>5. closes \in [Id -> Nat] /\ DOMAIN idToIndex = {}
  BY DEF Init, NoCloses, NoIndex
<1>6. TypeOK
  BY <1>1, <1>2, <1>3, <1>4, <1>5 DEF TypeOK
<1>7. IdsOf(live) = {} /\ IdsOf(history) = {}
  BY <1>1, <1>2 DEF IdsOf
<1>8. HistoriesOK /\ Indexed /\ Fresh
  BY <1>1, <1>2, <1>3, <1>4, <1>5, <1>7 DEF HistoriesOK, OneEach, Indexed, Fresh, IdsAreFresh
<1> QED BY <1>6, <1>8 DEF Inv

LEMMA InvStep == Inv /\ [Next]_vars => Inv'
<1> SUFFICES ASSUME Inv, [Next]_vars PROVE Inv'
  OBVIOUS
<1>1. CASE ~Persist /\ ~Exit /\ ~Restart
  <2>1. running' \in BOOLEAN
    BY <1>1, CallsRun DEF Inv, TypeOK
  <2> QED BY <1>1, <2>1, EveryCall, CallKeepsInv DEF CallChange
<1> QED BY <1>1, PersistKeepsInv, ExitKeepsInv, RestartKeepsInv

\* The values of the manager's state are the ones the code's types allow, and the
\* history keeps to its limit.
THEOREM TypeCorrect == Spec => []TypeOK
  BY InvInit, InvStep, PTL DEF Spec, Inv

\* The next id names nothing that is still around.
THEOREM FreshIds == Spec => []IdsAreFresh
<1>1. Inv => IdsAreFresh
  BY DEF Inv, Fresh
<1> QED BY <1>1, InvInit, InvStep, PTL DEF Spec

-----------------------------------------------------------------------------
(* Nothing is left unsaved *)

LEMMA SavedStep == Inv /\ HistorySaved /\ [Next]_vars => HistorySaved'
<1> SUFFICES ASSUME Inv, HistorySaved, [Next]_vars PROVE HistorySaved'
  OBVIOUS
<1>1. CASE ~Persist /\ ~Exit /\ ~Restart
  <2>1. CallChange
    BY <1>1, EveryCall
  <2>2. /\ UNCHANGED <<disk, saveFailed>> /\ persistScheduled' \in {persistScheduled, TRUE}
        /\ history' # history => persistScheduled' = TRUE
    BY <2>1 DEF CallChange, HistoryChange
  <2>3. persistScheduled \in BOOLEAN /\ saveFailed \in BOOLEAN /\ running \in BOOLEAN
    BY DEF Inv, TypeOK
  <2>6. running' = running /\ (history' # history => running)
    BY <1>1, CallsRun DEF vars
  <2>4. CASE history' = history
    BY <2>2, <2>3, <2>4, <2>6 DEF HistorySaved
  <2>5. CASE history' # history
    BY <2>2, <2>3, <2>5, <2>6 DEF HistorySaved
  <2> QED BY <2>4, <2>5
<1>2. CASE Persist \/ Exit
  <2>0. Save /\ history' = history
    BY <1>2 DEF Persist, Exit
  <2>1. CASE disk' = Current
    <3>1. disk.history' = history
      BY <2>1 DEF Current
    <3> QED BY <2>0, <3>1 DEF HistorySaved
  <2>2. CASE disk' # Current
    BY <2>0, <2>2 DEF Save, HistorySaved
  <2> QED BY <2>1, <2>2
<1>3. CASE Restart
  <2>1. disk.history' \in Seq(HistoryEntry) /\ history' = Retained(disk.history')
    BY <1>3, DiskStep DEF Restart
  <2>2. Retained(history') = Retained(disk.history')
    BY <2>1, RetainedEntries
  <2> QED BY <2>2 DEF HistorySaved
<1> QED BY <1>1, <1>2, <1>3

\* Every change of the history, by whichever path, has its save scheduled, an exit saves
\* what is still due, and reading the file back is what a save of it would write.
THEOREM NoChangeUnsaved == Spec => []HistorySaved
<1>1. Init => HistorySaved
  BY DEF Init, NoFile, HistorySaved
<1> QED BY <1>1, InvInit, InvStep, SavedStep, PTL DEF Spec

-----------------------------------------------------------------------------
(* A deferred signal keeps its entry *)

LEMMA OneEntry ==
    ASSUME NEW h \in Seq(HistoryEntry), OneEach(h), NEW id \in IdsOf(h)
    PROVE  Cardinality({i \in DOMAIN h : h[i].id = id}) = 1
<1>1. PICK i \in DOMAIN h : h[i].id = id
  BY DEF IdsOf
<1>2. {j \in DOMAIN h : h[j].id = id} = {i}
  BY <1>1 DEF OneEach
<1> QED BY <1>2, FS_Singleton

\* A history entry whose signal is deferred stays, as the only one of its
\* notification, until the signal is sent.
THEOREM EntryOutlivesSignal == Spec => DeferredKeepsEntry
<1>1. Inv /\ [Next]_vars
        => [\A id \in pending \cap pending' :
               id \in IdsOf(history) =>
                   Cardinality({i \in DOMAIN history' : history'[i].id = id}) = 1]_vars
  <2> SUFFICES ASSUME Inv, [Next]_vars, NEW id \in pending \cap pending', id \in IdsOf(history)
               PROVE  Cardinality({i \in DOMAIN history' : history'[i].id = id}) = 1
    OBVIOUS
  <2>1. history' \in Seq(HistoryEntry) /\ OneEach(history') /\ id \in IdsOf(history')
    <3>1. CASE ~Persist /\ ~Exit /\ ~Restart
      <4>1. HistoryChange
        BY <3>1, EveryCall DEF CallChange
      <4> QED BY <4>1 DEF HistoryChange
    <3>2. CASE Persist
      BY <3>2 DEF Persist, Inv, HistoriesOK
    <3>3. CASE Restart
      BY <3>3 DEF Restart
    <3>4. CASE Exit
      BY <3>4 DEF Exit, EmitPending
    <3> QED BY <3>1, <3>2, <3>3, <3>4
  <2> QED BY <2>1, OneEntry
<1> QED BY <1>1, InvInit, InvStep, PTL DEF Spec, DeferredKeepsEntry

-----------------------------------------------------------------------------
(* One signal for every sender *)

\* Sending deferred signals keeps the account.
LEMMA EmitAccounts ==
    ASSUME Inv, CloseAccounted, UNCHANGED <<host, shown>>, IdsOf(live') = IdsOf(live),
           \/ UNCHANGED <<pending, closes>>
           \/ \E ids : pending' = pending \ ids /\ closes' = Told(closes, pending \cap ids)
    PROVE  CloseAccounted'
<1>1. closes \in [Id -> Nat]
  BY InvParts
<1>2. CASE UNCHANGED <<pending, closes>>
  BY <1>2 DEF CloseAccounted
<1>3. ASSUME NEW ids, pending' = pending \ ids, closes' = Told(closes, pending \cap ids)
      PROVE  CloseAccounted'
  <2> SUFFICES ASSUME host = "server" PROVE CloseAccounted'
    BY DEF CloseAccounted
  <2>1. /\ IdsOf(live) \cup pending \subseteq shown /\ IdsOf(live) \cap pending = {}
        /\ \A id \in Id :
              closes[id] = IF id \in shown \ (IdsOf(live) \cup pending) THEN 1 ELSE 0
    BY DEF CloseAccounted
  <2>2. \A id \in Id : closes'[id] = IF id \in pending \cap ids THEN closes[id] + 1 ELSE closes[id]
    BY <1>1, <1>3, ToldType
  <2>3. ASSUME NEW id \in Id
        PROVE  closes'[id] = IF id \in shown \ (IdsOf(live) \cup pending') THEN 1 ELSE 0
    <3>1. CASE id \in pending \cap ids
      BY <1>3, <2>1, <2>2, <3>1
    <3>2. CASE id \notin pending \cap ids
      BY <1>3, <2>1, <2>2, <3>2
    <3> QED BY <3>1, <3>2
  <2> QED BY <1>3, <2>1, <2>3 DEF CloseAccounted
<1> QED BY <1>2, <1>3

LEMMA AddAccounts ==
    ASSUME Inv, CloseAccounted, NEW q, Issued(q), Add(q)
    PROVE  CloseAccounted'
<1> DEFINE id == IF q.forced = NoId THEN NextFree(q) ELSE q.forced
           n == FromRequest(id, q)
           h == Upserted(n, TRUE)
           c == [closes EXCEPT ![id] = 0]
<1> SUFFICES ASSUME host = "server" PROVE CloseAccounted'
  BY DEF CloseAccounted, Add
<1>0. LiveOK /\ closes \in [Id -> Nat] /\ q \in Request /\ pending \subseteq Id
  BY InvParts DEF Issued
<1>1. /\ ~IsLive(q.replaces) /\ id <= MaxId /\ live' = Append(live, n)
      /\ idToIndex' = [i \in DOMAIN idToIndex \cup {id} |->
                          IF IsLive(i) THEN idToIndex[i] ELSE Len(live')]
      /\ shown' = shown \cup {id} /\ UNCHANGED host
      /\ Saves(q) => /\ pending' = pending \ Evicted(h)
                     /\ closes' = Told(c, pending \cap Evicted(h))
      /\ ~Saves(q) => closes' = c /\ pending' = pending
  BY DEF Add
<1>2. ~IsLive(id) /\ id \in Nat \ {0} /\ id \notin pending
  BY <1>1, NewId
<1>3. id \in Id
  BY <1>1, <1>2, InvParts DEF Id
<1> HIDE DEF id
<1>4. n \in Notification /\ n.id = id
  BY <1>0, <1>3 DEF FromRequest, Notification, Request
<1> HIDE DEF n, h
<1>5. IdsOf(live') = IdsOf(live) \cup {id}
  BY <1>0, <1>1, <1>2, <1>4, LiveAdd
<1>6. c \in [Id -> Nat] /\ c[id] = 0 /\ \A x \in Id : x # id => c[x] = closes[x]
  BY <1>0, <1>3
<1> HIDE DEF c
<1>7. /\ IdsOf(live) \cup pending \subseteq shown /\ IdsOf(live) \cap pending = {}
      /\ \A x \in Id : closes[x] = IF x \in shown \ (IdsOf(live) \cup pending) THEN 1 ELSE 0
  BY DEF CloseAccounted
<1>8. PICK ids : /\ pending' = pending \ ids
                 /\ \A x \in Id : closes'[x] = IF x \in pending \cap ids THEN c[x] + 1 ELSE c[x]
  <2>1. CASE Saves(q)
    <3>1. \A x \in Id : Told(c, pending \cap Evicted(h))[x] =
                           IF x \in pending \cap Evicted(h) THEN c[x] + 1 ELSE c[x]
      BY <1>6, ToldType
    <3> QED BY <1>1, <2>1, <3>1
  <2>2. CASE ~Saves(q)
    <3>1. pending' = pending \ {} /\ \A x \in Id : closes'[x] = IF x \in pending \cap {} THEN c[x] + 1 ELSE c[x]
      BY <1>1, <2>2
    <3> QED BY <3>1
  <2> QED BY <2>1, <2>2
<1>9. ASSUME NEW x \in Id
      PROVE  closes'[x] = IF x \in shown' \ (IdsOf(live') \cup pending') THEN 1 ELSE 0
  <2>1. CASE x = id
    BY <1>1, <1>2, <1>5, <1>6, <1>8, <2>1
  <2>2. CASE x # id /\ x \in pending \cap ids
    BY <1>1, <1>5, <1>6, <1>7, <1>8, <2>2
  <2>3. CASE x # id /\ x \notin pending \cap ids
    BY <1>1, <1>5, <1>6, <1>7, <1>8, <2>3
  <2> QED BY <2>1, <2>2, <2>3
<1>10. IdsOf(live') \cup pending' \subseteq shown' /\ IdsOf(live') \cap pending' = {}
  BY <1>1, <1>2, <1>5, <1>7, <1>8
<1> QED BY <1>9, <1>10 DEF CloseAccounted

LEMMA CloseLiveAccounts ==
    ASSUME Inv, CloseAccounted, NEW id \in Id, NEW reason, CloseLive(id, reason),
           UNCHANGED <<host, shown>>
    PROVE  CloseAccounted'
<1> DEFINE closed == Find(id)
           removes == SavesClosed(closed) /\ reason = "dismissed" /\ id \in IdsOf(history)
           upserts == SavesClosed(closed) /\ reason # "dismissed"
           h == IF upserts THEN Upserted(closed, FALSE)
                ELSE IF removes THEN Removed(id) ELSE history
           leaving == IF removes THEN {id} ELSE Evicted(h)
           now == IF Defers(closed, reason) THEN {} ELSE {id}
<1> SUFFICES ASSUME host = "server" PROVE CloseAccounted'
  BY DEF CloseAccounted
<1>0. LiveOK /\ closes \in [Id -> Nat]
  BY InvParts
<1>1. /\ IsLive(id) /\ live' = RemoveAt(live, idToIndex[id]) /\ idToIndex' = Reindexed(id)
      /\ pending' = (pending \ leaving) \cup ({id} \ now)
      /\ closes' = Told(Told(closes, pending \cap leaving), now)
  BY DEF CloseLive
<1>2. now = {} \/ now = {id}
  OBVIOUS
<1> HIDE DEF leaving, now
<1>3. IdsOf(live') = IdsOf(live) \ {id} /\ id \in IdsOf(live)
  BY <1>0, <1>1, LiveRemove, LiveIds
<1>4. /\ IdsOf(live) \cup pending \subseteq shown /\ IdsOf(live) \cap pending = {}
      /\ \A x \in Id : closes[x] = IF x \in shown \ (IdsOf(live) \cup pending) THEN 1 ELSE 0
  BY DEF CloseAccounted
<1>5. /\ Told(closes, pending \cap leaving) \in [Id -> Nat]
      /\ \A x \in Id : Told(closes, pending \cap leaving)[x] =
                          IF x \in pending \cap leaving THEN closes[x] + 1 ELSE closes[x]
  BY <1>0, ToldType
<1>6. \A x \in Id : closes'[x] =
         IF x \in now THEN Told(closes, pending \cap leaving)[x] + 1
         ELSE Told(closes, pending \cap leaving)[x]
  BY <1>1, <1>5, ToldType
<1>7. ASSUME NEW x \in Id
      PROVE  closes'[x] = IF x \in shown \ (IdsOf(live') \cup pending') THEN 1 ELSE 0
  <2>1. CASE x = id
    <3>1. x \notin pending /\ closes[x] = 0 /\ x \in shown
      BY <1>3, <1>4, <2>1
    <3>2. closes'[x] = IF x \in now THEN 1 ELSE 0
      BY <1>5, <1>6, <3>1
    <3>3. x \in pending' <=> x \notin now
      BY <1>1, <2>1, <3>1
    <3> QED BY <1>3, <2>1, <3>1, <3>2, <3>3
  <2>2. CASE x # id
    <3>1. x \notin now
      BY <1>2, <2>2
    <3>2. closes'[x] = IF x \in pending \cap leaving THEN closes[x] + 1 ELSE closes[x]
      BY <1>5, <1>6, <3>1
    <3>3. x \in pending' <=> x \in pending \ leaving
      BY <1>1, <2>2
    <3>4. CASE x \in pending \cap leaving
      BY <1>3, <1>4, <2>2, <3>2, <3>3, <3>4
    <3>5. CASE x \notin pending \cap leaving
      BY <1>3, <1>4, <2>2, <3>2, <3>3, <3>5
    <3> QED BY <3>4, <3>5
  <2> QED BY <2>1, <2>2
<1>8. IdsOf(live') \cup pending' \subseteq shown /\ IdsOf(live') \cap pending' = {}
  BY <1>1, <1>3, <1>4
<1> QED BY <1>7, <1>8 DEF CloseAccounted

LEMMA AccountStep == Inv /\ CloseAccounted /\ [Next]_vars => CloseAccounted'
<1> SUFFICES ASSUME Inv, CloseAccounted, [Next]_vars PROVE CloseAccounted'
  OBVIOUS
<1>0. TypeOK
  BY DEF Inv
<1>1. ASSUME NEW q \in Request, Issued(q), AddOrReplace(q) PROVE CloseAccounted'
  <2>1. CASE Replace(q)
    <3>1. IdsOf(live') = IdsOf(live) /\ UNCHANGED <<host, shown>>
      BY <1>1, <2>1, ReplaceStep DEF Replace
    <3>2. \/ UNCHANGED <<pending, closes>>
          \/ \E ids : EmitPending(ids)
      BY <2>1 DEF Replace
    <3> QED BY <3>1, <3>2, EmitAccounts DEF EmitPending
  <2>2. CASE KeepSuppressed(q) \/ Suppress(q) \/ IgnoreDuplicate(q)
    <3>1. UNCHANGED <<live, pending, closes, shown, host>>
      BY <2>2 DEF KeepSuppressed, Suppress, IgnoreDuplicate
    <3> QED BY <3>1, EmitAccounts
  <2>3. CASE Add(q)
    BY <1>1, <2>3, AddAccounts
  <2> QED BY <1>1, <2>1, <2>2, <2>3 DEF AddOrReplace
<1>2. ASSUME NEW id \in Id, NEW reason \in Reasons, Close(id, reason) PROVE CloseAccounted'
  <2>1. UNCHANGED <<host, shown>>
    BY <1>2 DEF Close
  <2>2. CASE CloseSuppressed(id)
    BY <2>1, <2>2, EmitAccounts DEF CloseSuppressed
  <2>3. CASE ClosePending(id)
    BY <2>1, <2>3, EmitAccounts DEF ClosePending, EmitPending
  <2>4. CASE CloseLive(id, reason)
    BY <2>1, <2>4, CloseLiveAccounts
  <2> QED BY <1>2, <2>2, <2>3, <2>4 DEF Close
<1>3. ASSUME NEW id \in Id, InvokePending(id) PROVE CloseAccounted'
  BY <1>3, EmitAccounts DEF InvokePending, EmitPending
<1>4. CASE SetFilters \/ Persist \/ UNCHANGED vars
  <2>1. UNCHANGED <<live, pending, closes, shown, host>>
    BY <1>4 DEF SetFilters, Persist, vars
  <2> QED BY <2>1, EmitAccounts
<1>5. CASE RemoveFromHistory
  <2>1. UNCHANGED <<live, shown, host>> /\ \E ids : EmitPending(ids)
    BY <1>5 DEF RemoveFromHistory
  <2> QED BY <2>1, EmitAccounts DEF EmitPending
<1>6. CASE Restart
  <2>1. live' = <<>> /\ pending' = {} /\ shown' = {} /\ closes' = NoCloses
    BY <1>6 DEF Restart
  <2>2. DOMAIN live' = {}
    BY <2>1, EmptySeq, LenProperties
  <2>3. IdsOf(live') = {}
    BY <2>2 DEF IdsOf
  <2>4. pending' = {} /\ shown' = {} /\ \A id \in Id : closes'[id] = 0
    BY <2>1 DEF NoCloses
  <2> QED BY <2>3, <2>4 DEF CloseAccounted
<1>7. CASE Exit
  <2>1. UNCHANGED <<live, shown, host>> /\ EmitPending(pending)
    BY <1>7 DEF Exit
  <2> QED BY <2>1, EmitAccounts DEF EmitPending
<1> QED BY <1>0, <1>1, <1>2, <1>3, <1>4, <1>5, <1>6, <1>7, Calls

\* The sender of a notification gets one NotificationClosed and no second one.
THEOREM OneSignalEach == Spec => []CloseAccounted
<1>1. Init => CloseAccounted
  <2> SUFFICES ASSUME Init PROVE CloseAccounted
    OBVIOUS
  <2>1. DOMAIN live = {}
    BY EmptySeq, LenProperties DEF Init
  <2>2. IdsOf(live) = {}
    BY <2>1 DEF IdsOf
  <2>3. pending = {} /\ shown = {} /\ \A id \in Id : closes[id] = 0
    BY DEF Init, NoCloses
  <2> QED BY <2>2, <2>3 DEF CloseAccounted
<1> QED BY <1>1, InvInit, InvStep, AccountStep, PTL DEF Spec
=============================================================================
