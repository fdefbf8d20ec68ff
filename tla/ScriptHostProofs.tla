-------------------------- MODULE ScriptHostProofs --------------------------
(***************************************************************************)
(* Proofs about ScriptRuntime, continued: the update flags, the watchers   *)
(* and callbacks of the VM a runtime has, the slots of sound loads, and    *)
(* that the runtime implements the mailbox of ScriptMailbox.               *)
(***************************************************************************)
EXTENDS ScriptRuntimeProofs

-----------------------------------------------------------------------------
(* What enqueue() does to the mailbox *)

\* The event enqueue() finds is one it looked for.
LEMMA Found ==
    ASSUME NEW r \in Runtimes, NEW e, queue[r] \in Seq(Event)
    PROVE  /\ Len(queue[r]) \in Nat
           /\ Evictable(r) # 0 =>
                 /\ Evictable(r) \in 1..Len(queue[r])
                 /\ queue[r][Evictable(r)].kind = "update" \/ queue[r][Evictable(r)].droppable
           /\ Superseded(r, e) # 0 =>
                 /\ Superseded(r, e) \in 1..Len(queue[r])
                 /\ e.kind = "call" /\ e.coalesce
                 /\ queue[r][Superseded(r, e)].kind = "call"
                 /\ queue[r][Superseded(r, e)].coalesce
                 /\ queue[r][Superseded(r, e)].fn = e.fn
<1>0. Len(queue[r]) \in Nat
  BY LenProperties
<1>1. ASSUME Evictable(r) # 0
      PROVE  /\ Evictable(r) \in 1..Len(queue[r])
             /\ queue[r][Evictable(r)].kind = "update" \/ queue[r][Evictable(r)].droppable
  <2> DEFINE I == {i \in 1..Len(queue[r]) :
                      queue[r][i].kind = "update" \/ queue[r][i].droppable}
  <2>1. Evictable(r) = IF I # {} THEN Min(I) ELSE 0
    BY DEF Evictable, SelectInSeq
  <2>2. I \in SUBSET Nat
    BY <1>0
  <2> HIDE DEF I
  <2>3. Evictable(r) \in I
    BY <1>1, <2>1, <2>2, MinIsLeast
  <2> QED BY <2>3 DEF I
<1>2. ASSUME Superseded(r, e) # 0
      PROVE  /\ Superseded(r, e) \in 1..Len(queue[r])
             /\ e.kind = "call" /\ e.coalesce
             /\ queue[r][Superseded(r, e)].kind = "call"
             /\ queue[r][Superseded(r, e)].coalesce
             /\ queue[r][Superseded(r, e)].fn = e.fn
  <2> DEFINE I == {i \in 1..Len(queue[r]) :
                queue[r][i].kind = "call" /\ queue[r][i].coalesce /\ queue[r][i].fn = e.fn}
             At == SelectInSeq(queue[r],
                      LAMBDA q : q.kind = "call" /\ q.coalesce /\ q.fn = e.fn)
  <2>1. At = IF I # {} THEN Min(I) ELSE 0
    BY DEF SelectInSeq
  <2>2. e.kind = "call" /\ e.coalesce /\ Superseded(r, e) = At
    BY <1>2 DEF Superseded
  <2>3. I \in SUBSET Nat
    BY <1>0
  <2> HIDE DEF I, At
  <2>4. Superseded(r, e) \in I
    BY <1>2, <2>1, <2>2, <2>3, MinIsLeast
  <2> QED BY <2>2, <2>4 DEF I
<1> QED BY <1>0, <1>1, <1>2

\* The runtimes other than r keep their mailboxes.
OthersKeep(r) ==
    \A q \in Runtimes \ {r} :
        queue'[q] = queue[q] /\ generation'[q] = generation[q] /\ updates'[q] = updates[q]

\* The four ways a mailbox answers an event: it stays as it is, a call takes the
\* place of an older one, a load clears it, or the event is appended, in the place
\* of an older one if there was no room (evicted is 0 if there was).
Unchanged(r) ==
    /\ queue'[r] = queue[r] /\ generation'[r] = generation[r]
    /\ updates'[r].queued = updates[r].queued /\ updates'[r].running = updates[r].running

Replaced(r, e, i) ==
    /\ i \in 1..Len(queue[r])
    /\ e.kind = "call" /\ e.coalesce
    /\ queue[r][i].kind = "call" /\ queue[r][i].coalesce /\ queue[r][i].fn = e.fn
    /\ queue'[r] = [queue[r] EXCEPT ![i] = [e EXCEPT !.gen = generation[r]]]
    /\ generation'[r] = generation[r] /\ updates'[r] = updates[r]

Restarted(r, e) ==
    /\ e.kind = "load"
    /\ queue'[r] = <<[e EXCEPT !.gen = generation[r] + 1]>>
    /\ generation'[r] = generation[r] + 1
    /\ updates'[r] = NoUpdate

Appended(r, e) ==
    /\ e.kind # "load"
    /\ queue'[r] = Append(queue[r], [e EXCEPT !.gen = generation[r]])
    /\ generation'[r] = generation[r]
    /\ updates'[r].running = updates[r].running
    /\ e.kind = "update" => ~updates[r].queued /\ updates'[r].queued
    /\ e.kind # "update" => updates'[r].queued = updates[r].queued

Evicted(r, e, i) ==
    /\ e.kind \notin {"load", "update", "sound"}
    /\ i \in 1..Len(queue[r])
    /\ queue[r][i].kind = "update" \/ queue[r][i].droppable
    /\ queue'[r] = Append(RemoveAt(queue[r], i), [e EXCEPT !.gen = generation[r]])
    /\ generation'[r] = generation[r]
    /\ updates'[r].running = updates[r].running
    /\ updates'[r].queued = (updates[r].queued /\ queue[r][i].kind # "update")

LEMMA EnqueueEffect ==
    ASSUME TypeOK, NEW r \in Runtimes, NEW e \in Event, Enqueue(r, e)
    PROVE  /\ OthersKeep(r)
           /\ \/ Unchanged(r)
              \/ \E i \in 1..Len(queue[r]) : Replaced(r, e, i) \/ Evicted(r, e, i)
              \/ Restarted(r, e)
              \/ Appended(r, e)
<1> USE DEF TypeOK, MailboxTypeOK
<1>q. queue[r] \in Seq(Event) /\ Len(queue[r]) \in Nat
  BY LenProperties
<1>u. updates[r] \in [queued : BOOLEAN, running : BOOLEAN, accepted : BOOLEAN]
  OBVIOUS
<1>1. CASE Refuse(r, e) \/ AbsorbUpdate(r, e)
  BY <1>1 DEF Refuse, AbsorbUpdate, mailboxVars, statusVars, OthersKeep, Unchanged
<1>2. CASE Supersede(r, e)
  <2> DEFINE i == Superseded(r, e)
  <2>1. /\ i \in 1..Len(queue[r])
        /\ e.kind = "call" /\ e.coalesce
        /\ queue[r][i].kind = "call" /\ queue[r][i].coalesce /\ queue[r][i].fn = e.fn
    BY <1>2, <1>q, Found DEF Supersede
  <2>2. /\ queue' = [queue EXCEPT ![r] = [queue[r] EXCEPT ![i] = [e EXCEPT !.gen = generation[r]]]]
        /\ UNCHANGED <<generation, updates>>
    BY <1>2 DEF Supersede, statusVars
  <2> HIDE DEF i
  <2>3. OthersKeep(r)
    BY <2>2 DEF OthersKeep
  <2>4. Replaced(r, e, i)
    BY <2>1, <2>2 DEF Replaced
  <2> QED BY <2>1, <2>3, <2>4
<1>3. CASE DropWhenFull(r, e)
  <2>1. UNCHANGED <<queue, generation>>
    BY <1>3 DEF DropWhenFull
  <2>2. PICK b : updates' = [updates EXCEPT ![r] = [updates[r] EXCEPT !.accepted = b]]
    BY <1>3 DEF DropWhenFull
  <2>3. Unchanged(r)
    BY <1>u, <2>1, <2>2 DEF Unchanged
  <2> QED BY <2>1, <2>2, <2>3 DEF OthersKeep
<1>4. CASE Admit(r, e)
  <2> DEFINE gen == IF e.kind = "load" THEN generation[r] + 1 ELSE generation[r]
             upd == IF e.kind = "load" THEN NoUpdate
                    ELSE IF e.kind = "update"
                         THEN [updates[r] EXCEPT !.queued = TRUE, !.accepted = TRUE]
                    ELSE IF EvictsUpdate(r, e) THEN [updates[r] EXCEPT !.queued = FALSE]
                    ELSE updates[r]
  <2>1. /\ Admissible(r, e) /\ ~NoRoom(r, e)
        /\ queue' = [queue EXCEPT ![r] = Append(Room(r, e), [e EXCEPT !.gen = gen])]
        /\ generation' = [generation EXCEPT ![r] = gen]
        /\ updates' = [updates EXCEPT ![r] = upd]
    BY <1>4 DEF Admit
  <2>2. OthersKeep(r)
    <3> HIDE DEF gen, upd
    <3> QED BY <2>1 DEF OthersKeep
  <2>3. /\ queue'[r] = Append(Room(r, e), [e EXCEPT !.gen = gen])
        /\ generation'[r] = gen /\ updates'[r] = upd
    <3> HIDE DEF gen, upd
    <3> QED BY <2>1
  <2>4. CASE e.kind = "load"
    <3>1. Restarted(r, e)
      BY <2>3, <2>4 DEF Restarted, Room
    <3> QED BY <2>2, <3>1
  <2>5. CASE e.kind # "load" /\ ~Evicts(r, e)
    <3>1. Room(r, e) = queue[r] /\ gen = generation[r]
      BY <2>5 DEF Room
    <3>2. CASE e.kind = "update"
      <4>1. upd = [updates[r] EXCEPT !.queued = TRUE, !.accepted = TRUE]
        BY <3>2
      <4>2. ~updates[r].queued
        BY <2>1, <3>2 DEF Admissible
      <4> HIDE DEF upd, gen
      <4>3. updates'[r].queued /\ updates'[r].running = updates[r].running
        BY <1>u, <2>3, <4>1
      <4>4. Appended(r, e)
        BY <2>3, <2>5, <3>1, <3>2, <4>2, <4>3 DEF Appended
      <4> QED BY <2>2, <4>4
    <3>3. CASE e.kind # "update"
      <4>1. ~EvictsUpdate(r, e)
        BY <2>5 DEF EvictsUpdate
      <4>2. upd = updates[r]
        BY <2>5, <3>3, <4>1
      <4> HIDE DEF upd, gen
      <4>3. Appended(r, e)
        BY <2>3, <2>5, <3>1, <3>3, <4>2 DEF Appended
      <4> QED BY <2>2, <4>3
    <3> QED BY <3>2, <3>3
  <2>6. CASE e.kind # "load" /\ Evicts(r, e)
    <3> DEFINE i == Evictable(r)
    <3>1. Room(r, e) = RemoveAt(queue[r], i) /\ gen = generation[r]
      BY <2>6 DEF Room
    <3>2. e.kind # "update" /\ e.kind # "sound" /\ i # 0
      BY <2>6 DEF Evicts, NoRoom, Full
    <3>3. /\ i \in 1..Len(queue[r])
          /\ queue[r][i].kind = "update" \/ queue[r][i].droppable
      BY <1>q, <3>2, Found
    <3>4. EvictsUpdate(r, e) <=> queue[r][i].kind = "update"
      BY <2>6 DEF EvictsUpdate
    <3>5. upd = IF queue[r][i].kind = "update" THEN [updates[r] EXCEPT !.queued = FALSE]
                ELSE updates[r]
      BY <2>6, <3>2, <3>4
    <3> HIDE DEF upd, gen, i
    <3>6. /\ updates'[r].queued = (updates[r].queued /\ queue[r][i].kind # "update")
          /\ updates'[r].running = updates[r].running
      BY <1>u, <2>3, <3>5
    <3>7. Evicted(r, e, i)
      BY <2>3, <2>6, <3>1, <3>2, <3>3, <3>6 DEF Evicted
    <3> QED BY <2>2, <3>3, <3>7
  <2> QED BY <2>4, <2>5, <2>6
<1> QED
  BY <1>1, <1>2, <1>3, <1>4 DEF Enqueue

\* What a call of the VM leaves behind: how it ended and where the worker goes on,
\* and the callbacks and watchers it added.
CallEnds(w, stage) ==
    /\ pc' = [pc EXCEPT ![w] = AfterCall(stage)] \/ pc' = [pc EXCEPT ![w] = "notify"]
    /\ \E o \in Outcomes, loads \in SUBSET Refs :
          out' = [out EXCEPT ![w] = [outcome |-> o, called |-> TRUE, stage |-> stage,
                                     loads |-> out[w].loads \cup loads]]

CallRegisters(w, h, cbs) ==
    /\ \E new \in SUBSET Callback :
          /\ callbacks' = [callbacks EXCEPT ![job[w]] = cbs \cup new]
          /\ \A c \in new : c.kind = "sound" => c.ref \in out'[w].loads
    /\ \A x \in watchers' : x \in watchers \/ (x.token = job[w] /\ x.vm = h)

LEMMA VmCallEffect ==
    ASSUME TypeOK, NEW w \in Workers, job[w] \in Runtimes, NEW h \in Nat,
           NEW cbs \in SUBSET Callback, NEW stage \in Stages, VmCall(w, h, cbs, stage)
    PROVE  CallEnds(w, stage) /\ CallRegisters(w, h, cbs)
<1> DEFINE r == job[w]
           Registered(kind, ref) ==
              callbacks' = [callbacks EXCEPT ![r] = cbs \cup {[kind |-> kind, ref |-> ref]}]
           Ended(loads) == \E o \in Outcomes :
              out' = [out EXCEPT ![w] = [outcome |-> o, called |-> TRUE, stage |-> stage,
                                         loads |-> @.loads \cup loads]]
           Gone(label) == pc' = [pc EXCEPT ![w] = label]
           Plainly == callbacks' = [callbacks EXCEPT ![r] = cbs]
           NewCallbacks == \E new \in SUBSET Callback :
                 /\ callbacks' = [callbacks EXCEPT ![r] = cbs \cup new]
                 /\ \A c \in new : c.kind = "sound" => c.ref \in out'[w].loads
           NewOut == \E o \in Outcomes, loads \in SUBSET Refs :
                 out' = [out EXCEPT ![w] = [outcome |-> o, called |-> TRUE, stage |-> stage,
                                            loads |-> out[w].loads \cup loads]]
           NewWatchers == \A x \in watchers' : x \in watchers \/ (x.token = r /\ x.vm = h)
           Ready == Gone(AfterCall(stage)) \/ Gone("notify")
<1>f. Ready /\ NewOut /\ NewCallbacks /\ NewWatchers =>
         CallEnds(w, stage) /\ CallRegisters(w, h, cbs)
  BY DEF CallEnds, CallRegisters
<1>0. \A ref \in FreeRefs(cbs) : ref \in Refs
  BY DEF FreeRefs
<1>1. \A loads \in SUBSET Refs : Ended(loads) => NewOut
  OBVIOUS
<1>2. \A loads \in SUBSET Refs : Ended(loads) => loads \subseteq out'[w].loads
  BY DEF TypeOK, WorkerTypeOK
<1>3. Plainly => NewCallbacks
  <2> SUFFICES ASSUME Plainly PROVE NewCallbacks
    OBVIOUS
  <2> DEFINE none == {}
  <2>1. cbs = cbs \cup none /\ none \in SUBSET Callback
        /\ \A c \in none : c.kind = "sound" => c.ref \in out'[w].loads
    OBVIOUS
  <2> HIDE DEF none
  <2>2. callbacks' = [callbacks EXCEPT ![r] = cbs \cup none]
    BY <2>1
  <2> QED BY <2>1, <2>2
<1>4. \A kind \in {"command", "watch"}, ref \in Refs : Registered(kind, ref) => NewCallbacks
  <2> SUFFICES ASSUME NEW kind \in {"command", "watch"}, NEW ref \in Refs,
                      Registered(kind, ref)
               PROVE  NewCallbacks
    OBVIOUS
  <2> DEFINE new == {[kind |-> kind, ref |-> ref]}
  <2>1. new \in SUBSET Callback /\ \A c \in new : c.kind # "sound"
    BY DEF Callback
  <2> QED BY <2>1
<1>5. \A ref \in Refs : Registered("sound", ref) /\ Ended({ref}) => NewCallbacks
  <2> SUFFICES ASSUME NEW ref \in Refs, Registered("sound", ref), Ended({ref})
               PROVE  NewCallbacks
    OBVIOUS
  <2> DEFINE new == {[kind |-> "sound", ref |-> ref]}
  <2>1. new \in SUBSET Callback /\ \A c \in new : c.ref \in {ref}
    BY DEF Callback
  <2>2. {ref} \subseteq out'[w].loads
    BY <1>2
  <2> QED BY <2>1, <2>2
<1>6. UNCHANGED storeVars \/ (\E k \in Keys : SetKey(w, k)) => NewWatchers
  BY DEF storeVars, SetKey
<1>7. CASE Plainly /\ Ended({}) /\ Gone(AfterCall(stage)) /\ UNCHANGED <<inFlight, storeVars>>
  <2> HIDE DEF Plainly, Ended, Gone, NewOut, NewCallbacks, NewWatchers
  <2>1. Ready /\ NewOut /\ NewCallbacks /\ NewWatchers
    BY <1>1, <1>3, <1>6, <1>7
  <2> QED BY <1>f, <2>1
<1>8. CASE /\ \E ref \in FreeRefs(cbs) :
                 /\ Registered("command", ref)
                 /\ inFlight' = inFlight \cup {[rt |-> r, host |-> h, ref |-> ref]}
           /\ Ended({}) /\ Gone(AfterCall(stage))
           /\ UNCHANGED storeVars
  <2> HIDE DEF Registered, Ended, Gone, NewOut, NewCallbacks, NewWatchers
  <2>1. Ready /\ NewOut /\ NewCallbacks /\ NewWatchers
    BY <1>0, <1>1, <1>4, <1>6, <1>8
  <2> QED BY <1>f, <2>1
<1>9. CASE /\ \E ref \in FreeRefs(cbs) : Registered("sound", ref) /\ Ended({ref})
           /\ Gone(AfterCall(stage))
           /\ UNCHANGED <<inFlight, storeVars>>
  <2> HIDE DEF Registered, Ended, Gone, NewOut, NewCallbacks, NewWatchers
  <2>1. Ready /\ NewOut /\ NewCallbacks /\ NewWatchers
    BY <1>0, <1>1, <1>5, <1>6, <1>9
  <2> QED BY <1>f, <2>1
<1>10. CASE /\ \E k \in Keys, ref \in FreeRefs(cbs) :
                  Registered("watch", ref) /\ Watch(k, r, ref, h)
            /\ Ended({}) /\ Gone(AfterCall(stage))
            /\ UNCHANGED inFlight
  <2>1. NewWatchers
    <3>1. PICK k \in Keys, ref \in FreeRefs(cbs) : Watch(k, r, ref, h)
      BY <1>10
    <3> QED BY <3>1 DEF Watch
  <2> HIDE DEF Registered, Ended, Gone, NewOut, NewCallbacks, NewWatchers
  <2>2. Ready /\ NewOut /\ NewCallbacks
    BY <1>0, <1>1, <1>4, <1>10
  <2> QED BY <1>f, <2>1, <2>2
<1>11. CASE /\ \E k \in Keys : SetKey(w, k)
            /\ Plainly /\ Ended({})
            /\ Gone(IF notifying'[w] = {} THEN AfterCall(stage) ELSE "notify")
            /\ UNCHANGED inFlight
  <2>1. Ready
    BY <1>11
  <2> HIDE DEF Plainly, Ended, Gone, NewOut, NewCallbacks, NewWatchers
  <2>2. NewOut /\ NewCallbacks /\ NewWatchers
    BY <1>1, <1>3, <1>6, <1>11
  <2> QED BY <1>f, <2>1, <2>2
<1> QED
  BY <1>7, <1>8, <1>9, <1>10, <1>11 DEF VmCall

-----------------------------------------------------------------------------
(* What is in the mailboxes *)

\* The events of a mailbox are of the generation the runtime has now, since a load
\* clears it, and only calls give way to others.
MailInv ==
    \A r \in Runtimes : \A i \in 1..Len(queue[r]) :
        /\ queue[r][i].gen = generation[r]
        /\ queue[r][i].kind # "none"
        /\ queue[r][i].droppable \/ queue[r][i].coalesce => queue[r][i].kind = "call"

\* What the environment and the watchers send.
Sent ==
    {e \in NotStop : e.kind # "none" /\ (e.droppable \/ e.coalesce => e.kind = "call")}

LEMMA SentEvents ==
    /\ MainEvents \subseteq Sent
    /\ \A k \in {"command", "sound", "watch"}, h \in Nat, ref \in Refs :
          Answer(k, h, ref) \in Sent
<1>1. \A e \in MainEvents : e.kind # "none" /\ (e.droppable \/ e.coalesce => e.kind = "call")
  <2>1. \A k \in {"load", "update", "settings"} :
           Plain(k).kind # "none" /\ ~Plain(k).droppable /\ ~Plain(k).coalesce
    BY DEF Plain
  <2>2. \A f, c, d : Call(f, c, d).kind = "call"
    BY DEF Call, Plain
  <2> QED BY <2>1, <2>2 DEF MainEvents
<1>2. \A k \in {"command", "sound", "watch"} : \A h, ref :
         Answer(k, h, ref).kind # "none" /\ ~Answer(k, h, ref).droppable
         /\ ~Answer(k, h, ref).coalesce
  BY DEF Answer, Plain
<1> QED
  BY <1>1, <1>2, SentNotStop DEF Sent

\* Every step leaves the mailbox of a runtime alone, enqueues an event that is sent
\* on it, stops it, pops its first event, or clears it when it has stopped.
MailSteps ==
    \/ UNCHANGED <<queue, generation, updates, stopping>>
    \/ \E r \in Runtimes, e \in Sent : Enqueue(r, e) /\ stopping' = stopping
    \/ \E r \in Runtimes : Stop(r)
    \/ \E w \in Workers : DrainPops(w) \/ Finish(w) \/ FinishStop(w)

LEMMA MailStepsCover ==
    ASSUME TypeOK, [Next]_vars
    PROVE  MailSteps
<1> USE DEF TypeOK, MainTypeOK
<1>1. ASSUME NEW r \in Runtimes, (\E e \in MainEvents : Send(r, e)) \/ Stop(r) \/ Post(r)
      PROVE  MailSteps
  BY <1>1, SentEvents DEF Send, Post, statusVars, stopVars, MailSteps
<1>2. CASE Deliver
  BY <1>2 DEF Deliver, mailboxVars, statusVars, stopVars, MailSteps
<1>3. ASSUME NEW l \in loading, LoadSound(l) PROVE MailSteps
  <2>1. l.rt \in Runtimes /\ Answer("sound", l.host, l.ref) \in Sent
    BY SentEvents DEF Request
  <2> QED BY <1>3, <2>1 DEF LoadSound, stopVars, MailSteps
<1>4. ASSUME NEW c \in inFlight, CommandEnds(c) PROVE MailSteps
  <2>1. c.rt \in Runtimes /\ Answer("command", c.host, c.ref) \in Sent
    BY SentEvents DEF Request
  <2> QED BY <1>4, <2>1 DEF CommandEnds, stopVars, MailSteps
<1>5. ASSUME NEW w \in Workers, TakeTask(w) PROVE MailSteps
  BY <1>5 DEF TakeTask, mailboxVars, statusVars, stopVars, MailSteps
<1>6. ASSUME NEW w \in Workers, Drain(w) PROVE MailSteps
  <2>1. CASE NotifyNext(w)
    <3>1. PICK x \in notifying[w] : Enqueue(x.token, Answer("watch", x.vm, x.ref))
      BY <2>1 DEF NotifyNext
    <3>2. x.token \in Runtimes /\ Answer("watch", x.vm, x.ref) \in Sent
      BY SentEvents DEF StoreTypeOK, Watcher
    <3> QED BY <2>1, <3>1, <3>2 DEF NotifyNext, stopVars, MailSteps
  <2>2. CASE DrainPops(w) \/ Finish(w) \/ FinishStop(w)
    BY <2>2 DEF MailSteps
  <2>3. CASE DrainEnds(w) \/ Teardown(w) \/ OnExit(w) \/ ResetHost(w) \/ Build(w)
             \/ Ignore(w) \/ Run(w) \/ Health(w) \/ LoadUpdate(w)
    BY <2>3 DEF DrainEnds, Teardown, OnExit, ResetHost, Build, Ignore, Run, Health,
       LoadUpdate, mailboxVars, statusVars, stopVars, MailSteps
  <2> QED BY <1>6, <2>1, <2>2, <2>3 DEF Drain
<1>7. CASE UNCHANGED vars
  BY <1>7 DEF vars, mailboxVars, statusVars, stopVars, MailSteps
<1> QED
  BY <1>1, <1>2, <1>3, <1>4, <1>5, <1>6, <1>7 DEF Next

LEMMA MailStep ==
    ASSUME TypeOK, MailInv, [Next]_vars
    PROVE  MailInv'
<1> USE DEF TypeOK, MailboxTypeOK, WorkerTypeOK
<1>0. \A r \in Runtimes : queue[r] \in Seq(Event) /\ Len(queue[r]) \in Nat
  BY LenProperties
<1> DEFINE Good(x, g) == /\ x.gen = g /\ x.kind # "none"
                         /\ x.droppable \/ x.coalesce => x.kind = "call"
           StillGood(r) == \A i \in 1..Len(queue'[r]) : Good(queue'[r][i], generation'[r])
<1>1. \A r \in Runtimes : queue'[r] = queue[r] /\ generation'[r] = generation[r] => StillGood(r)
  BY DEF MailInv
<1>k. (\A r \in Runtimes : StillGood(r)) => MailInv'
  BY DEF MailInv
<1>2. ASSUME NEW r \in Runtimes, NEW e \in Sent, Enqueue(r, e) PROVE MailInv'
  <2>1. e \in Event /\ \A g \in Nat : Good([e EXCEPT !.gen = g], g)
    BY DEF Sent, NotStop, Event
  <2>2. /\ OthersKeep(r)
        /\ \/ Unchanged(r)
           \/ \E i \in 1..Len(queue[r]) : Replaced(r, e, i) \/ Evicted(r, e, i)
           \/ Restarted(r, e)
           \/ Appended(r, e)
    BY <1>2, <2>1, EnqueueEffect
  <2>3. generation[r] \in Nat /\ queue[r] \in Seq(Event) /\ Len(queue[r]) \in Nat
    BY <1>0
  <2>4. \A i \in 1..Len(queue[r]) : Good(queue[r][i], generation[r])
    BY DEF MailInv
  <2>5. \A g \in Nat : [e EXCEPT !.gen = g] \in Event
    BY <2>1 DEF Event
  <2> HIDE DEF Good
  <2>6. StillGood(r)
    <3>1. CASE Unchanged(r)
      BY <1>1, <3>1 DEF Unchanged
    <3>2. CASE \E i \in 1..Len(queue[r]) : Replaced(r, e, i)
      BY <2>1, <2>3, <2>4, <3>2 DEF Replaced
    <3>3. CASE \E i \in 1..Len(queue[r]) : Evicted(r, e, i)
      <4>1. PICK i \in 1..Len(queue[r]) : Evicted(r, e, i)
        BY <3>3
      <4> DEFINE s == RemoveAt(queue[r], i)
                 x == [e EXCEPT !.gen = generation[r]]
      <4>2. s \in Seq(Event) /\ Len(s) = Len(queue[r]) - 1
        BY <2>3, RemoveAtSeq, RemoveAtElements
      <4>3. \A j \in 1..(Len(queue[r]) - 1) : s[j] = IF j < i THEN queue[r][j] ELSE queue[r][j + 1]
        BY <2>3, RemoveAtElements
      <4>4. queue'[r] = Append(s, x) /\ generation'[r] = generation[r]
        BY <4>1 DEF Evicted
      <4>5. x \in Event /\ Good(x, generation[r])
        BY <2>1, <2>3, <2>5
      <4> HIDE DEF s, x
      <4>6. /\ Len(queue'[r]) = Len(queue[r])
            /\ queue'[r][Len(queue[r])] = x
            /\ \A j \in 1..(Len(queue[r]) - 1) : queue'[r][j] = s[j]
        BY <2>3, <4>2, <4>4, <4>5, AppendProperties
      <4>7. \A j \in 1..(Len(queue[r]) - 1) : Good(queue'[r][j], generation[r])
        BY <2>3, <2>4, <4>3, <4>6
      <4>8. \A j \in 1..Len(queue'[r]) : j = Len(queue[r]) \/ j \in 1..(Len(queue[r]) - 1)
        BY <2>3, <4>6
      <4> QED BY <4>4, <4>5, <4>6, <4>7, <4>8
    <3>4. CASE Restarted(r, e)
      BY <2>1, <2>3, <3>4 DEF Restarted
    <3>5. CASE Appended(r, e)
      <4> DEFINE x == [e EXCEPT !.gen = generation[r]]
      <4>1. queue'[r] = Append(queue[r], x) /\ generation'[r] = generation[r]
        BY <3>5 DEF Appended
      <4>2. x \in Event /\ Good(x, generation[r])
        BY <2>1, <2>3, <2>5
      <4> HIDE DEF x
      <4>3. /\ Len(queue'[r]) = Len(queue[r]) + 1
            /\ queue'[r][Len(queue[r]) + 1] = x
            /\ \A j \in 1..Len(queue[r]) : queue'[r][j] = queue[r][j]
        BY <2>3, <4>1, <4>2, AppendProperties
      <4> QED BY <2>3, <2>4, <4>1, <4>2, <4>3
    <3> QED BY <2>2, <3>1, <3>2, <3>3, <3>4, <3>5
  <2>7. \A q \in Runtimes \ {r} : StillGood(q)
    BY <1>1, <2>2 DEF OthersKeep
  <2> HIDE DEF StillGood
  <2> QED BY <1>k, <2>6, <2>7
<1>3. ASSUME NEW r \in Runtimes, Stop(r) PROVE MailInv'
  <2>1. /\ queue' = [queue EXCEPT ![r] = <<[Plain("stop") EXCEPT !.gen = generation[r]]>>]
        /\ generation' = generation
    BY <1>3 DEF Stop
  <2>2. StillGood(r)
    <3> DEFINE x == [Plain("stop") EXCEPT !.gen = generation[r]]
    <3>1. Good(x, generation[r])
      BY DEF Plain
    <3>2. queue'[r] = <<x>> /\ generation'[r] = generation[r]
      BY <2>1
    <3> HIDE DEF x, Good
    <3> QED BY <3>1, <3>2
  <2>3. \A q \in Runtimes \ {r} : StillGood(q)
    BY <1>1, <2>1
  <2> HIDE DEF StillGood
  <2> QED BY <1>k, <2>2, <2>3
<1>4. ASSUME NEW w \in Workers, DrainPops(w) \/ FinishStop(w) PROVE MailInv'
  <2> DEFINE r == job[w]
  <2>1. r \in Runtimes /\ generation' = generation
    BY <1>4 DEF DrainPops, FinishStop, statusVars
  <2>2. \A q \in Runtimes \ {r} : StillGood(q)
    BY <1>1, <1>4, <2>1 DEF DrainPops, FinishStop
  <2>3. CASE DrainPops(w)
    <3>1. queue[r] # <<>> /\ queue'[r] = Tail(queue[r])
      BY <2>1, <2>3 DEF DrainPops
    <3>2. /\ Len(queue'[r]) = Len(queue[r]) - 1
          /\ \A i \in 1..Len(queue'[r]) : queue'[r][i] = queue[r][i + 1]
      BY <1>0, <2>1, <3>1, HeadTailProperties
    <3>3. \A i \in 1..Len(queue[r]) : Good(queue[r][i], generation[r])
      BY <2>1 DEF MailInv
    <3>4. Len(queue[r]) \in Nat
      BY <1>0, <2>1, LenProperties
    <3>5. \A i \in 1..Len(queue'[r]) : i + 1 \in 1..Len(queue[r])
      BY <3>2, <3>4
    <3>6. generation'[r] = generation[r]
      BY <2>1
    <3>7. StillGood(r)
      <4> HIDE DEF Good, r
      <4> QED BY <3>2, <3>3, <3>5, <3>6
    <3> HIDE DEF StillGood
    <3> QED BY <1>k, <2>2, <3>7
  <2>4. CASE FinishStop(w)
    <3>1. queue'[r] = <<>>
      BY <2>1, <2>4 DEF FinishStop
    <3>2. StillGood(r)
      BY <3>1
    <3> HIDE DEF StillGood
    <3> QED BY <1>k, <2>2, <3>2
  <2> QED BY <1>4, <2>3, <2>4
<1>5. CASE UNCHANGED <<queue, generation>>
  BY <1>5 DEF MailInv
<1>6. \A w \in Workers : Finish(w) => UNCHANGED <<queue, generation>>
  BY DEF Finish
<1> QED
  BY <1>2, <1>3, <1>4, <1>5, <1>6, MailStepsCover DEF MailSteps

-----------------------------------------------------------------------------
(* Where a worker is within its event *)

\* A worker between events has none; one that tears a VM down has a load or a stop,
\* which goes no further than the teardown if it is a stop; and sounds to load are
\* left behind by calls only.
AtEvent(w) ==
    /\ pc[w] \in {"idle", "drain"} => event[w] = NoEvent
    /\ pc[w] \notin {"idle", "drain"} => event[w].kind # "none"
    /\ pc[w] \in {"idle", "drain", "script", "exit", "build"} => out[w] = NoOut
    /\ pc[w] = "finish" /\ event[w].kind = "stop" => out[w] = NoOut
    /\ pc[w] \in {"exit", "reset"} => event[w].kind \in {"load", "stop"}
    /\ pc[w] \in {"build", "update"} => event[w].kind = "load"
    /\ event[w].kind = "stop" => pc[w] \in {"script", "exit", "notify", "reset", "finish"}
    /\ event[w].kind = "stop" /\ pc[w] = "notify" => out[w].stage = "exit"
    /\ out[w].stage = "exit" => pc[w] \in {"notify", "reset"}
                                /\ event[w].kind \in {"load", "stop"}
    /\ out[w].stage \in {"load", "update"} => event[w].kind = "load"
    /\ ~out[w].called => out[w].loads = {}

PathInv == \A w \in Workers : AtEvent(w)

LEMMA PathStep ==
    ASSUME TypeOK, MailInv, PathInv, [Next]_vars
    PROVE  PathInv'
<1> USE DEF TypeOK, WorkerTypeOK
<1>0. \A v \in Workers : event'[v] = event[v] /\ pc'[v] = pc[v] /\ out'[v] = out[v]
                         => AtEvent(v)'
  BY DEF PathInv, AtEvent
<1>1. CASE UNCHANGED <<event, pc, out>>
  BY <1>0, <1>1 DEF PathInv
<1>2. ASSUME NEW w \in Workers, TakeTask(w) PROVE PathInv'
  <2>1. \A v \in Workers \ {w} : AtEvent(v)'
    BY <1>0, <1>2 DEF TakeTask
  <2>2. AtEvent(w)
    BY DEF PathInv
  <2>3. AtEvent(w)'
    BY <1>2, <2>2 DEF TakeTask, AtEvent, NoOut, NoEvent, Plain
  <2> QED BY <2>1, <2>3 DEF PathInv
<1>3. ASSUME NEW w \in Workers, Drain(w) PROVE PathInv'
  <2>1. \A v \in Workers \ {w} : AtEvent(v)'
    <3>1. CASE OnExit(w) \/ Run(w) \/ Build(w) \/ LoadUpdate(w)
      <4>1. event' = event /\ \A v \in Workers \ {w} : pc'[v] = pc[v] /\ out'[v] = out[v]
        BY <3>1 DEF OnExit, Run, Build, LoadUpdate, VmCall
      <4> QED BY <1>0, <4>1
    <3>2. CASE ~(OnExit(w) \/ Run(w) \/ Build(w) \/ LoadUpdate(w))
      <4>1. \A v \in Workers \ {w} : event'[v] = event[v] /\ pc'[v] = pc[v] /\ out'[v] = out[v]
        BY <1>3, <3>2 DEF Drain, DrainEnds, DrainPops, Teardown, ResetHost, Ignore,
           NotifyNext, Health, Finish, FinishStop
      <4> QED BY <1>0, <4>1
    <3> QED BY <3>1, <3>2
  <2>2. AtEvent(w)
    BY DEF PathInv
  <2>3. job[w] \in Runtimes
    BY <1>3 DEF Drain, DrainEnds, DrainPops, Teardown, OnExit, ResetHost, Build, Ignore, Run,
       NotifyNext, Health, LoadUpdate, Finish, FinishStop
  <2>4. CASE DrainEnds(w) \/ Finish(w) \/ FinishStop(w)
    <3>1. NoEvent.kind = "none" /\ NoOut.stage = "event" /\ NoOut.loads = {}
      BY DEF NoEvent, Plain, NoOut
    <3>2. event'[w] = NoEvent /\ out'[w] = NoOut /\ pc'[w] \in {"idle", "drain"}
      BY <2>2, <2>4 DEF DrainEnds, Finish, FinishStop, AtEvent
    <3>3. AtEvent(w)'
      BY <3>1, <3>2 DEF AtEvent
    <3> QED BY <2>1, <3>3 DEF PathInv
  <2>5. CASE DrainPops(w)
    <3> DEFINE q == queue[job[w]]
    <3>1. pc[w] = "drain" /\ q # <<>>
          /\ event'[w] = Head(q) /\ pc'[w] = "script" /\ out' = out
      BY <2>5 DEF DrainPops
    <3>2. 1 \in 1..Len(q) /\ Head(q) = q[1]
      BY <2>3, <3>1, HeadTailProperties, EmptySeq, LenProperties DEF MailboxTypeOK
    <3>3. Head(q).kind # "none"
      BY <2>3, <3>2 DEF MailInv
    <3> HIDE DEF q
    <3>4. out[w] = NoOut /\ NoOut.stage = "event" /\ NoOut.loads = {}
      BY <2>2, <3>1 DEF AtEvent, NoOut
    <3>5. AtEvent(w)'
      BY <3>1, <3>3, <3>4 DEF AtEvent
    <3> QED BY <2>1, <3>5 DEF PathInv
  <2>6. CASE Teardown(w)
    <3>1. AtEvent(w)'
      BY <2>2, <2>6 DEF Teardown, AtEvent, NoOut
    <3> QED BY <2>1, <3>1 DEF PathInv
  <2>7. CASE ResetHost(w)
    <3>1. AtEvent(w)'
      BY <2>2, <2>7 DEF ResetHost, AtEvent, NoOut
    <3> QED BY <2>1, <3>1 DEF PathInv
  <2>8. CASE Ignore(w)
    <3>1. AtEvent(w)'
      BY <2>2, <2>8 DEF Ignore, AtEvent, NoOut
    <3> QED BY <2>1, <3>1 DEF PathInv
  <2>9. CASE NotifyNext(w)
    <3>1. event' = event /\ out' = out /\ pc[w] = "notify"
      BY <2>9 DEF NotifyNext
    <3>2. pc'[w] \in {AfterCall(out[w].stage), "notify"}
      BY <2>9 DEF NotifyNext
    <3>3. AtEvent(w)'
      BY <2>2, <3>1, <3>2 DEF AtEvent, AfterCall
    <3> QED BY <2>1, <3>3 DEF PathInv
  <2>10. CASE Health(w)
    <3>1. /\ event' = event /\ out' = out /\ pc[w] = "health"
          /\ pc'[w] = "finish" \/ (pc'[w] = "update" /\ out[w].stage = "load")
      BY <2>10 DEF Health
    <3>2. AtEvent(w)'
      BY <2>2, <3>1 DEF AtEvent
    <3> QED BY <2>1, <3>2 DEF PathInv
  <2>11. CASE OnExit(w) \/ Run(w) \/ Build(w) \/ LoadUpdate(w)
    <3>1. CASE LoadUpdate(w) /\ pc' = [pc EXCEPT ![w] = "finish"] /\ out' = out
      <4>1. event' = event /\ pc[w] = "update" /\ pc'[w] = "finish"
        BY <3>1 DEF LoadUpdate
      <4>2. AtEvent(w)'
        BY <2>2, <3>1, <4>1 DEF AtEvent
      <4> QED BY <2>1, <4>2 DEF PathInv
    <3>2. \A h \in Nat, cbs \in SUBSET Callback, stage \in Stages : VmCall(w, h, cbs, stage) =>
             /\ pc'[w] \in {AfterCall(stage), "notify"}
             /\ out'[w].stage = stage /\ out'[w].called
      <4> SUFFICES ASSUME NEW h \in Nat, NEW cbs \in SUBSET Callback, NEW stage \in Stages,
                          VmCall(w, h, cbs, stage)
                   PROVE  /\ pc'[w] \in {AfterCall(stage), "notify"}
                          /\ out'[w].stage = stage /\ out'[w].called
        OBVIOUS
      <4> HIDE DEF TypeOK, WorkerTypeOK
      <4>1. CallEnds(w, stage)
        BY <2>3, VmCallEffect
      <4> QED BY <4>1 DEF CallEnds, TypeOK, WorkerTypeOK
    <3>3. hostId[job[w]] \in Nat /\ nextHostId \in Nat /\ callbacks[job[w]] \in SUBSET Callback
      BY <2>3 DEF HostTypeOK
    <3>4. CASE OnExit(w)
      <4>1. VmCall(w, hostId[job[w]], callbacks[job[w]], "exit") /\ event' = event
            /\ pc[w] = "exit"
        BY <3>4 DEF OnExit
      <4>2. pc'[w] \in {"reset", "notify"} /\ out'[w].stage = "exit" /\ out'[w].called
        BY <3>2, <3>3, <4>1 DEF AfterCall, Stages
      <4>3. AtEvent(w)'
        BY <2>2, <4>1, <4>2 DEF AtEvent
      <4> QED BY <2>1, <4>3 DEF PathInv
    <3>5. CASE Build(w)
      <4>1. VmCall(w, nextHostId, {}, "load") /\ event' = event /\ pc[w] = "build"
        BY <3>5 DEF Build
      <4>2. pc'[w] \in {"health", "notify"} /\ out'[w].stage = "load" /\ out'[w].called
        BY <3>2, <3>3, <4>1 DEF AfterCall, Stages
      <4>3. AtEvent(w)'
        BY <2>2, <4>1, <4>2 DEF AtEvent
      <4> QED BY <2>1, <4>3 DEF PathInv
    <3>6. CASE Run(w)
      <4>1. PICK cbs \in SUBSET Callback : VmCall(w, hostId[job[w]], cbs, "event")
        BY <3>3, <3>6 DEF Run
      <4>2. event' = event /\ pc[w] = "script" /\ event[w].kind \notin {"load", "stop"}
        BY <3>6 DEF Run
      <4>3. pc'[w] \in {"health", "notify"} /\ out'[w].stage = "event" /\ out'[w].called
        BY <3>2, <3>3, <4>1 DEF AfterCall, Stages
      <4>4. AtEvent(w)'
        BY <2>2, <4>2, <4>3 DEF AtEvent
      <4> QED BY <2>1, <4>4 DEF PathInv
    <3>7. CASE LoadUpdate(w) /\ VmCall(w, hostId[job[w]], callbacks[job[w]], "update")
      <4>1. event' = event /\ pc[w] = "update"
        BY <3>7 DEF LoadUpdate
      <4>2. pc'[w] \in {"health", "notify"} /\ out'[w].stage = "update" /\ out'[w].called
        BY <3>2, <3>3, <3>7 DEF AfterCall, Stages
      <4>3. AtEvent(w)'
        BY <2>2, <4>1, <4>2 DEF AtEvent
      <4> QED BY <2>1, <4>3 DEF PathInv
    <3>8. LoadUpdate(w) => (pc' = [pc EXCEPT ![w] = "finish"] /\ out' = out)
                           \/ VmCall(w, hostId[job[w]], callbacks[job[w]], "update")
      BY DEF LoadUpdate
    <3> QED BY <2>11, <3>1, <3>4, <3>5, <3>6, <3>7, <3>8
  <2> QED
    BY <1>3, <2>4, <2>5, <2>6, <2>7, <2>8, <2>9, <2>10, <2>11 DEF Drain
<1>4. ASSUME NEW r \in Runtimes, (\E e \in MainEvents : Send(r, e)) \/ Stop(r) \/ Post(r)
      PROVE  UNCHANGED <<event, pc, out>>
  BY <1>4 DEF Send, Stop, Post, workerVars
<1>5. Deliver \/ (\E l \in loading : LoadSound(l)) \/ (\E c \in inFlight : CommandEnds(c))
      => UNCHANGED <<event, pc, out>>
  BY DEF Deliver, LoadSound, CommandEnds, workerVars
<1>6. UNCHANGED vars => UNCHANGED <<event, pc, out>>
  BY DEF vars, workerVars
<1> QED
  BY <1>1, <1>2, <1>3, <1>4, <1>5, <1>6 DEF Next

\* Only the worker itself begins and ends an event: while it has one, every other
\* step leaves it with its event and its runtime.
EventsStay ==
    \A v \in Workers : event[v].kind # "none" => job'[v] = job[v] /\ event'[v] = event[v]

LEMMA EventsStayCover ==
    ASSUME TypeOK, PathInv, [Next]_vars
    PROVE  EventsStay \/ \E w \in Workers : DrainPops(w) \/ Finish(w) \/ FinishStop(w)
<1> USE DEF TypeOK, WorkerTypeOK
<1>0. NoEvent.kind = "none"
  BY DEF NoEvent, Plain
<1>1. ASSUME NEW r \in Runtimes, (\E e \in MainEvents : Send(r, e)) \/ Stop(r) \/ Post(r)
      PROVE  EventsStay
  BY <1>1 DEF Send, Stop, Post, workerVars, EventsStay
<1>2. Deliver \/ (\E l \in loading : LoadSound(l)) \/ (\E c \in inFlight : CommandEnds(c))
      => EventsStay
  BY DEF Deliver, LoadSound, CommandEnds, workerVars, EventsStay
<1>3. ASSUME NEW w \in Workers, TakeTask(w) \/ DrainEnds(w) PROVE EventsStay
  <2>1. event[w] = NoEvent /\ event' = event
        /\ \A v \in Workers \ {w} : job'[v] = job[v]
    BY <1>3 DEF TakeTask, DrainEnds, PathInv, AtEvent
  <2> QED BY <1>0, <2>1 DEF EventsStay
<1>4. ASSUME NEW w \in Workers, Teardown(w) \/ OnExit(w) \/ ResetHost(w) \/ Build(w)
             \/ Ignore(w) \/ Run(w) \/ NotifyNext(w) \/ Health(w) \/ LoadUpdate(w)
      PROVE  EventsStay
  BY <1>4 DEF Teardown, OnExit, ResetHost, Build, Ignore, Run, NotifyNext, Health, LoadUpdate,
     EventsStay
<1>5. UNCHANGED vars => EventsStay
  BY DEF vars, workerVars, EventsStay
<1> QED
  BY <1>1, <1>2, <1>3, <1>4, <1>5 DEF Next, Drain

-----------------------------------------------------------------------------
(* The update flags *)

\* A mailbox has at most one update, and has one exactly while the flag says so.
QueuedFlag(r) ==
    /\ \A i \in 1..Len(queue[r]) : queue[r][i].kind = "update" => updates[r].queued
    /\ updates[r].queued => \E i \in 1..Len(queue[r]) : queue[r][i].kind = "update"
    /\ \A i, j \in 1..Len(queue[r]) :
          queue[r][i].kind = "update" /\ queue[r][j].kind = "update" => i = j

RunningFlag(r) ==
    updates[r].running => \E w \in Workers : job[w] = r /\ event[w].kind = "update"

FlagInv ==
    \A r \in Runtimes :
        QueuedFlag(r) /\ RunningFlag(r) /\ (stopping[r] => ~updates[r].queued)

\* enqueue() keeps the flags, and never says that an update is running.
LEMMA EnqueueFlags ==
    ASSUME TypeOK, NEW r \in Runtimes, NEW e \in Event, Enqueue(r, e),
           \A q \in Runtimes : QueuedFlag(q)
    PROVE  \A q \in Runtimes : /\ QueuedFlag(q)'
                               /\ updates'[q].running => updates[q].running
<1> DEFINE Done(q) == QueuedFlag(q)' /\ (updates'[q].running => updates[q].running)
<1>1. /\ OthersKeep(r)
      /\ \/ Unchanged(r)
         \/ \E i \in 1..Len(queue[r]) : Replaced(r, e, i) \/ Evicted(r, e, i)
         \/ Restarted(r, e)
         \/ Appended(r, e)
  BY EnqueueEffect
<1>2. queue[r] \in Seq(Event) /\ Len(queue[r]) \in Nat /\ generation[r] \in Nat
      /\ \A g \in Nat : [e EXCEPT !.gen = g] \in Event /\ [e EXCEPT !.gen = g].kind = e.kind
  BY LenProperties DEF TypeOK, MailboxTypeOK, Event
<1>3. \A q \in Runtimes \ {r} : Done(q)
  BY <1>1 DEF OthersKeep, QueuedFlag
<1>4. QueuedFlag(r)
  OBVIOUS
<1>5. CASE Unchanged(r)
  <2>1. Done(r)
    BY <1>4, <1>5 DEF Unchanged, QueuedFlag
  <2> QED BY <1>3, <2>1
<1>6. CASE \E i \in 1..Len(queue[r]) : Replaced(r, e, i)
  <2>1. PICK i \in 1..Len(queue[r]) : Replaced(r, e, i)
    BY <1>6
  <2> DEFINE x == [e EXCEPT !.gen = generation[r]]
  <2>2. x.kind = "call" /\ queue[r][i].kind = "call" /\ updates'[r] = updates[r]
        /\ queue'[r] = [queue[r] EXCEPT ![i] = x]
    BY <1>2, <2>1 DEF Replaced
  <2> HIDE DEF x
  <2>3. /\ Len(queue'[r]) = Len(queue[r])
        /\ \A j \in 1..Len(queue[r]) : queue'[r][j].kind = queue[r][j].kind
    BY <1>2, <2>2
  <2>4. Done(r)
    BY <1>4, <2>2, <2>3 DEF QueuedFlag
  <2> QED BY <1>3, <2>4
<1>7. CASE \E i \in 1..Len(queue[r]) : Evicted(r, e, i)
  <2>1. PICK i \in 1..Len(queue[r]) : Evicted(r, e, i)
    BY <1>7
  <2> DEFINE s == RemoveAt(queue[r], i)
             x == [e EXCEPT !.gen = generation[r]]
             n == Len(queue[r])
  <2>2. s \in Seq(Event) /\ Len(s) = n - 1
        /\ \A j \in 1..(n - 1) : s[j] = IF j < i THEN queue[r][j] ELSE queue[r][j + 1]
    BY <1>2, RemoveAtSeq, RemoveAtElements
  <2>3. x \in Event /\ x.kind # "update" /\ queue'[r] = Append(s, x)
        /\ updates'[r].running = updates[r].running
        /\ (updates'[r].queued <=> updates[r].queued /\ queue[r][i].kind # "update")
    BY <1>2, <2>1 DEF Evicted
  <2>n. n \in Nat /\ i \in 1..n
    BY <1>2
  <2>o. /\ \A j \in 1..n : queue[r][j].kind = "update" => updates[r].queued
        /\ updates[r].queued => \E j \in 1..n : queue[r][j].kind = "update"
        /\ \A j, k \in 1..n : queue[r][j].kind = "update" /\ queue[r][k].kind = "update" => j = k
    BY <1>4 DEF QueuedFlag
  <2> HIDE DEF s, x
  <2>4. /\ Len(queue'[r]) = n
        /\ queue'[r][n] = x
        /\ \A j \in 1..(n - 1) : queue'[r][j] = s[j]
    <3>1. Len(Append(s, x)) = Len(s) + 1 /\ Append(s, x)[Len(s) + 1] = x
          /\ \A j \in 1..Len(s) : Append(s, x)[j] = s[j]
      BY <2>2, <2>3, AppendProperties
    <3> HIDE DEF n
    <3> QED BY <2>2, <2>3, <2>n, <3>1
  <2>5. \A j \in 1..n : queue'[r][j].kind = "update" =>
           /\ j < n
           /\ IF j < i THEN queue[r][j].kind = "update" ELSE queue[r][j + 1].kind = "update"
    <3> HIDE DEF n
    <3>1. ASSUME NEW j \in 1..n, queue'[r][j].kind = "update"
          PROVE  j \in 1..(n - 1)
      BY <2>3, <2>4, <2>n, <3>1
    <3> QED BY <2>2, <2>4, <2>n, <3>1
  <2>6. \A j \in 1..n : queue[r][j].kind = "update" /\ j # i =>
           \E k \in 1..n : queue'[r][k].kind = "update"
    <3> SUFFICES ASSUME NEW j \in 1..n, queue[r][j].kind = "update", j # i
                 PROVE  \E k \in 1..n : queue'[r][k].kind = "update"
      OBVIOUS
    <3> HIDE DEF n
    <3>1. CASE j < i
      <4>1. j \in 1..(n - 1)
        BY <2>n, <3>1
      <4> QED BY <2>2, <2>4, <2>n, <3>1, <4>1
    <3>2. CASE i < j
      <4>1. j - 1 \in 1..(n - 1) /\ ~(j - 1 < i) /\ (j - 1) + 1 = j /\ j - 1 \in 1..n
        BY <2>n, <3>2
      <4>2. queue'[r][j - 1] = queue[r][j]
        BY <2>2, <2>4, <4>1
      <4> QED BY <4>1, <4>2
    <3> QED BY <2>n, <3>1, <3>2
  <2> HIDE DEF n
  <2>7. \A j \in 1..n : queue'[r][j].kind = "update" => updates'[r].queued
    <3> SUFFICES ASSUME NEW j \in 1..n, queue'[r][j].kind = "update"
                 PROVE  updates'[r].queued
      OBVIOUS
    <3>1. PICK k \in 1..n : queue[r][k].kind = "update" /\ k # i
      <4>1. CASE j < i
        BY <2>5, <2>n, <4>1
      <4>2. CASE ~(j < i)
        BY <2>5, <2>n, <4>2
      <4> QED BY <4>1, <4>2
    <3> QED BY <2>3, <2>n, <2>o, <3>1
  <2>8. updates'[r].queued => \E k \in 1..n : queue'[r][k].kind = "update"
    BY <2>3, <2>6, <2>o
  <2>9. \A j, k \in 1..n :
           queue'[r][j].kind = "update" /\ queue'[r][k].kind = "update" => j = k
    <3> SUFFICES ASSUME NEW j \in 1..n, NEW k \in 1..n,
                        queue'[r][j].kind = "update", queue'[r][k].kind = "update"
                 PROVE  j = k
      OBVIOUS
    <3> DEFINE J == IF j < i THEN j ELSE j + 1
               K == IF k < i THEN k ELSE k + 1
    <3>1. J \in 1..n /\ K \in 1..n /\ queue[r][J].kind = "update" /\ queue[r][K].kind = "update"
      BY <2>5, <2>n
    <3>2. J = K
      BY <2>o, <3>1
    <3> QED BY <2>n, <3>2
  <2>10. Done(r)
    BY <2>3, <2>4, <2>7, <2>8, <2>9 DEF QueuedFlag
  <2> QED BY <1>3, <2>10
<1>8. CASE Restarted(r, e)
  <2> DEFINE x == [e EXCEPT !.gen = generation[r] + 1]
  <2>1. x.kind = "load" /\ queue'[r] = <<x>> /\ updates'[r] = NoUpdate
    BY <1>2, <1>8 DEF Restarted
  <2> HIDE DEF x
  <2>2. Len(queue'[r]) = 1 /\ queue'[r][1] = x /\ ~updates'[r].queued /\ ~updates'[r].running
    BY <2>1 DEF NoUpdate
  <2>3. Done(r)
    BY <2>1, <2>2 DEF QueuedFlag
  <2> QED BY <1>3, <2>3
<1>9. CASE Appended(r, e)
  <2> DEFINE x == [e EXCEPT !.gen = generation[r]]
             n == Len(queue[r])
  <2>1. x \in Event /\ x.kind = e.kind /\ queue'[r] = Append(queue[r], x)
    BY <1>2, <1>9 DEF Appended
  <2> HIDE DEF x
  <2>2. /\ Len(queue'[r]) = n + 1 /\ queue'[r][n + 1] = x
        /\ \A j \in 1..n : queue'[r][j] = queue[r][j]
    BY <1>2, <2>1, AppendProperties
  <2>3. /\ updates'[r].running = updates[r].running
        /\ e.kind = "update" => ~updates[r].queued /\ updates'[r].queued
        /\ e.kind # "update" => updates'[r].queued = updates[r].queued
    BY <1>9 DEF Appended
  <2>4. n \in Nat
    BY <1>2
  <2>5. /\ \A j \in 1..n : queue[r][j].kind = "update" => updates[r].queued
        /\ updates[r].queued => \E j \in 1..n : queue[r][j].kind = "update"
        /\ \A j, k \in 1..n : queue[r][j].kind = "update" /\ queue[r][k].kind = "update" => j = k
    BY <1>4 DEF QueuedFlag
  <2> HIDE DEF n
  <2>6. /\ \A j \in 1..(n + 1) : j = n + 1 \/ j \in 1..n
        /\ \A j \in 1..n : j \in 1..(n + 1)
        /\ n + 1 \in 1..(n + 1)
    BY <2>4
  <2>7. CASE e.kind = "update"
    <3>1. \A j \in 1..n : queue[r][j].kind # "update"
      BY <2>3, <2>5, <2>7
    <3>2. \A j \in 1..(n + 1) : queue'[r][j].kind = "update" <=> j = n + 1
      BY <2>1, <2>2, <2>4, <2>6, <2>7, <3>1
    <3>3. Done(r)
      BY <2>2, <2>3, <2>6, <2>7, <3>2 DEF QueuedFlag
    <3> QED BY <1>3, <3>3
  <2>8. CASE e.kind # "update"
    <3>1. \A j \in 1..(n + 1) : queue'[r][j].kind = "update"
                                <=> j \in 1..n /\ queue[r][j].kind = "update"
      BY <2>1, <2>2, <2>4, <2>6, <2>8
    <3>2. Done(r)
      BY <2>2, <2>3, <2>5, <2>6, <2>8, <3>1 DEF QueuedFlag
    <3> QED BY <1>3, <3>2
  <2> QED BY <2>7, <2>8
<1> QED BY <1>1, <1>5, <1>6, <1>7, <1>8, <1>9

LEMMA FlagStep ==
    ASSUME TypeOK, TaskInv, PathInv, FlagInv, [Next]_vars
    PROVE  FlagInv'
<1> USE DEF TypeOK, MailboxTypeOK, WorkerTypeOK
<1>0. \A r \in Runtimes :
         QueuedFlag(r) /\ RunningFlag(r) /\ (stopping[r] => ~updates[r].queued)
  BY DEF FlagInv
<1>1. ASSUME NEW q \in Runtimes, EventsStay, updates'[q].running => updates[q].running
      PROVE  RunningFlag(q)'
  <2> SUFFICES ASSUME updates'[q].running
               PROVE  \E w \in Workers : job'[w] = q /\ event'[w].kind = "update"
    BY DEF RunningFlag
  <2>1. PICK w \in Workers : job[w] = q /\ event[w].kind = "update"
    BY <1>0, <1>1 DEF RunningFlag
  <2>2. job'[w] = q /\ event'[w].kind = "update"
    BY <1>1, <2>1 DEF EventsStay
  <2> QED BY <2>2
<1>2. CASE EventsStay /\ UNCHANGED <<queue, generation, updates, stopping>>
  BY <1>0, <1>1, <1>2 DEF FlagInv, QueuedFlag
<1>3. ASSUME EventsStay, NEW r \in Runtimes, NEW e \in Sent, Enqueue(r, e),
             stopping' = stopping
      PROVE  FlagInv'
  <2>1. \A q \in Runtimes : QueuedFlag(q)' /\ (updates'[q].running => updates[q].running)
    BY <1>0, <1>3, EnqueueFlags DEF Sent, NotStop
  <2>2. ASSUME NEW q \in Runtimes, stopping[q] PROVE ~updates'[q].queued
    <3>1. CASE q = r
      <4>1. UNCHANGED mailboxVars
        BY <1>3, <2>2, <3>1 DEF Enqueue, Refuse, Supersede, AbsorbUpdate, DropWhenFull, Admit,
           Admissible, Open
      <4> QED BY <1>0, <2>2, <4>1 DEF mailboxVars, statusVars
    <3>2. CASE q # r
      <4>1. e \in Event
        BY DEF Sent, NotStop
      <4>2. updates'[q] = updates[q]
        BY <1>3, <3>2, <4>1, EnqueueEffect DEF OthersKeep
      <4> QED BY <1>0, <2>2, <4>2
    <3> QED BY <3>1, <3>2
  <2> QED BY <1>1, <1>3, <2>1, <2>2 DEF FlagInv
<1>4. ASSUME EventsStay, NEW r \in Runtimes, Stop(r) PROVE FlagInv'
  <2> DEFINE x == [Plain("stop") EXCEPT !.gen = generation[r]]
  <2>1. queue' = [queue EXCEPT ![r] = <<x>>] /\ x.kind = "stop"
        /\ updates' = [updates EXCEPT ![r] = [updates[r] EXCEPT !.queued = FALSE]]
    BY <1>4 DEF Stop, Plain
  <2>2. updates[r] \in [queued : BOOLEAN, running : BOOLEAN, accepted : BOOLEAN]
    OBVIOUS
  <2> HIDE DEF x
  <2>3. ~updates'[r].queued /\ updates'[r].running = updates[r].running
        /\ Len(queue'[r]) = 1 /\ queue'[r][1] = x
    BY <2>1, <2>2
  <2>4. QueuedFlag(r)'
    BY <2>1, <2>3 DEF QueuedFlag
  <2>5. \A q \in Runtimes \ {r} : QueuedFlag(q)' /\ updates'[q].running = updates[q].running
    BY <1>0, <2>1 DEF QueuedFlag
  <2>6. \A q \in Runtimes \ {r} : stopping'[q] = stopping[q]
    BY <1>4 DEF Stop
  <2>7. \A q \in Runtimes : RunningFlag(q)'
    BY <1>1, <1>4, <2>3, <2>5
  <2>8. \A q \in Runtimes \ {r} : updates'[q] = updates[q]
    BY <2>1
  <2> QED BY <1>0, <2>3, <2>4, <2>5, <2>6, <2>7, <2>8 DEF FlagInv
<1>5. ASSUME NEW w \in Workers, DrainPops(w) \/ Finish(w) \/ FinishStop(w) PROVE FlagInv'
  <2>0. PICK r \in Runtimes : r = job[w]
    BY <1>5 DEF DrainPops, Finish, FinishStop
  <2>1. r \in Runtimes /\ job[w] = r /\ stopping' = stopping
    BY <1>5, <2>0 DEF DrainPops, Finish, FinishStop, stopVars
  <2>2. \A v \in Workers : job[v] = r => v = w
    BY <2>1, ScriptConstants DEF TaskInv, OneTask, SingleDrain
  <2>3. \A v \in Workers \ {w} : job'[v] = job[v] /\ event'[v] = event[v]
    BY <1>5 DEF DrainPops, Finish, FinishStop
  <2>4. \A q \in Runtimes \ {r} : queue'[q] = queue[q] /\ updates'[q] = updates[q]
    BY <1>5, <2>1 DEF DrainPops, Finish, FinishStop, statusVars
  <2>5. updates[r] \in [queued : BOOLEAN, running : BOOLEAN, accepted : BOOLEAN]
    BY <2>1
  <2>6. ASSUME NEW q \in Runtimes \ {r} 
        PROVE  QueuedFlag(q)' /\ RunningFlag(q)' /\ (stopping'[q] => ~updates'[q].queued)
    <3>0. /\ QueuedFlag(q) /\ RunningFlag(q)
          /\ queue'[q] = queue[q] /\ updates'[q] = updates[q]
      BY <1>0, <2>4
    <3>1. QueuedFlag(q)'
      BY <3>0 DEF QueuedFlag
    <3>2. \A v \in Workers : job[v] = q => v # w
      BY <2>1
    <3>3. RunningFlag(q)'
      BY <2>3, <3>0, <3>2 DEF RunningFlag
    <3> QED BY <1>0, <2>1, <2>4, <3>1, <3>3
  <2>7. CASE DrainPops(w)
    <3> DEFINE e == Head(queue[r])
               u == e.kind = "update"
    <3>1. /\ pc[w] = "drain" /\ queue[r] # <<>>
          /\ queue'[r] = Tail(queue[r])
          /\ event'[w] = e /\ job'[w] = r
      BY <2>1, <2>7 DEF DrainPops
    <3>2. updates' = [updates EXCEPT ![r].queued = @ /\ ~u, ![r].running = @ \/ u]
      BY <2>1, <2>7 DEF DrainPops
    <3>3. ~updates[r].running
      <4>1. event[w].kind # "update"
        BY <3>1 DEF PathInv, AtEvent, NoEvent, Plain
      <4> QED BY <1>0, <2>1, <2>2, <4>1 DEF RunningFlag
    <3> HIDE DEF u
    <3>4. (updates'[r].queued <=> updates[r].queued /\ ~u)
          /\ (updates'[r].running <=> updates[r].running \/ u)
      <4>1. (updates[r].queued /\ ~u) \in BOOLEAN /\ (updates[r].running \/ u) \in BOOLEAN
        BY Zenon
      <4>2. updates'[r] = [updates[r] EXCEPT !.queued = updates[r].queued /\ ~u,
                                             !.running = updates[r].running \/ u]
        BY <2>1, <2>5, <3>2
      <4> QED BY <2>5, <4>1, <4>2
    <3>5. RunningFlag(r)'
      BY <3>1, <3>3, <3>4 DEF RunningFlag, u
    <3>6. /\ Len(queue[r]) \in Nat \ {0} /\ Len(queue'[r]) = Len(queue[r]) - 1
          /\ e = queue[r][1]
          /\ \A i \in 1..Len(queue'[r]) : queue'[r][i] = queue[r][i + 1]
      <4>1. queue[r] \in Seq(Event)
        BY <2>1
      <4> QED BY <3>1, <4>1, HeadTailProperties, EmptySeq, LenProperties
    <3>7. QueuedFlag(r)
      BY <1>0, <2>1
    <3> HIDE DEF e
    <3>8. QueuedFlag(r)'
      <4>1. \A i \in 1..Len(queue'[r]) : i + 1 \in 1..Len(queue[r]) /\ i + 1 # 1
        BY <3>6
      <4>2. 1 \in 1..Len(queue[r])
        BY <3>6
      <4>3. \A i \in 1..Len(queue[r]) : i = 1 \/ (i - 1 \in 1..Len(queue'[r])
                                                  /\ queue'[r][i - 1] = queue[r][i])
        BY <3>6
      <4>4. \A i \in 1..Len(queue'[r]) : queue'[r][i].kind = "update" => updates'[r].queued
        <5> SUFFICES ASSUME NEW i \in 1..Len(queue'[r]), queue'[r][i].kind = "update"
                     PROVE  updates'[r].queued
          OBVIOUS
        <5>1. queue[r][i + 1].kind = "update" /\ i + 1 \in 1..Len(queue[r]) /\ i + 1 # 1
          BY <3>6, <4>1
        <5>2. updates[r].queued /\ queue[r][1].kind # "update"
          BY <3>7, <4>2, <5>1 DEF QueuedFlag
        <5>3. ~u
          BY <3>6, <5>2 DEF u
        <5> QED BY <3>4, <5>2, <5>3
      <4>5. updates'[r].queued => \E i \in 1..Len(queue'[r]) : queue'[r][i].kind = "update"
        <5> SUFFICES ASSUME updates'[r].queued
                     PROVE  \E i \in 1..Len(queue'[r]) : queue'[r][i].kind = "update"
          OBVIOUS
        <5>1. PICK i \in 1..Len(queue[r]) : queue[r][i].kind = "update"
          BY <3>4, <3>7 DEF QueuedFlag
        <5>2. i # 1
          BY <3>4, <3>6, <5>1 DEF u
        <5>3. i - 1 \in 1..Len(queue'[r]) /\ queue'[r][i - 1].kind = "update"
          BY <4>3, <5>1, <5>2
        <5> QED BY <5>3
      <4>6. \A i, j \in 1..Len(queue'[r]) :
               queue'[r][i].kind = "update" /\ queue'[r][j].kind = "update" => i = j
        <5> SUFFICES ASSUME NEW i \in 1..Len(queue'[r]), NEW j \in 1..Len(queue'[r]),
                            queue'[r][i].kind = "update", queue'[r][j].kind = "update"
                     PROVE  i = j
          OBVIOUS
        <5>1. i + 1 = j + 1
          BY <3>6, <3>7, <4>1 DEF QueuedFlag
        <5> QED BY <3>6, <5>1
      <4> QED BY <4>4, <4>5, <4>6 DEF QueuedFlag
    <3>9. stopping'[r] => ~updates'[r].queued
      BY <1>0, <2>1, <3>4
    <3> QED BY <2>6, <3>5, <3>8, <3>9 DEF FlagInv
  <2>8. CASE Finish(w)
    <3>1. queue' = queue
          /\ updates' = [updates EXCEPT ![r].running = @ /\ event[w].kind # "update"]
      BY <2>1, <2>8 DEF Finish
    <3> DEFINE b == event[w].kind # "update"
    <3>2. updates' = [updates EXCEPT ![r] = [updates[r] EXCEPT !.running = updates[r].running /\ b]]
      BY <2>1, <2>5, <3>1
    <3>3. updates[r].running => ~b
      BY <1>0, <2>1, <2>2 DEF RunningFlag
    <3> HIDE DEF b
    <3>4. (updates[r].running /\ b) \in BOOLEAN /\ ~(updates[r].running /\ b)
      BY <3>3, Zenon
    <3>5. updates'[r].queued = updates[r].queued /\ ~updates'[r].running
      BY <2>1, <2>5, <3>2, <3>4
    <3>6. QueuedFlag(r)' /\ RunningFlag(r)' /\ (stopping'[r] => ~updates'[r].queued)
      BY <1>0, <2>1, <3>1, <3>5 DEF QueuedFlag, RunningFlag
    <3> QED BY <2>6, <3>6 DEF FlagInv
  <2>9. CASE FinishStop(w)
    <3>1. event[w].kind = "stop" /\ queue'[r] = <<>> /\ updates' = updates
      BY <2>1, <2>9 DEF FinishStop, statusVars
    <3>2. ~updates[r].running
      BY <1>0, <2>1, <2>2, <3>1 DEF RunningFlag
    <3>3. ~updates[r].queued
      BY <1>0, <2>1, <3>1 DEF TaskInv, StopOnlyClosed
    <3>4. QueuedFlag(r)' /\ RunningFlag(r)' /\ (stopping'[r] => ~updates'[r].queued)
      BY <3>1, <3>2, <3>3 DEF QueuedFlag, RunningFlag
    <3> QED BY <2>6, <3>4 DEF FlagInv
  <2> QED BY <1>5, <2>7, <2>8, <2>9
<1>6. CASE EventsStay /\ MailSteps
  <2>1. UNCHANGED <<queue, generation, updates, stopping>>
        \/ (\E r \in Runtimes, e \in Sent : Enqueue(r, e) /\ stopping' = stopping)
        \/ (\E r \in Runtimes : Stop(r))
        \/ (\E w \in Workers : DrainPops(w) \/ Finish(w) \/ FinishStop(w))
    BY <1>6 DEF MailSteps
  <2> QED BY <1>2, <1>3, <1>4, <1>5, <1>6, <2>1
<1> QED
  BY <1>5, <1>6, EventsStayCover, MailStepsCover

-----------------------------------------------------------------------------
(* The VM a runtime has, its callbacks and its watchers *)

NoWatchers(r) == \A x \in watchers : x.token # r

\* A runtime without a VM has no callbacks, a stopped one has nothing left and no
\* task, and the watchers of a runtime are those of the VM it has.
OfVm(r) ==
    /\ hostId[r] = NoHost => callbacks[r] = {}
    /\ hostId[r] < nextHostId
    /\ stopped[r] => ~scheduled[r] /\ hostId[r] = NoHost /\ NoWatchers(r)
    /\ \A x \in watchers : x.token = r => x.vm = hostId[r]

\* After the teardown there is no VM until the worker has built the next one.
AtVm(w) ==
    /\ pc[w] = "build" \/ (pc[w] = "finish" /\ event[w].kind = "stop") =>
          hostId[job[w]] = NoHost /\ NoWatchers(job[w])
    /\ pc[w] \in {"exit", "notify", "health", "update"} => hostId[job[w]] # NoHost

VmInv == (\A r \in Runtimes : OfVm(r)) /\ (\A w \in Workers : AtVm(w))

\* A step of the worker of r changes nothing of the VMs of other runtimes.
LEMMA VmLocal ==
    ASSUME TypeOK, TaskInv, VmInv, NEW w \in Workers, NEW r \in Runtimes, job[w] = r,
           \A q \in Runtimes \ {r} :
              /\ hostId'[q] = hostId[q] /\ callbacks'[q] = callbacks[q]
              /\ stopped'[q] = stopped[q]
              /\ stopped[q] => scheduled'[q] = scheduled[q],
           nextHostId' \in Nat, nextHostId =< nextHostId',
           \A x \in watchers' : x \in watchers \/ x.token = r,
           \A v \in Workers \ {w} : pc'[v] = pc[v] /\ event'[v] = event[v] /\ job'[v] = job[v],
           OfVm(r)', AtVm(w)'
    PROVE  VmInv'
<1>1. ASSUME NEW q \in Runtimes, q # r PROVE OfVm(q)'
  <2>1. OfVm(q)
    BY DEF VmInv
  <2>2. /\ hostId'[q] = hostId[q] /\ callbacks'[q] = callbacks[q]
        /\ stopped'[q] = stopped[q]
        /\ stopped[q] => scheduled'[q] = scheduled[q]
    BY <1>1
  <2>3. hostId[q] < nextHostId'
    BY <2>1 DEF OfVm, TypeOK, HostTypeOK
  <2>4. \A x \in watchers' : x.token = q => x \in watchers
    BY <1>1
  <2> QED BY <2>1, <2>2, <2>3, <2>4 DEF OfVm, NoWatchers
<1>2. ASSUME NEW v \in Workers, v # w PROVE AtVm(v)'
  <2>1. AtVm(v) /\ pc'[v] = pc[v] /\ event'[v] = event[v] /\ job'[v] = job[v]
    BY <1>2 DEF VmInv
  <2>2. CASE pc[v] = "idle"
    BY <2>1, <2>2 DEF AtVm
  <2>3. CASE pc[v] # "idle"
    <3>1. job[v] \in Runtimes /\ job[v] # r
      BY <1>2, <2>3, ScriptConstants DEF TypeOK, WorkerTypeOK, TaskInv, OneTask, SingleDrain
    <3>2. hostId'[job[v]] = hostId[job[v]]
      BY <3>1
    <3>3. NoWatchers(job[v]) => \A x \in watchers' : x.token # job[v]
      BY <3>1 DEF NoWatchers
    <3> QED BY <2>1, <3>2, <3>3 DEF AtVm, NoWatchers
  <2> QED BY <2>2, <2>3
<1> QED
  BY <1>1, <1>2 DEF VmInv

\* enqueue() schedules no runtime that has stopped.
LEMMA EnqueueOpen ==
    ASSUME TypeOK, NEW r \in Runtimes, NEW e, Enqueue(r, e)
    PROVE  \A q \in Runtimes : stopped[q] => scheduled'[q] = scheduled[q]
<1>1. CASE Admit(r, e)
  <2>1. ~stopped[r] /\ Schedule(r)
    BY <1>1 DEF Admit, Admissible, Open
  <2> QED BY <2>1 DEF Schedule, TypeOK, MailboxTypeOK
<1>2. CASE ~Admit(r, e)
  <2>1. scheduled' = scheduled
    BY <1>2 DEF Enqueue, Refuse, Supersede, AbsorbUpdate, DropWhenFull, mailboxVars, taskVars
  <2> QED BY <2>1
<1> QED BY <1>1, <1>2

LEMMA VmStep ==
    ASSUME TypeOK, TaskInv, PathInv, VmInv, [Next]_vars
    PROVE  VmInv'
<1> USE DEF WorkerTypeOK, HostTypeOK
<1>t. MailboxTypeOK /\ StopTypeOK /\ HostTypeOK /\ WorkerTypeOK /\ MainTypeOK /\ StoreTypeOK
  BY DEF TypeOK
<1>0. ASSUME UNCHANGED <<hostId, callbacks, nextHostId, stopped, watchers, pc, event, job>>,
             \A q \in Runtimes : stopped[q] => scheduled'[q] = scheduled[q]
      PROVE  VmInv'
  <2>1. \A r \in Runtimes : OfVm(r)'
    BY <1>0 DEF VmInv, OfVm, NoWatchers
  <2>2. \A w \in Workers : AtVm(w)'
    BY <1>0 DEF VmInv, AtVm, NoWatchers
  <2> QED BY <2>1, <2>2 DEF VmInv
<1>1. ASSUME NEW r \in Runtimes, NEW e \in MainEvents, Send(r, e) PROVE VmInv'
  BY <1>0, <1>1, EnqueueOpen DEF Send, stopVars, hostVars, workerVars, storeVars
<1>2. ASSUME NEW r \in Runtimes, Stop(r) PROVE VmInv'
  <2>1. ~stopped[r]
    BY <1>2 DEF Stop, TaskInv, Awake
  <2>2. \A q \in Runtimes : stopped[q] => scheduled'[q] = scheduled[q]
    BY <1>2, <1>t, <2>1 DEF Stop, Schedule, MailboxTypeOK
  <2> QED BY <1>0, <1>2, <2>2 DEF Stop, hostVars, workerVars, storeVars
<1>3. ASSUME NEW r \in Runtimes, Post(r) PROVE VmInv'
  BY <1>0, <1>3 DEF Post, stopVars, hostVars, workerVars, storeVars
<1>4. CASE Deliver
  BY <1>0, <1>4 DEF Deliver, mailboxVars, taskVars, stopVars, hostVars, workerVars, storeVars
<1>5. ASSUME NEW l \in loading, LoadSound(l) PROVE VmInv'
  <2>1. l.rt \in Runtimes
    BY <1>t DEF MainTypeOK, Request
  <2> QED BY <1>0, <1>5, <2>1, EnqueueOpen DEF LoadSound, stopVars, hostVars, workerVars, storeVars
<1>6. ASSUME NEW c \in inFlight, CommandEnds(c) PROVE VmInv'
  <2>1. c.rt \in Runtimes
    BY <1>t DEF MainTypeOK, Request
  <2> QED BY <1>0, <1>6, <2>1, EnqueueOpen DEF CommandEnds, stopVars, hostVars, workerVars, storeVars
<1>7. ASSUME NEW w \in Workers, TakeTask(w) PROVE VmInv'
  <2>1. UNCHANGED <<hostId, callbacks, nextHostId, stopped, scheduled, watchers, event>>
    BY <1>7 DEF TakeTask, mailboxVars, taskVars, stopVars, hostVars, storeVars
  <2>2. pc'[w] = "drain" /\ \A v \in Workers \ {w} : pc'[v] = pc[v] /\ job'[v] = job[v]
    BY <1>7, <1>t DEF TakeTask
  <2>3. \A r \in Runtimes : OfVm(r)'
    BY <2>1 DEF VmInv, OfVm, NoWatchers
  <2>4. \A v \in Workers : AtVm(v)'
    BY <2>1, <2>2 DEF VmInv, AtVm, NoWatchers
  <2> QED BY <2>3, <2>4 DEF VmInv
<1>8. ASSUME NEW w \in Workers, Drain(w) PROVE VmInv'
  <2>0. PICK r \in Runtimes : job[w] = r
    BY <1>8, <1>t DEF Drain, DrainEnds, DrainPops, Teardown, OnExit, ResetHost, Build, Ignore,
       Run, NotifyNext, Health, LoadUpdate, Finish, FinishStop
  <2>1. OfVm(r) /\ AtVm(w) /\ AtEvent(w)
    BY DEF VmInv, PathInv
  <2>2. scheduled[r] /\ ~stopped[r]
    BY <2>0, <2>1 DEF TaskInv, OneTask, Busy, OfVm
  <2>3. nextHostId \in Nat /\ nextHostId # NoHost /\ hostId[r] \in Nat
        /\ callbacks[r] \in SUBSET Callback
    BY <1>t
  <2>4. CASE DrainEnds(w) \/ DrainPops(w) \/ Ignore(w) \/ Health(w) \/ Finish(w)
    <3>1. UNCHANGED <<hostId, callbacks, nextHostId, stopped, watchers>>
          /\ \A q \in Runtimes \ {r} : scheduled'[q] = scheduled[q]
      <4>1. CASE DrainEnds(w)
        BY <2>0, <4>1 DEF DrainEnds, stopVars, hostVars, storeVars
      <4>2. CASE DrainPops(w) \/ Ignore(w) \/ Health(w) \/ Finish(w)
        BY <4>2 DEF DrainPops, Ignore, Health, Finish, stopVars, hostVars, storeVars,
           mailboxVars, taskVars
      <4> QED BY <2>4, <4>1, <4>2
    <3>2. \A v \in Workers \ {w} : pc'[v] = pc[v] /\ event'[v] = event[v] /\ job'[v] = job[v]
      BY <1>t, <2>4 DEF DrainEnds, DrainPops, Ignore, Health, Finish
    <3>3. OfVm(r)'
      BY <2>1, <2>2, <3>1 DEF OfVm, NoWatchers
    <3>4. AtVm(w)'
      <4>1. CASE DrainEnds(w) \/ DrainPops(w) \/ Finish(w)
        <5>1. pc'[w] \in {"idle", "script", "drain"}
          BY <1>t, <4>1 DEF DrainEnds, DrainPops, Finish
        <5> QED BY <5>1 DEF AtVm
      <4>2. CASE Ignore(w)
        <5>1. pc'[w] = "finish" /\ event'[w] = event[w] /\ event[w].kind # "stop"
          BY <1>t, <4>2 DEF Ignore
        <5> QED BY <5>1 DEF AtVm
      <4>3. CASE Health(w)
        <5>1. pc[w] = "health" /\ pc'[w] \in {"update", "finish"}
              /\ event'[w] = event[w] /\ job' = job
          BY <1>t, <4>3 DEF Health
        <5>2. event[w].kind # "stop"
          BY <2>1, <5>1 DEF AtEvent
        <5> QED BY <2>1, <3>1, <5>1, <5>2 DEF AtVm
      <4> QED BY <2>4, <4>1, <4>2, <4>3
    <3> QED BY <2>0, <2>3, <3>1, <3>2, <3>3, <3>4, VmLocal
  <2>5. CASE NotifyNext(w)
    <3>1. PICK x \in notifying[w] : Enqueue(x.token, Answer("watch", x.vm, x.ref))
      BY <2>5 DEF NotifyNext
    <3>2. x.token \in Runtimes
      BY <1>t DEF StoreTypeOK, Watcher
    <3>3. \A q \in Runtimes : stopped[q] => scheduled'[q] = scheduled[q]
      BY <3>1, <3>2, EnqueueOpen
    <3>4. UNCHANGED <<hostId, callbacks, nextHostId, stopped, watchers, event, job>>
      BY <2>5 DEF NotifyNext, stopVars, hostVars, NotifyWatcher
    <3>5. pc[w] = "notify" /\ pc'[w] \in {"notify", "reset", "health"}
          /\ \A v \in Workers \ {w} : pc'[v] = pc[v]
      BY <1>t, <2>5 DEF NotifyNext, AfterCall
    <3>6. OfVm(r)'
      BY <2>1, <2>2, <3>4 DEF OfVm, NoWatchers
    <3>7. AtVm(w)'
      BY <2>1, <3>4, <3>5 DEF AtVm
    <3> QED BY <2>0, <2>3, <3>3, <3>4, <3>5, <3>6, <3>7, VmLocal
  <2>6. CASE Teardown(w)
    <3>1. UNCHANGED <<hostId, callbacks, nextHostId, stopped, scheduled, event, job>>
          /\ watchers' = {x \in watchers : x.token # r}
      BY <2>0, <2>6 DEF Teardown, RemoveWatchers, mailboxVars, taskVars, stopVars, hostVars
    <3>2. pc'[w] = "reset" \/ (pc'[w] = "exit" /\ hostId[r] # NoHost)
      BY <1>t, <2>0, <2>6 DEF Teardown
    <3>3. \A v \in Workers \ {w} : pc'[v] = pc[v]
      BY <1>t, <2>6 DEF Teardown
    <3>4. OfVm(r)'
      BY <2>1, <2>2, <3>1 DEF OfVm
    <3>5. AtVm(w)'
      BY <2>0, <3>1, <3>2 DEF AtVm
    <3> QED BY <2>0, <2>3, <3>1, <3>3, <3>4, <3>5, VmLocal
  <2>7. CASE ResetHost(w)
    <3>1. /\ UNCHANGED <<nextHostId, stopped, scheduled, event, job>>
          /\ watchers' = {x \in watchers : x.token # r}
          /\ hostId' = [hostId EXCEPT ![r] = NoHost]
          /\ callbacks' = [callbacks EXCEPT ![r] = {}]
      BY <2>0, <2>7 DEF ResetHost, RemoveWatchers, mailboxVars, taskVars, stopVars
    <3>2. pc'[w] \in {"build", "finish"} /\ \A v \in Workers \ {w} : pc'[v] = pc[v]
      BY <1>t, <2>7 DEF ResetHost
    <3>3. hostId'[r] = NoHost /\ callbacks'[r] = {} /\ \A x \in watchers' : x.token # r
      BY <1>t, <3>1
    <3>4. OfVm(r)'
      BY <2>2, <2>3, <3>1, <3>3 DEF OfVm, NoHost
    <3>5. AtVm(w)'
      BY <2>0, <3>1, <3>2, <3>3 DEF AtVm, NoWatchers
    <3>6. \A q \in Runtimes \ {r} : hostId'[q] = hostId[q] /\ callbacks'[q] = callbacks[q]
      BY <1>t, <3>1
    <3> QED BY <2>0, <2>3, <3>1, <3>2, <3>4, <3>5, <3>6, VmLocal
  <2>8. CASE FinishStop(w)
    <3>1. /\ UNCHANGED <<hostId, callbacks, nextHostId, watchers>>
          /\ stopped' = [stopped EXCEPT ![r] = TRUE]
          /\ scheduled' = [scheduled EXCEPT ![r] = FALSE]
          /\ pc'[w] = "idle"
          /\ \A v \in Workers \ {w} : pc'[v] = pc[v] /\ event'[v] = event[v] /\ job'[v] = job[v]
      BY <1>t, <2>0, <2>8 DEF FinishStop, hostVars, storeVars
    <3>2. hostId[r] = NoHost /\ NoWatchers(r)
      BY <2>0, <2>1, <2>8 DEF FinishStop, AtVm
    <3>3. OfVm(r)'
      BY <1>t, <2>1, <3>1, <3>2 DEF OfVm, NoWatchers, MailboxTypeOK
    <3>4. AtVm(w)'
      BY <3>1 DEF AtVm
    <3>5. \A q \in Runtimes \ {r} : stopped'[q] = stopped[q] /\ scheduled'[q] = scheduled[q]
      BY <3>1
    <3>6. /\ \A q \in Runtimes \ {r} :
                /\ hostId'[q] = hostId[q] /\ callbacks'[q] = callbacks[q]
                /\ stopped'[q] = stopped[q]
                /\ stopped[q] => scheduled'[q] = scheduled[q]
          /\ nextHostId' \in Nat /\ nextHostId =< nextHostId'
          /\ \A x \in watchers' : x \in watchers \/ x.token = r
      BY <2>3, <3>1, <3>5
    <3> QED BY <2>0, <3>1, <3>3, <3>4, <3>6, VmLocal
  <2>9. ASSUME NEW h \in Nat, h # NoHost, NEW cbs \in SUBSET Callback, NEW stage \in Stages,
               VmCall(w, h, cbs, stage), hostId' = [hostId EXCEPT ![r] = h],
               nextHostId' \in Nat, nextHostId =< nextHostId', h < nextHostId',
               \A x \in watchers : x.token = r => x.vm = h,
               stage = "exit" => pc[w] = "exit",
               UNCHANGED <<stopped, scheduled, event, job>>
        PROVE  VmInv'
    <3>1. CallEnds(w, stage) /\ CallRegisters(w, h, cbs)
      BY <2>0, <2>9, VmCallEffect
    <3>2. pc'[w] \in {"reset", "health", "notify"}
          /\ \A v \in Workers \ {w} : pc'[v] = pc[v]
      BY <1>t, <3>1 DEF CallEnds, AfterCall
    <3>3. \A q \in Runtimes \ {r} : callbacks'[q] = callbacks[q]
      BY <1>t, <2>0, <3>1 DEF CallRegisters
    <3>4. \A x \in watchers' : x \in watchers \/ (x.token = r /\ x.vm = h)
      BY <2>0, <3>1 DEF CallRegisters
    <3>5. hostId'[r] = h /\ \A q \in Runtimes \ {r} : hostId'[q] = hostId[q]
      BY <1>t, <2>9
    <3>6. OfVm(r)'
      BY <2>2, <2>9, <3>4, <3>5 DEF OfVm
    <3>7. AtVm(w)'
      BY <2>0, <2>9, <3>2, <3>5 DEF AtVm
    <3> QED BY <2>0, <2>9, <3>2, <3>3, <3>4, <3>5, <3>6, <3>7, VmLocal
  <2>10. CASE Build(w)
    <3>1. /\ VmCall(w, nextHostId, {}, "load") /\ hostId' = [hostId EXCEPT ![r] = nextHostId]
          /\ nextHostId' = nextHostId + 1 /\ pc[w] = "build"
          /\ UNCHANGED <<stopped, scheduled, event, job>>
      BY <2>0, <2>10 DEF Build, mailboxVars, taskVars, stopVars
    <3>2. NoWatchers(r)
      BY <2>0, <2>1, <3>1 DEF AtVm
    <3>3. nextHostId' \in Nat /\ nextHostId =< nextHostId' /\ nextHostId < nextHostId'
      BY <2>3, <3>1
    <3>4. "load" \in Stages /\ {} \in SUBSET Callback
          /\ \A x \in watchers : x.token = r => x.vm = nextHostId
      BY <3>2 DEF Stages, NoWatchers
    <3> DEFINE none == {}
    <3> HIDE DEF none
    <3>5. none \in SUBSET Callback /\ VmCall(w, nextHostId, none, "load")
      BY <3>1 DEF none
    <3> QED BY <2>3, <2>9, <3>1, <3>3, <3>4, <3>5
  <2>11. ASSUME NEW cbs \in SUBSET Callback, NEW stage \in Stages, hostId[r] # NoHost,
                VmCall(w, hostId[r], cbs, stage), hostId' = hostId, nextHostId' = nextHostId,
                stage = "exit" => pc[w] = "exit",
                UNCHANGED <<stopped, scheduled, event, job>>
         PROVE  VmInv'
    <3>1. hostId' = [hostId EXCEPT ![r] = hostId[r]]
      BY <1>t, <2>11
    <3>2. hostId[r] < nextHostId /\ \A x \in watchers : x.token = r => x.vm = hostId[r]
      BY <2>1 DEF OfVm
    <3>3. nextHostId' \in Nat /\ nextHostId =< nextHostId' /\ hostId[r] < nextHostId'
      BY <2>3, <2>11, <3>2
    <3> QED BY <2>3, <2>9, <2>11, <3>1, <3>2, <3>3
  <2>12. CASE OnExit(w) \/ Run(w)
    <3>1. UNCHANGED <<hostId, nextHostId, stopped, scheduled, event, job>>
      BY <2>12 DEF OnExit, Run, mailboxVars, taskVars, stopVars
    <3>2. hostId[r] # NoHost
      BY <2>0, <2>1, <2>12 DEF OnExit, Run, AtVm
    <3>3. (VmCall(w, hostId[r], callbacks[r], "exit") /\ pc[w] = "exit")
          \/ \E cbs \in SUBSET Callback : VmCall(w, hostId[r], cbs, "event")
      BY <2>0, <2>3, <2>12 DEF OnExit, Run
    <3> QED BY <2>3, <2>11, <3>1, <3>2, <3>3 DEF Stages
  <2>13. CASE LoadUpdate(w)
    <3>1. UNCHANGED <<hostId, nextHostId, stopped, scheduled, event, job>> /\ pc[w] = "update"
      BY <2>13 DEF LoadUpdate, mailboxVars, taskVars, stopVars
    <3>2. hostId[r] # NoHost
      BY <2>0, <2>1, <3>1 DEF AtVm
    <3>3. CASE VmCall(w, hostId[r], callbacks[r], "update")
      BY <2>3, <2>11, <3>1, <3>2, <3>3 DEF Stages
    <3>4. CASE pc' = [pc EXCEPT ![w] = "finish"] /\ UNCHANGED <<callbacks, storeVars>>
      <4>1. event[w].kind # "stop"
        BY <2>1, <3>1 DEF AtEvent
      <4>2. pc'[w] = "finish" /\ \A v \in Workers \ {w} : pc'[v] = pc[v]
        BY <1>t, <3>4
      <4>3. OfVm(r)'
        BY <2>1, <3>1, <3>4 DEF OfVm, NoWatchers, storeVars
      <4>4. AtVm(w)'
        BY <3>1, <4>1, <4>2 DEF AtVm
      <4> QED BY <2>0, <2>3, <3>1, <3>4, <4>2, <4>3, <4>4, VmLocal DEF storeVars
    <3> QED BY <2>0, <2>13, <3>3, <3>4 DEF LoadUpdate
  <2> QED
    BY <1>8, <2>4, <2>5, <2>6, <2>7, <2>8, <2>10, <2>12, <2>13 DEF Drain
<1>9. CASE UNCHANGED vars
  BY <1>0, <1>9 DEF vars, mailboxVars, taskVars, stopVars, hostVars, workerVars, storeVars
<1> QED
  BY <1>1, <1>2, <1>3, <1>4, <1>5, <1>6, <1>7, <1>8, <1>9 DEF Next

-----------------------------------------------------------------------------

HostInv == MailInv /\ PathInv /\ FlagInv /\ VmInv

LEMMA HostInit == Init => HostInv
<1> SUFFICES ASSUME Init PROVE HostInv
  OBVIOUS
<1>1. MailInv
  BY DEF Init, MailInv
<1>2. PathInv
  BY DEF Init, PathInv, AtEvent, NoOut, NoEvent, Plain
<1>3. FlagInv
  BY DEF Init, FlagInv, QueuedFlag, RunningFlag, NoUpdate
<1>4. VmInv
  BY DEF Init, VmInv, OfVm, AtVm, NoWatchers, NoHost, StoreInit
<1> QED BY <1>1, <1>2, <1>3, <1>4 DEF HostInv

THEOREM HostInvariant == Spec => []HostInv
<1>1. TypeOK /\ TaskInv /\ HostInv /\ [Next]_vars => HostInv'
  BY MailStep, PathStep, FlagStep, VmStep DEF HostInv
<1> QED
  BY <1>1, HostInit, TypeCorrect, TaskInvariant, PTL DEF Spec

\* The flags that make enqueue() absorb an update say what the mailbox and the
\* worker really hold, through every eviction, reload and stop.
THEOREM FlagsTrue == Spec => []UpdateFlags
<1>1. TypeOK /\ HostInv => UpdateFlags
  <2> SUFFICES ASSUME TypeOK, FlagInv, NEW r \in Runtimes
               PROVE  /\ updates[r].queued <=> \E i \in DOMAIN queue[r] :
                                                  queue[r][i].kind = "update"
                      /\ updates[r].running => \E w \in Workers :
                                                  job[w] = r /\ event[w].kind = "update"
    BY DEF HostInv, UpdateFlags
  <2>1. DOMAIN queue[r] = 1..Len(queue[r])
    BY LenProperties DEF TypeOK, MailboxTypeOK
  <2> QED BY <2>1 DEF FlagInv, QueuedFlag, RunningFlag
<1> QED
  BY <1>1, HostInvariant, TypeCorrect, PTL

\* teardownHost() leaves no watcher of an earlier VM behind.
THEOREM WatchersAreOfTheVm == Spec => []WatchersOfLiveVm
<1>1. TypeOK /\ HostInv => WatchersOfLiveVm
  BY DEF TypeOK, StoreTypeOK, Watcher, HostInv, VmInv, OfVm, WatchersOfLiveVm
<1> QED
  BY <1>1, HostInvariant, TypeCorrect, PTL

\* When stop() may return, no worker, VM or watcher of the runtime is left.
THEOREM NothingAfterStop == Spec => []StoppedIsQuiet
<1>1. TaskInv /\ HostInv => StoppedIsQuiet
  <2> SUFFICES ASSUME TaskInv, VmInv, NEW r \in Runtimes, stopped[r]
               PROVE  /\ hostId[r] = NoHost
                      /\ \A w \in Workers : job[w] # r
                      /\ \A x \in watchers : x.token # r
    BY DEF HostInv, StoppedIsQuiet
  <2>1. OfVm(r)
    BY DEF VmInv
  <2>2. ~Busy(r)
    BY <2>1 DEF OfVm, TaskInv, OneTask
  <2> QED BY <2>1, <2>2 DEF OfVm, NoWatchers, Busy
<1> QED
  BY <1>1, HostInvariant, TaskInvariant, PTL

-----------------------------------------------------------------------------
(* The end of a VM, and the slots of its sound loads *)

Pending(r) == \E i \in 1..Len(queue[r]) : queue[r][i].kind \in {"load", "stop"}

Tearing(w) ==
    /\ event[w].kind \in {"load", "stop"}
    /\ pc[w] \in {"script", "exit", "reset"} \/ out[w].stage = "exit"

\* The VM of r is about to be torn down: Doomed of the specification.
Ending(r) == Pending(r) \/ \E w \in Workers : job[w] = r /\ Tearing(w)

SoundQueued(r, ref, host) ==
    \E i \in 1..Len(queue[r]) :
        queue[r][i].kind = "sound" /\ queue[r][i].ref = ref /\ queue[r][i].host = host

\* enqueue() takes neither a load, nor the stop, nor a sound completion out of a
\* mailbox, but for a load; and only a load begins a new generation.
LEMMA EnqueueKeeps ==
    ASSUME TypeOK, MailInv, NEW r \in Runtimes, NEW e \in Sent, Enqueue(r, e)
    PROVE  \A q \in Runtimes :
              /\ Pending(q) => Pending(q)'
              /\ generation'[q] = generation[q] \/ Pending(q)'
              /\ \A ref, host : SoundQueued(q, ref, host) =>
                    SoundQueued(q, ref, host)' \/ Pending(q)'
<1> DEFINE Stay == {"load", "stop", "sound"}
           StillThere == \A i \in 1..Len(queue[r]) : queue[r][i].kind \in Stay =>
                      \E j \in 1..Len(queue'[r]) : queue'[r][j] = queue[r][i]
<1>1. e \in Event /\ queue[r] \in Seq(Event) /\ Len(queue[r]) \in Nat /\ generation[r] \in Nat
      /\ \A g \in Nat : [e EXCEPT !.gen = g] \in Event /\ [e EXCEPT !.gen = g].kind = e.kind
  BY LenProperties DEF TypeOK, MailboxTypeOK, Event, Sent, NotStop
<1>2. /\ OthersKeep(r)
      /\ \/ Unchanged(r)
         \/ \E i \in 1..Len(queue[r]) : Replaced(r, e, i) \/ Evicted(r, e, i)
         \/ Restarted(r, e)
         \/ Appended(r, e)
  BY <1>1, EnqueueEffect
<1>3. ASSUME NEW q \in Runtimes, q # r
      PROVE  /\ Pending(q) => Pending(q)'
             /\ generation'[q] = generation[q] \/ Pending(q)'
             /\ \A ref, host : SoundQueued(q, ref, host) =>
                   SoundQueued(q, ref, host)' \/ Pending(q)'
  <2>1. queue'[q] = queue[q] /\ generation'[q] = generation[q]
    BY <1>2, <1>3 DEF OthersKeep
  <2> QED BY <2>1 DEF Pending, SoundQueued
<1>4. ASSUME StillThere, generation'[r] = generation[r]
      PROVE  /\ Pending(r) => Pending(r)'
             /\ generation'[r] = generation[r] \/ Pending(r)'
             /\ \A ref, host : SoundQueued(r, ref, host) =>
                   SoundQueued(r, ref, host)' \/ Pending(r)'
  BY <1>4 DEF Pending, SoundQueued
<1>5. ASSUME Pending(r)'
      PROVE  /\ Pending(r) => Pending(r)'
             /\ generation'[r] = generation[r] \/ Pending(r)'
             /\ \A ref, host : SoundQueued(r, ref, host) =>
                   SoundQueued(r, ref, host)' \/ Pending(r)'
  BY <1>5
<1>6. Unchanged(r) => StillThere /\ generation'[r] = generation[r]
  BY DEF Unchanged
<1>7. ASSUME NEW i \in 1..Len(queue[r]), Replaced(r, e, i)
      PROVE  StillThere /\ generation'[r] = generation[r]
  <2>1. queue[r][i].kind = "call" /\ generation'[r] = generation[r]
        /\ queue'[r] = [queue[r] EXCEPT ![i] = [e EXCEPT !.gen = generation[r]]]
    BY <1>7 DEF Replaced
  <2>2. Len(queue'[r]) = Len(queue[r])
        /\ \A j \in 1..Len(queue[r]) : j # i => queue'[r][j] = queue[r][j]
    BY <1>1, <2>1
  <2> QED BY <2>1, <2>2
<1>8. ASSUME NEW i \in 1..Len(queue[r]), Evicted(r, e, i)
      PROVE  StillThere /\ generation'[r] = generation[r]
  <2> DEFINE s == RemoveAt(queue[r], i)
             x == [e EXCEPT !.gen = generation[r]]
             n == Len(queue[r])
  <2>1. /\ queue[r][i].kind = "update" \/ queue[r][i].droppable
        /\ generation'[r] = generation[r] /\ queue'[r] = Append(s, x)
    BY <1>8 DEF Evicted
  <2>2. queue[r][i].kind \in {"update", "call"}
    BY <2>1 DEF MailInv
  <2>3. s \in Seq(Event) /\ Len(s) = n - 1
        /\ \A j \in 1..(n - 1) : s[j] = IF j < i THEN queue[r][j] ELSE queue[r][j + 1]
    BY <1>1, RemoveAtSeq, RemoveAtElements
  <2>4. x \in Event /\ n \in Nat
    BY <1>1
  <2> HIDE DEF s, x
  <2>5. Len(queue'[r]) = Len(s) + 1 /\ \A j \in 1..Len(s) : queue'[r][j] = s[j]
    BY <2>1, <2>3, <2>4, AppendProperties
  <2> SUFFICES ASSUME NEW k \in 1..n, queue[r][k].kind \in Stay
               PROVE  \E j \in 1..Len(queue'[r]) : queue'[r][j] = queue[r][k]
    BY <2>1
  <2>6. k # i
    BY <2>2
  <2> HIDE DEF n
  <2>7. CASE k < i
    <3>1. k \in 1..(n - 1) /\ i \in 1..n /\ k \in 1..Len(queue'[r]) /\ k \in 1..Len(s)
      BY <2>3, <2>4, <2>5, <2>7 DEF n
    <3> QED BY <2>3, <2>5, <2>7, <3>1
  <2>8. CASE i < k
    <3>1. k - 1 \in 1..(n - 1) /\ ~(k - 1 < i) /\ (k - 1) + 1 = k
          /\ k - 1 \in 1..Len(queue'[r]) /\ k - 1 \in 1..Len(s)
      BY <2>3, <2>4, <2>5, <2>8 DEF n
    <3>2. queue'[r][k - 1] = queue[r][k]
      BY <2>3, <2>5, <3>1
    <3> QED BY <3>1, <3>2
  <2> QED BY <2>4, <2>6, <2>7, <2>8 DEF n
<1>9. Restarted(r, e) => Pending(r)'
  <2> SUFFICES ASSUME Restarted(r, e) PROVE Pending(r)'
    OBVIOUS
  <2> DEFINE x == [e EXCEPT !.gen = generation[r] + 1]
  <2>1. x.kind = "load" /\ queue'[r] = <<x>>
    BY <1>1 DEF Restarted
  <2> HIDE DEF x
  <2>2. 1 \in 1..Len(queue'[r]) /\ queue'[r][1].kind = "load"
    BY <2>1
  <2> QED BY <2>2 DEF Pending
<1>10. Appended(r, e) => StillThere /\ generation'[r] = generation[r]
  <2> SUFFICES ASSUME Appended(r, e) PROVE StillThere /\ generation'[r] = generation[r]
    OBVIOUS
  <2> DEFINE x == [e EXCEPT !.gen = generation[r]]
  <2>1. x \in Event /\ queue'[r] = Append(queue[r], x) /\ generation'[r] = generation[r]
    BY <1>1 DEF Appended
  <2> HIDE DEF x
  <2>2. Len(queue'[r]) = Len(queue[r]) + 1
        /\ \A j \in 1..Len(queue[r]) : queue'[r][j] = queue[r][j]
    BY <1>1, <2>1, AppendProperties
  <2> QED BY <1>1, <2>1, <2>2
<1> HIDE DEF StillThere
<1> QED BY <1>2, <1>3, <1>4, <1>5, <1>6, <1>7, <1>8, <1>9, <1>10

\* A sound completion is admitted whatever the limit and the health: only a
\* runtime that is stopping refuses it.
LEMMA EnqueueSound ==
    ASSUME TypeOK, NEW r \in Runtimes, NEW h \in Nat, NEW ref \in Refs,
           Enqueue(r, Answer("sound", h, ref)), ~stopping[r], ~stopped[r]
    PROVE  SoundQueued(r, ref, h)'
<1> DEFINE e == Answer("sound", h, ref)
           x == [e EXCEPT !.gen = generation[r]]
<1>1. e \in Event /\ e.kind = "sound" /\ e.ref = ref /\ e.host = h /\ ~e.coalesce
  <2>1. e \in Event
    BY EventTypes
  <2> QED BY <2>1 DEF Answer, Plain
<1>2. x \in Event /\ x.kind = "sound" /\ x.ref = ref /\ x.host = h
  <2>1. generation[r] \in Nat
    BY DEF TypeOK, MailboxTypeOK
  <2> HIDE DEF e
  <2> QED BY <1>1, <2>1 DEF Event
<1> HIDE DEF e
<1>3. Open(r, e) /\ Superseded(r, e) = 0 /\ ~NoRoom(r, e) /\ ~Evicts(r, e)
  BY <1>1 DEF Open, Exempt, Superseded, NoRoom, Evicts, Full
<1>4. Admit(r, e)
  BY <1>1, <1>3 DEF Enqueue, Refuse, Supersede, AbsorbUpdate, DropWhenFull, e
<1>5. queue' = [queue EXCEPT ![r] = Append(queue[r], x)]
  BY <1>1, <1>3, <1>4 DEF Admit, Room
<1> HIDE DEF x
<1>6. queue[r] \in Seq(Event) /\ queue'[r] = Append(queue[r], x)
  BY <1>5 DEF TypeOK, MailboxTypeOK
<1>7. Len(queue[r]) \in Nat /\ Len(queue'[r]) = Len(queue[r]) + 1
      /\ queue'[r][Len(queue[r]) + 1] = x
  BY <1>2, <1>6, AppendProperties, LenProperties
<1>8. Len(queue[r]) + 1 \in 1..Len(queue'[r])
  BY <1>7
<1> QED BY <1>2, <1>7, <1>8 DEF SoundQueued

\* The enqueueing steps, apart from the mailbox they write: the environment, a
\* sound or a command that ends, and a watcher.
Enqueueing(r, e) ==
    /\ Enqueue(r, e)
    /\ UNCHANGED <<hostId, callbacks, nextHostId, stopping, stopped, job, event, out>>
    /\ \A v \in Workers : pc'[v] = pc[v] \/ (pc[v] = "notify" /\ pc'[v] # "script")

LEMMA EnqueueingSteps ==
    ASSUME TypeOK
    PROVE  /\ \A r \in Runtimes, e \in MainEvents :
                 Send(r, e) => e \in Sent /\ Enqueueing(r, e) /\ UNCHANGED <<results, loading>>
           /\ \A l \in loading : LoadSound(l) =>
                 /\ l.rt \in Runtimes /\ Answer("sound", l.host, l.ref) \in Sent
                 /\ Enqueueing(l.rt, Answer("sound", l.host, l.ref))
                 /\ results' = results /\ loading' = loading \ {l}
           /\ \A c \in inFlight : CommandEnds(c) =>
                 /\ c.rt \in Runtimes /\ Answer("command", c.host, c.ref) \in Sent
                 /\ Enqueueing(c.rt, Answer("command", c.host, c.ref))
                 /\ UNCHANGED <<results, loading>>
           /\ \A w \in Workers : NotifyNext(w) =>
                 \E r \in Runtimes, e \in Sent :
                    Enqueueing(r, e) /\ UNCHANGED <<results, loading>>
<1>1. ASSUME NEW r \in Runtimes, NEW e \in MainEvents, Send(r, e)
      PROVE  e \in Sent /\ Enqueueing(r, e) /\ UNCHANGED <<results, loading>>
  BY <1>1, SentEvents DEF Send, stopVars, hostVars, workerVars, mainVars, Enqueueing
<1>2. ASSUME NEW l \in loading, LoadSound(l)
      PROVE  /\ l.rt \in Runtimes /\ Answer("sound", l.host, l.ref) \in Sent
             /\ Enqueueing(l.rt, Answer("sound", l.host, l.ref))
             /\ results' = results /\ loading' = loading \ {l}
  <2>1. l.rt \in Runtimes /\ Answer("sound", l.host, l.ref) \in Sent
    BY SentEvents DEF TypeOK, MainTypeOK, Request
  <2> QED BY <1>2, <2>1 DEF LoadSound, stopVars, hostVars, workerVars, Enqueueing
<1>3. ASSUME NEW c \in inFlight, CommandEnds(c)
      PROVE  /\ c.rt \in Runtimes /\ Answer("command", c.host, c.ref) \in Sent
             /\ Enqueueing(c.rt, Answer("command", c.host, c.ref))
             /\ UNCHANGED <<results, loading>>
  <2>1. c.rt \in Runtimes /\ Answer("command", c.host, c.ref) \in Sent
    BY SentEvents DEF TypeOK, MainTypeOK, Request
  <2> QED BY <1>3, <2>1 DEF CommandEnds, stopVars, hostVars, workerVars, mainVars, Enqueueing
<1>4. ASSUME NEW w \in Workers, NotifyNext(w)
      PROVE  \E r \in Runtimes, e \in Sent :
                Enqueueing(r, e) /\ UNCHANGED <<results, loading>>
  <2>1. PICK x \in notifying[w] :
           /\ Enqueue(x.token, Answer("watch", x.vm, x.ref))
           /\ pc' = [pc EXCEPT ![w] = IF notifying[w] = {x} THEN AfterCall(out[w].stage)
                                      ELSE "notify"]
    BY <1>4 DEF NotifyNext
  <2>2. x.token \in Runtimes /\ Answer("watch", x.vm, x.ref) \in Sent
    BY SentEvents DEF TypeOK, StoreTypeOK, Watcher
  <2>3. pc[w] = "notify"
        /\ UNCHANGED <<hostId, callbacks, nextHostId, stopping, stopped, job, event, out,
                       results, loading>>
    BY <1>4 DEF NotifyNext, stopVars, hostVars, mainVars
  <2>4. \A v \in Workers : pc'[v] = pc[v] \/ (pc[v] = "notify" /\ pc'[v] # "script")
    BY <2>1, <2>3 DEF AfterCall, TypeOK, WorkerTypeOK
  <2>5. Enqueueing(x.token, Answer("watch", x.vm, x.ref))
    BY <2>1, <2>3, <2>4 DEF Enqueueing
  <2> QED BY <2>2, <2>3, <2>5
<1> QED BY <1>1, <1>2, <1>3, <1>4

\* A host is replaced by none, or by a new one.
LEMMA HostStep ==
    ASSUME TypeOK, [Next]_vars
    PROVE  /\ nextHostId' \in Nat /\ nextHostId =< nextHostId'
           /\ \A r \in Runtimes :
                 \/ hostId'[r] = hostId[r] \/ hostId'[r] = NoHost
                 \/ hostId'[r] = nextHostId /\ nextHostId < nextHostId'
<1> USE DEF TypeOK, HostTypeOK
<1>1. CASE UNCHANGED <<hostId, nextHostId>>
  BY <1>1
<1>2. ASSUME NEW w \in Workers, ResetHost(w) \/ Build(w)
      PROVE  /\ nextHostId' \in Nat /\ nextHostId =< nextHostId'
             /\ \A r \in Runtimes :
                   \/ hostId'[r] = hostId[r] \/ hostId'[r] = NoHost
                   \/ hostId'[r] = nextHostId /\ nextHostId < nextHostId'
  BY <1>2 DEF ResetHost, Build
<1>3. ASSUME NEW w \in Workers, TakeTask(w) \/ DrainEnds(w) \/ DrainPops(w) \/ Teardown(w)
             \/ OnExit(w) \/ Ignore(w) \/ Run(w) \/ NotifyNext(w) \/ Health(w) \/ LoadUpdate(w)
             \/ Finish(w) \/ FinishStop(w)
      PROVE  UNCHANGED <<hostId, nextHostId>>
  BY <1>3 DEF TakeTask, DrainEnds, DrainPops, Teardown, OnExit, Ignore, Run, NotifyNext,
     Health, LoadUpdate, Finish, FinishStop, hostVars
<1>4. (\E r \in Runtimes : (\E e \in MainEvents : Send(r, e)) \/ Stop(r) \/ Post(r))
      \/ Deliver \/ (\E l \in loading : LoadSound(l)) \/ (\E c \in inFlight : CommandEnds(c))
      \/ UNCHANGED vars => UNCHANGED <<hostId, nextHostId>>
  BY DEF Send, Stop, Post, Deliver, LoadSound, CommandEnds, vars, hostVars
<1> QED BY <1>1, <1>2, <1>3, <1>4 DEF Next, Drain

\* What is to end a VM is not withdrawn: the load or the stop stays in the mailbox
\* or with the worker until the VM is gone.
LEMMA EndingStep ==
    ASSUME TypeOK, TaskInv, HostInv, [Next]_vars
    PROVE  \A r \in Runtimes : Ending(r) => Ending(r)' \/ hostId'[r] = NoHost
<1> USE DEF TypeOK, WorkerTypeOK, MailboxTypeOK, HostTypeOK
<1>h. MailInv /\ (\A w \in Workers : AtEvent(w) /\ AtVm(w))
  BY DEF HostInv, PathInv, VmInv
<1> DEFINE Goal == \A r \in Runtimes : Ending(r) => Ending(r)' \/ hostId'[r] = NoHost
<1>0. ASSUME \A q \in Runtimes : Pending(q) => Pending(q)',
             \A v \in Workers : Tearing(v) => job'[v] = job[v] /\ Tearing(v)'
      PROVE  Goal
  BY <1>0 DEF Ending
<1>1. ASSUME NEW r \in Runtimes, NEW e \in Sent, Enqueueing(r, e) PROVE Goal
  <2>1. \A q \in Runtimes : Pending(q) => Pending(q)'
    BY <1>1, <1>h, EnqueueKeeps DEF Enqueueing
  <2>2. \A v \in Workers : Tearing(v) => job'[v] = job[v] /\ Tearing(v)'
    BY <1>1 DEF Enqueueing, Tearing
  <2> QED BY <1>0, <2>1, <2>2
<1>2. ASSUME NEW r \in Runtimes, Stop(r) PROVE Goal
  <2> DEFINE x == [Plain("stop") EXCEPT !.gen = generation[r]]
  <2>1. queue' = [queue EXCEPT ![r] = <<x>>] /\ x.kind = "stop"
        /\ UNCHANGED <<job, event, pc, out>>
    BY <1>2 DEF Stop, Plain, workerVars
  <2> HIDE DEF x
  <2>2. 1 \in 1..Len(queue'[r]) /\ queue'[r][1] = x
    BY <2>1
  <2>3. \A q \in Runtimes : Pending(q) => Pending(q)'
    BY <2>1, <2>2 DEF Pending
  <2> QED BY <1>0, <2>1, <2>3 DEF Tearing
<1>3. ASSUME UNCHANGED <<queue, event, pc, out, job>> PROVE Goal
  BY <1>0, <1>3 DEF Pending, Tearing
<1>4. ASSUME NEW w \in Workers, TakeTask(w) \/ DrainEnds(w) PROVE Goal
  <2>1. UNCHANGED <<queue, event, out>> /\ pc[w] \in {"idle", "drain"}
        /\ \A v \in Workers \ {w} : pc'[v] = pc[v] /\ job'[v] = job[v]
    BY <1>4 DEF TakeTask, DrainEnds, mailboxVars
  <2>2. event[w].kind = "none"
    BY <1>h, <2>1 DEF AtEvent, NoEvent, Plain
  <2> QED BY <1>0, <2>1, <2>2 DEF Pending, Tearing
<1>5. ASSUME NEW w \in Workers, DrainPops(w) PROVE Goal
  <2>0. PICK r \in Runtimes : job[w] = r
    BY <1>5 DEF DrainPops
  <2>1. /\ pc[w] = "drain" /\ queue[r] # <<>>
        /\ queue' = [queue EXCEPT ![r] = Tail(queue[r])]
        /\ event' = [event EXCEPT ![w] = Head(queue[r])]
        /\ pc' = [pc EXCEPT ![w] = "script"]
        /\ UNCHANGED <<job, out>>
    BY <1>5, <2>0 DEF DrainPops
  <2>2. event[w].kind = "none"
    BY <1>h, <2>1 DEF AtEvent, NoEvent, Plain
  <2>3. \A v \in Workers : Tearing(v) => v # w /\ job'[v] = job[v] /\ Tearing(v)'
    BY <2>1, <2>2 DEF Tearing
  <2>4. /\ Len(queue[r]) \in Nat \ {0} /\ Len(queue'[r]) = Len(queue[r]) - 1
        /\ Head(queue[r]) = queue[r][1]
        /\ \A i \in 1..Len(queue'[r]) : queue'[r][i] = queue[r][i + 1]
    BY <2>1, HeadTailProperties, EmptySeq, LenProperties
  <2>5. \A i \in 1..Len(queue[r]) : i = 1 \/ (i - 1 \in 1..Len(queue'[r])
                                              /\ queue'[r][i - 1] = queue[r][i])
    BY <2>4
  <2>6. Pending(r) => Pending(r)' \/ Tearing(w)'
    <3> SUFFICES ASSUME NEW i \in 1..Len(queue[r]), queue[r][i].kind \in {"load", "stop"}
                 PROVE  Pending(r)' \/ Tearing(w)'
      BY DEF Pending
    <3>1. CASE i = 1
      BY <2>1, <2>4, <3>1 DEF Tearing
    <3>2. CASE i # 1
      <4>1. i - 1 \in 1..Len(queue'[r]) /\ queue'[r][i - 1].kind \in {"load", "stop"}
        BY <2>5, <3>2
      <4> QED BY <4>1 DEF Pending
    <3> QED BY <3>1, <3>2
  <2>7. \A q \in Runtimes \ {r} : Pending(q) => Pending(q)'
    BY <2>1 DEF Pending
  <2> QED BY <2>0, <2>1, <2>3, <2>6, <2>7 DEF Ending
<1>6. ASSUME NEW w \in Workers, Teardown(w) \/ Ignore(w) \/ Health(w) PROVE Goal
  <2>1. UNCHANGED <<queue, event, out, job>> /\ \A v \in Workers \ {w} : pc'[v] = pc[v]
    BY <1>6 DEF Teardown, Ignore, Health, mailboxVars
  <2>2. Tearing(w) => Tearing(w)'
    <3>1. CASE Teardown(w)
      <4>1. pc'[w] \in {"exit", "reset"}
        BY <3>1 DEF Teardown
      <4> QED BY <2>1, <4>1 DEF Tearing
    <3>2. CASE Ignore(w)
      BY <3>2 DEF Ignore, Tearing
    <3>3. CASE Health(w)
      BY <2>1, <3>3 DEF Health, Tearing
    <3> QED BY <1>6, <3>1, <3>2, <3>3
  <2>3. \A v \in Workers : Tearing(v) => Tearing(v)'
    BY <2>1, <2>2 DEF Tearing
  <2> QED BY <1>0, <2>1, <2>3 DEF Pending
<1>7. ASSUME NEW w \in Workers, ResetHost(w) PROVE Goal
  <2>0. PICK r \in Runtimes : job[w] = r
    BY <1>7 DEF ResetHost
  <2>1. /\ UNCHANGED <<queue, event, job>> /\ hostId'[r] = NoHost
        /\ \A v \in Workers \ {w} : pc'[v] = pc[v] /\ out'[v] = out[v]
    BY <1>7, <2>0 DEF ResetHost, mailboxVars
  <2>2. \A v \in Workers : v # w => (Tearing(v) => Tearing(v)')
    BY <2>1 DEF Tearing
  <2> QED BY <2>0, <2>1, <2>2 DEF Ending, Pending
<1>8. ASSUME NEW w \in Workers, OnExit(w) \/ Run(w) \/ Build(w) \/ LoadUpdate(w) PROVE Goal
  <2>0. PICK r \in Runtimes : job[w] = r
    BY <1>8 DEF OnExit, Run, Build, LoadUpdate
  <2>1. UNCHANGED <<queue, event, job>>
        /\ \A v \in Workers \ {w} : pc'[v] = pc[v] /\ out'[v] = out[v]
    BY <1>8 DEF OnExit, Run, Build, LoadUpdate, VmCall, mailboxVars
  <2>2. Tearing(w) => Tearing(w)'
    <3>1. CASE OnExit(w)
      <4> DEFINE cbs == callbacks[r]
                 h == hostId[r]
      <4>1. VmCall(w, h, cbs, "exit") /\ cbs \in SUBSET Callback /\ h \in Nat /\ "exit" \in Stages
        BY <2>0, <3>1 DEF OnExit, Stages
      <4> HIDE DEF cbs, h
      <4>2. CallEnds(w, "exit")
        <5> HIDE DEF TypeOK, WorkerTypeOK, MailboxTypeOK, HostTypeOK
        <5> QED BY <2>0, <4>1, VmCallEffect
      <4>3. out'[w].stage = "exit"
        BY <4>2 DEF CallEnds
      <4> QED BY <2>1, <4>3 DEF Tearing
    <3>2. CASE Run(w)
      BY <3>2 DEF Run, Tearing
    <3>3. CASE Build(w)
      <4>1. pc[w] = "build" /\ out[w].stage # "exit"
        BY <1>h, <3>3 DEF Build, AtEvent
      <4> QED BY <4>1 DEF Tearing
    <3>4. CASE LoadUpdate(w)
      <4>1. pc[w] = "update" /\ out[w].stage # "exit"
        BY <1>h, <3>4 DEF LoadUpdate, AtEvent
      <4> QED BY <4>1 DEF Tearing
    <3> QED BY <1>8, <3>1, <3>2, <3>3, <3>4
  <2>3. \A v \in Workers : Tearing(v) => Tearing(v)'
    BY <2>1, <2>2 DEF Tearing
  <2> QED BY <1>0, <2>1, <2>3 DEF Pending
<1>9. ASSUME NEW w \in Workers, Finish(w) \/ FinishStop(w) PROVE Goal
  <2>0. PICK r \in Runtimes : job[w] = r
    BY <1>9 DEF Finish, FinishStop
  <2>1. /\ pc[w] = "finish" /\ out[w].stage # "exit"
        /\ \A v \in Workers \ {w} : pc'[v] = pc[v] /\ out'[v] = out[v]
                                    /\ event'[v] = event[v] /\ job'[v] = job[v]
    BY <1>9, <1>h DEF Finish, FinishStop, AtEvent
  <2>2. \A v \in Workers : Tearing(v) => v # w /\ job'[v] = job[v] /\ Tearing(v)'
    BY <2>1 DEF Tearing
  <2>3. CASE Finish(w)
    <3>1. queue' = queue
      BY <2>3 DEF Finish
    <3> QED BY <1>0, <2>2, <3>1 DEF Pending
  <2>4. CASE FinishStop(w)
    <3>1. hostId'[r] = NoHost /\ \A q \in Runtimes \ {r} : queue'[q] = queue[q]
      BY <1>h, <2>0, <2>4 DEF FinishStop, AtVm, hostVars
    <3>2. \A q \in Runtimes \ {r} : Pending(q) => Pending(q)'
      BY <3>1 DEF Pending
    <3> QED BY <2>0, <2>2, <3>1, <3>2 DEF Ending
  <2> QED BY <1>9, <2>3, <2>4
<1>10. ASSUME NEW r \in Runtimes, (\E e \in MainEvents : Send(r, e)) \/ Post(r) PROVE Goal
  <2>1. Post(r) => UNCHANGED <<queue, event, pc, out, job>>
    BY DEF Post, workerVars
  <2>2. (\E e \in MainEvents : Send(r, e)) => \E e \in Sent : Enqueueing(r, e)
    BY EnqueueingSteps
  <2> QED BY <1>1, <1>3, <1>10, <2>1, <2>2
<1>11. Deliver \/ UNCHANGED vars => UNCHANGED <<queue, event, pc, out, job>>
  BY DEF Deliver, mailboxVars, workerVars, vars
<1>12. (\E l \in loading : LoadSound(l)) \/ (\E c \in inFlight : CommandEnds(c))
       \/ (\E w \in Workers : NotifyNext(w)) => \E r \in Runtimes, e \in Sent : Enqueueing(r, e)
  BY EnqueueingSteps
<1> QED
  BY <1>1, <1>2, <1>3, <1>4, <1>5, <1>6, <1>7, <1>8, <1>9, <1>10, <1>11, <1>12 DEF Next, Drain

\* The steps, by what they do to the mailboxes and to the events being run.
LEMMA EventSteps ==
    ASSUME TypeOK, PathInv, [Next]_vars
    PROVE  \/ \E r \in Runtimes, e \in Sent : Enqueueing(r, e)
           \/ \E r \in Runtimes : Stop(r)
           \/ EventsStay /\ UNCHANGED <<queue, generation, stopping, stopped, event>>
           \/ \E w \in Workers : DrainPops(w) \/ Finish(w) \/ FinishStop(w)
<1> DEFINE Still == UNCHANGED <<queue, generation, stopping, stopped, event>>
<1>1. ASSUME NEW r \in Runtimes, (\E e \in MainEvents : Send(r, e)) \/ Stop(r) \/ Post(r)
      PROVE  (\E e \in Sent : Enqueueing(r, e)) \/ Stop(r) \/ Still
  <2>1. Post(r) => Still
    BY DEF Post, statusVars, stopVars, workerVars
  <2>2. (\E e \in MainEvents : Send(r, e)) => \E e \in Sent : Enqueueing(r, e)
    BY EnqueueingSteps
  <2> QED BY <1>1, <2>1, <2>2
<1>2. Deliver \/ UNCHANGED vars => Still
  BY DEF Deliver, mailboxVars, statusVars, stopVars, workerVars, vars
<1>3. (\E l \in loading : LoadSound(l)) \/ (\E c \in inFlight : CommandEnds(c))
       \/ (\E w \in Workers : NotifyNext(w)) => \E r \in Runtimes, e \in Sent : Enqueueing(r, e)
  BY EnqueueingSteps
<1>4. ASSUME NEW w \in Workers, TakeTask(w) \/ DrainEnds(w) \/ Teardown(w) \/ OnExit(w)
             \/ ResetHost(w) \/ Build(w) \/ Ignore(w) \/ Run(w) \/ Health(w) \/ LoadUpdate(w)
      PROVE  Still
  BY <1>4 DEF TakeTask, DrainEnds, Teardown, OnExit, ResetHost, Build, Ignore, Run, Health,
     LoadUpdate, mailboxVars, statusVars, stopVars
<1>5. Still => EventsStay \/ \E w \in Workers : DrainPops(w) \/ Finish(w) \/ FinishStop(w)
  BY EventsStayCover
<1> QED BY <1>1, <1>2, <1>3, <1>4, <1>5 DEF Next, Drain

\* The event of a worker is of the generation the runtime has now, or the load that
\* began a newer one waits in the mailbox.
Dated(w) ==
    event[w].kind # "none" => event[w].gen = generation[job[w]] \/ Pending(job[w])

EventAge == \A w \in Workers : Dated(w)

\* Until a runtime that stop() has closed has stopped, its worker has the stop, or
\* finds it in the mailbox.
StopDue(r) ==
    \/ \E i \in 1..Len(queue[r]) : queue[r][i].kind = "stop"
    \/ \E w \in Workers : job[w] = r /\ event[w].kind = "stop"

StopComes == \A r \in Runtimes : stopping[r] /\ ~stopped[r] => StopDue(r)

LEMMA StopStays ==
    ASSUME NEW r, StopDue(r), queue'[r] = queue[r],
           \A w \in Workers : job[w] = r /\ event[w].kind = "stop" =>
              job'[w] = r /\ event'[w].kind = "stop"
    PROVE  StopDue(r)'
<1>1. CASE \E i \in 1..Len(queue[r]) : queue[r][i].kind = "stop"
  <2>1. PICK i \in 1..Len(queue'[r]) : queue'[r][i].kind = "stop"
    BY <1>1
  <2> QED BY <2>1 DEF StopDue
<1>2. CASE \E w \in Workers : job[w] = r /\ event[w].kind = "stop"
  BY <1>2 DEF StopDue
<1> QED BY <1>1, <1>2 DEF StopDue

LEMMA StopComesStep ==
    ASSUME TypeOK, TaskInv, HostInv, StopComes, [Next]_vars
    PROVE  StopComes'
<1>h. \A w \in Workers : AtEvent(w)
  BY DEF HostInv, PathInv
<1>n. NoEvent.kind = "none"
  BY DEF NoEvent, Plain
<1>1. ASSUME NEW r \in Runtimes, NEW e \in Sent, Enqueueing(r, e)
      PROVE  StopComes'
  <2>1. UNCHANGED <<stopping, stopped, job, event>>
    BY <1>1 DEF Enqueueing
  <2>2. stopping[r] => queue' = queue
    BY <1>1 DEF Enqueueing, Enqueue, Refuse, Supersede, AbsorbUpdate, DropWhenFull, Admit,
       Admissible, Open, mailboxVars
  <2>3. \A q \in Runtimes \ {r} : queue'[q] = queue[q]
    <3>1. e \in Event
      BY DEF Sent, NotStop
    <3> QED BY <1>1, <3>1, EnqueueEffect DEF Enqueueing, OthersKeep
  <2> SUFFICES ASSUME NEW q \in Runtimes, stopping'[q], ~stopped'[q] PROVE StopDue(q)'
    BY DEF StopComes
  <2>4. StopDue(q) /\ queue'[q] = queue[q]
    BY <2>1, <2>2, <2>3 DEF StopComes
  <2> QED BY <2>1, <2>4, StopStays
<1>2. ASSUME NEW r \in Runtimes, Stop(r) PROVE StopComes'
  <2> DEFINE x == [Plain("stop") EXCEPT !.gen = generation[r]]
  <2>1. queue' = [queue EXCEPT ![r] = <<x>>] /\ x.kind = "stop"
        /\ stopping' = [stopping EXCEPT ![r] = TRUE]
        /\ UNCHANGED <<job, event, stopped>>
    BY <1>2 DEF Stop, Plain, workerVars
  <2> HIDE DEF x
  <2>2. 1 \in 1..Len(queue'[r]) /\ queue'[r][1].kind = "stop"
    BY <2>1 DEF TypeOK, MailboxTypeOK
  <2> SUFFICES ASSUME NEW q \in Runtimes, stopping'[q], ~stopped'[q] PROVE StopDue(q)'
    BY DEF StopComes
  <2>3. CASE q = r
    BY <2>2, <2>3 DEF StopDue
  <2>4. CASE q # r
    <3>1. stopping'[q] = stopping[q] /\ queue'[q] = queue[q] /\ stopped'[q] = stopped[q]
      BY <2>1, <2>4 DEF TypeOK, MailboxTypeOK, StopTypeOK
    <3>2. StopDue(q)
      BY <3>1 DEF StopComes
    <3> QED BY <2>1, <3>1, <3>2, StopStays
  <2> QED BY <2>3, <2>4
<1>3. CASE EventsStay /\ UNCHANGED <<queue, generation, stopping, stopped, event>>
  <2> SUFFICES ASSUME NEW q \in Runtimes, stopping'[q], ~stopped'[q] PROVE StopDue(q)'
    BY DEF StopComes
  <2>1. StopDue(q) /\ queue'[q] = queue[q]
    BY <1>3 DEF StopComes
  <2>2. \A w \in Workers : job[w] = q /\ event[w].kind = "stop" =>
           job'[w] = q /\ event'[w].kind = "stop"
    BY <1>3 DEF EventsStay
  <2> QED BY <2>1, <2>2, StopStays
<1>4. ASSUME NEW w \in Workers, DrainPops(w) PROVE StopComes'
  <2>0. PICK r \in Runtimes : job[w] = r
    BY <1>4 DEF DrainPops, TypeOK, WorkerTypeOK
  <2>1. /\ queue[r] # <<>> /\ queue' = [queue EXCEPT ![r] = Tail(queue[r])]
        /\ event' = [event EXCEPT ![w] = Head(queue[r])]
        /\ UNCHANGED <<job, stopping, stopped>>
    BY <1>4, <2>0 DEF DrainPops, stopVars
  <2>2. /\ Len(queue[r]) \in Nat \ {0} /\ Len(queue'[r]) = Len(queue[r]) - 1
        /\ Head(queue[r]) = queue[r][1]
        /\ \A i \in 1..Len(queue'[r]) : queue'[r][i] = queue[r][i + 1]
    <3>1. queue[r] \in Seq(Event) /\ queue'[r] = Tail(queue[r])
      BY <2>1 DEF TypeOK, MailboxTypeOK
    <3>2. /\ Len(queue[r]) \in Nat /\ Len(queue[r]) # 0
          /\ Head(queue[r]) = queue[r][1]
          /\ Tail(queue[r]) \in Seq(Event) /\ Len(Tail(queue[r])) = Len(queue[r]) - 1
          /\ \A i \in 1..Len(Tail(queue[r])) : Tail(queue[r])[i] = queue[r][i + 1]
      BY <2>1, <3>1, HeadTailProperties, EmptySeq, LenProperties
    <3> QED BY <3>1, <3>2
  <2>3. event'[w] = queue[r][1] /\ \A v \in Workers \ {w} : event'[v] = event[v]
    BY <2>1, <2>2 DEF TypeOK, WorkerTypeOK
  <2>4. \A v \in Workers \ {w} : job[v] # r
    BY <2>0, ScriptConstants DEF TaskInv, OneTask, SingleDrain
  <2>5. event[w].kind = "none"
    BY <1>4, <1>h, <1>n DEF DrainPops, AtEvent
  <2> SUFFICES ASSUME NEW q \in Runtimes, stopping'[q], ~stopped'[q] PROVE StopDue(q)'
    BY DEF StopComes
  <2>6. StopDue(q)
    BY <2>1 DEF StopComes
  <2>7. CASE q # r
    <3>1. queue'[q] = queue[q]
      BY <2>1, <2>7 DEF TypeOK, MailboxTypeOK
    <3>2. \A v \in Workers : job[v] = q => job'[v] = q /\ event'[v] = event[v]
      BY <2>0, <2>1, <2>3, <2>7
    <3> QED BY <2>6, <3>1, <3>2, StopStays
  <2>8. CASE q = r
    <3>1. PICK i \in 1..Len(queue[r]) : queue[r][i].kind = "stop"
      BY <2>4, <2>5, <2>6, <2>8 DEF StopDue
    <3>2. CASE i = 1
      <4>1. event'[w].kind = "stop" /\ job'[w] = r
        BY <2>0, <2>1, <2>3, <3>1, <3>2
      <4> QED BY <2>8, <4>1 DEF StopDue
    <3>3. CASE i # 1
      <4>1. i - 1 \in 1..Len(queue'[r]) /\ queue'[r][i - 1] = queue[r][i]
        BY <2>2, <3>3
      <4> QED BY <2>8, <3>1, <4>1 DEF StopDue
    <3> QED BY <3>2, <3>3
  <2> QED BY <2>7, <2>8
<1>5. ASSUME NEW w \in Workers, Finish(w) \/ FinishStop(w) PROVE StopComes'
  <2>0. PICK r \in Runtimes : job[w] = r
    BY <1>5 DEF Finish, FinishStop, TypeOK, WorkerTypeOK
  <2>1. \A v \in Workers \ {w} : event'[v] = event[v] /\ job'[v] = job[v] /\ job[v] # r
    BY <1>5, <2>0, ScriptConstants DEF Finish, FinishStop, TaskInv, OneTask, SingleDrain,
       TypeOK, WorkerTypeOK
  <2>2. /\ stopping' = stopping
        /\ \A q \in Runtimes \ {r} : queue'[q] = queue[q] /\ stopped'[q] = stopped[q]
    BY <1>5, <2>0 DEF Finish, FinishStop, stopVars, TypeOK, MailboxTypeOK, StopTypeOK
  <2> SUFFICES ASSUME NEW q \in Runtimes, stopping'[q], ~stopped'[q] PROVE StopDue(q)'
    BY DEF StopComes
  <2>3. CASE q # r
    <3>1. StopDue(q) /\ queue'[q] = queue[q]
      BY <2>2, <2>3 DEF StopComes
    <3>2. \A v \in Workers : job[v] = q => job'[v] = q /\ event'[v] = event[v]
      BY <2>0, <2>1, <2>3
    <3> QED BY <3>1, <3>2, StopStays
  <2>4. CASE q = r /\ Finish(w)
    <3>1. queue' = queue /\ stopped' = stopped /\ event[w].kind # "stop"
      BY <2>4 DEF Finish, stopVars
    <3>2. StopDue(q) /\ queue'[q] = queue[q]
      BY <2>2, <3>1 DEF StopComes
    <3>3. \A v \in Workers : job[v] = q /\ event[v].kind = "stop" =>
             job'[v] = q /\ event'[v].kind = "stop"
      BY <2>1, <2>4, <3>1
    <3> QED BY <3>2, <3>3, StopStays
  <2>5. CASE q = r /\ FinishStop(w)
    <3>1. stopped'[r]
      BY <2>0, <2>5 DEF FinishStop, TypeOK, StopTypeOK
    <3> QED BY <2>5, <3>1
  <2> QED BY <1>5, <2>3, <2>4, <2>5
<1> QED
  BY <1>1, <1>2, <1>3, <1>4, <1>5, EventSteps DEF HostInv

LEMMA EventAgeStep ==
    ASSUME TypeOK, TaskInv, HostInv, EventAge, [Next]_vars
    PROVE  EventAge'
<1> USE DEF TypeOK, WorkerTypeOK, MailboxTypeOK
<1>h. MailInv /\ (\A w \in Workers : AtEvent(w))
  BY DEF HostInv, PathInv
<1>n. NoEvent.kind = "none"
  BY DEF NoEvent, Plain
<1>0. \A w \in Workers : event[w].kind # "none" => job[w] \in Runtimes
  BY <1>h, <1>n DEF AtEvent
<1>1. ASSUME NEW r \in Runtimes, NEW e \in Sent, Enqueueing(r, e)
      PROVE  EventAge'
  <2>1. \A q \in Runtimes :
           /\ Pending(q) => Pending(q)'
           /\ generation'[q] = generation[q] \/ Pending(q)'
    BY <1>1, <1>h, EnqueueKeeps DEF Enqueueing
  <2>2. UNCHANGED <<job, event>>
    BY <1>1 DEF Enqueueing
  <2> QED BY <1>0, <2>1, <2>2 DEF EventAge, Dated
<1>2. ASSUME NEW r \in Runtimes, Stop(r) PROVE EventAge'
  <2> DEFINE x == [Plain("stop") EXCEPT !.gen = generation[r]]
  <2>1. queue' = [queue EXCEPT ![r] = <<x>>] /\ x.kind = "stop"
        /\ UNCHANGED <<job, event, generation>>
    BY <1>2 DEF Stop, Plain, workerVars
  <2> HIDE DEF x
  <2>2. 1 \in 1..Len(queue'[r]) /\ queue'[r][1].kind = "stop"
    BY <2>1
  <2>3. \A q \in Runtimes \ {r} : queue'[q] = queue[q]
    BY <2>1
  <2> QED BY <1>0, <2>1, <2>2, <2>3 DEF EventAge, Dated, Pending
<1>3. CASE EventsStay /\ UNCHANGED <<queue, generation, stopping, stopped, event>>
  BY <1>3 DEF EventAge, Dated, EventsStay, Pending
<1>4. ASSUME NEW w \in Workers, DrainPops(w) PROVE EventAge'
  <2>0. PICK r \in Runtimes : job[w] = r
    BY <1>4 DEF DrainPops
  <2>1. /\ queue[r] # <<>> /\ queue' = [queue EXCEPT ![r] = Tail(queue[r])]
        /\ event' = [event EXCEPT ![w] = Head(queue[r])]
        /\ UNCHANGED <<job, generation>>
    BY <1>4, <2>0 DEF DrainPops
  <2>2. Len(queue[r]) \in Nat \ {0} /\ Head(queue[r]) = queue[r][1]
    BY <2>1, HeadTailProperties, EmptySeq, LenProperties
  <2>3. \A v \in Workers \ {w} : event'[v] = event[v] /\ job[v] # r
    BY <2>0, <2>1, ScriptConstants DEF TaskInv, OneTask, SingleDrain
  <2>4. event'[w].gen = generation[r]
    BY <1>h, <2>1, <2>2 DEF MailInv
  <2>5. \A q \in Runtimes \ {r} : Pending(q) => Pending(q)'
    BY <2>1 DEF Pending
  <2> QED BY <1>0, <2>0, <2>1, <2>3, <2>4, <2>5 DEF EventAge, Dated
<1>5. ASSUME NEW w \in Workers, Finish(w) \/ FinishStop(w) PROVE EventAge'
  <2>0. PICK r \in Runtimes : job[w] = r
    BY <1>5 DEF Finish, FinishStop
  <2>1. /\ event'[w] = NoEvent
        /\ \A v \in Workers \ {w} : event'[v] = event[v] /\ job'[v] = job[v] /\ job[v] # r
    BY <1>5, <2>0, ScriptConstants DEF Finish, FinishStop, TaskInv, OneTask, SingleDrain
  <2>2. generation' = generation /\ \A q \in Runtimes \ {r} : queue'[q] = queue[q]
    BY <1>5, <2>0 DEF Finish, FinishStop, statusVars
  <2> SUFFICES ASSUME NEW v \in Workers PROVE Dated(v)'
    BY DEF EventAge
  <2>3. CASE event'[v].kind = "none"
    BY <2>3 DEF Dated
  <2>4. CASE event'[v].kind # "none"
    <3>1. v # w /\ event'[v] = event[v] /\ job'[v] = job[v] /\ job[v] # r
      BY <1>n, <2>1, <2>4
    <3>2. PICK q \in Runtimes : job[v] = q /\ q # r
      BY <1>0, <2>4, <3>1
    <3>3. event[v].gen = generation[q] \/ Pending(q)
      BY <2>4, <3>1, <3>2 DEF EventAge, Dated
    <3>4. queue'[q] = queue[q] /\ generation'[q] = generation[q] /\ job'[v] = q
      BY <2>2, <3>1, <3>2
    <3>5. CASE event[v].gen = generation[q]
      BY <3>1, <3>4, <3>5 DEF Dated
    <3>6. CASE Pending(q)
      <4> HIDE DEF TypeOK, WorkerTypeOK, MailboxTypeOK
      <4>1. PICK i \in 1..Len(queue'[q]) : queue'[q][i].kind \in {"load", "stop"}
        BY <3>4, <3>6 DEF Pending
      <4> QED BY <3>4, <4>1 DEF Dated, Pending
    <3> QED BY <3>3, <3>5, <3>6
  <2> QED BY <2>3, <2>4
<1> QED
  BY <1>1, <1>2, <1>3, <1>4, <1>5, EventSteps DEF HostInv

\* A result waiting for the main thread is of an earlier VM of its runtime, or of the
\* generation the runtime has now, unless the VM is about to be torn down.
Reported(x) == \E i \in 1..Len(results) : results[i] = x

Timely(x) ==
    /\ x.host < nextHostId
    /\ x.host = hostId[x.rt] /\ x.host # NoHost =>
          x.gen = generation[x.rt] \/ Ending(x.rt)

ResultAge == \A x \in Result : Reported(x) => Timely(x)

\* The result of an event that ends joins the others; no other step adds one.
Reply(w) == [rt |-> job[w], gen |-> event[w].gen, loads |-> out[w].loads,
             host |-> hostId[job[w]]]

LEMMA ResultSteps ==
    ASSUME TypeOK, [Next]_vars, NEW x, Reported(x)'
    PROVE  Reported(x) \/ \E w \in Workers : Finish(w) /\ x = Reply(w)
<1>1. results \in Seq(Result)
  BY DEF TypeOK, MainTypeOK
<1>2. CASE results' = results
  BY <1>2 DEF Reported
<1>3. CASE Deliver
  <2>1. results # <<>> /\ results' = Tail(results)
    BY <1>3 DEF Deliver
  <2>2. /\ Len(results) \in Nat /\ Len(results') = Len(results) - 1
        /\ \A i \in 1..Len(results') : results'[i] = results[i + 1]
    BY <1>1, <2>1, HeadTailProperties, EmptySeq, LenProperties
  <2>3. PICK i \in 1..Len(results') : results'[i] = x
    BY DEF Reported
  <2>4. i + 1 \in 1..Len(results) /\ results[i + 1] = x
    BY <2>2, <2>3
  <2> QED BY <2>4 DEF Reported
<1>4. ASSUME NEW w \in Workers, Finish(w)
      PROVE  Reported(x) \/ x = Reply(w)
  <2>1. CASE results' = results
    BY <2>1 DEF Reported
  <2>2. CASE results' = Append(results, Reply(w))
    <3>1. Reply(w) \in Result
      <4>1. job[w] \in Runtimes /\ event[w].gen \in Nat /\ out[w].loads \in SUBSET Refs
        BY <1>4 DEF Finish, TypeOK, WorkerTypeOK, Event
      <4>2. hostId[job[w]] \in Nat
        BY <4>1 DEF TypeOK, HostTypeOK
      <4> QED BY <4>1, <4>2 DEF Result, Reply
    <3> DEFINE y == Reply(w)
    <3> HIDE DEF y
    <3>2. y \in Result /\ results' = Append(results, y)
      BY <2>2, <3>1 DEF y
    <3>3. /\ Len(results) \in Nat /\ Len(results') = Len(results) + 1
          /\ \A i \in 1..Len(results) : results'[i] = results[i]
          /\ results'[Len(results) + 1] = y
      BY <1>1, <3>2, AppendProperties, LenProperties
    <3>4. PICK i \in 1..Len(results') : results'[i] = x
      BY DEF Reported
    <3>5. i \in 1..Len(results) \/ i = Len(results) + 1
      BY <3>3, <3>4
    <3>6. (i \in 1..Len(results) /\ results[i] = x) \/ x = y
      BY <3>3, <3>4, <3>5
    <3> QED BY <3>6 DEF Reported, y
  <2> QED BY <1>4, <2>1, <2>2 DEF Finish, Reply
<1>5. ASSUME NEW r \in Runtimes, (\E e \in MainEvents : Send(r, e)) \/ Stop(r) \/ Post(r)
      PROVE  results' = results
  BY <1>5 DEF Send, Stop, Post, mainVars
<1>6. (\E l \in loading : LoadSound(l)) \/ (\E c \in inFlight : CommandEnds(c))
      \/ UNCHANGED vars => results' = results
  BY DEF LoadSound, CommandEnds, mainVars, vars
<1>7. ASSUME NEW w \in Workers, TakeTask(w) \/ DrainEnds(w) \/ DrainPops(w) \/ Teardown(w)
             \/ OnExit(w) \/ ResetHost(w) \/ Build(w) \/ Ignore(w) \/ Run(w) \/ NotifyNext(w)
             \/ Health(w) \/ LoadUpdate(w) \/ FinishStop(w)
      PROVE  results' = results
  BY <1>7 DEF TakeTask, DrainEnds, DrainPops, Teardown, OnExit, ResetHost, Build, Ignore, Run,
     NotifyNext, Health, LoadUpdate, FinishStop, mainVars
<1> QED
  BY <1>2, <1>3, <1>4, <1>5, <1>6, <1>7 DEF Next, Drain

\* Only a load begins a new generation, and it is in the mailbox then.
LEMMA GenerationStep ==
    ASSUME TypeOK, HostInv, [Next]_vars
    PROVE  \A r \in Runtimes : generation'[r] = generation[r] \/ Pending(r)'
<1>1. MailInv
  BY DEF HostInv
<1>2. ASSUME NEW r \in Runtimes, NEW e \in Sent, Enqueueing(r, e)
      PROVE  \A q \in Runtimes : generation'[q] = generation[q] \/ Pending(q)'
  BY <1>1, <1>2, EnqueueKeeps DEF Enqueueing
<1>3. (\E r \in Runtimes : Stop(r)) \/ (\E w \in Workers : DrainPops(w) \/ Finish(w) \/ FinishStop(w))
      => generation' = generation
  BY DEF Stop, DrainPops, Finish, FinishStop, statusVars
<1> QED BY <1>2, <1>3, EventSteps DEF HostInv

LEMMA ResultAgeStep ==
    ASSUME TypeOK, TaskInv, HostInv, EventAge, ResultAge, [Next]_vars
    PROVE  ResultAge'
<1>1. /\ nextHostId \in Nat /\ nextHostId' \in Nat /\ nextHostId =< nextHostId'
      /\ \A r \in Runtimes :
            \/ hostId'[r] = hostId[r] \/ hostId'[r] = NoHost
            \/ hostId'[r] = nextHostId /\ nextHostId < nextHostId'
  BY HostStep DEF TypeOK, HostTypeOK
<1>2. \A r \in Runtimes : Ending(r) => Ending(r)' \/ hostId'[r] = NoHost
  BY EndingStep
<1>3. \A r \in Runtimes : generation'[r] = generation[r] \/ Ending(r)'
  BY GenerationStep DEF Ending
<1> SUFFICES ASSUME NEW x \in Result, Reported(x)' PROVE Timely(x)'
  BY DEF ResultAge
<1>4. x.rt \in Runtimes /\ x.host \in Nat
  BY DEF Result
<1>5. CASE Reported(x)
  <2>1. Timely(x)
    BY <1>5 DEF ResultAge
  <2>2. x.host < nextHostId /\ x.host < nextHostId'
    BY <1>1, <1>4, <2>1 DEF Timely
  <2>3. ASSUME x.host = hostId'[x.rt], x.host # NoHost
        PROVE  x.gen = generation'[x.rt] \/ Ending(x.rt)'
    <3>1. hostId'[x.rt] = hostId[x.rt]
      BY <1>1, <1>4, <2>2, <2>3
    <3>2. x.gen = generation[x.rt] \/ Ending(x.rt)
      BY <2>1, <2>3, <3>1 DEF Timely
    <3> QED BY <1>2, <1>3, <1>4, <2>3, <3>2
  <2> QED BY <2>2, <2>3 DEF Timely
<1>6. ASSUME NEW w \in Workers, Finish(w), x = Reply(w)
      PROVE  Timely(x)'
  <2>0. PICK r \in Runtimes : job[w] = r
    BY <1>6 DEF Finish, TypeOK, WorkerTypeOK
  <2>1. x.rt = r /\ x.gen = event[w].gen /\ x.host = hostId[r]
    BY <1>6, <2>0 DEF Reply
  <2>2. UNCHANGED <<queue, generation, hostId, nextHostId>>
    BY <1>6 DEF Finish, hostVars
  <2>3. x.host < nextHostId'
    BY <2>1, <2>2 DEF HostInv, VmInv, OfVm
  <2>4. event[w].gen = generation[r] \/ Pending(r)
    BY <1>6, <2>0 DEF EventAge, Dated, HostInv, PathInv, AtEvent, Finish
  <2>5. Pending(r) => Ending(r)'
    BY <2>2 DEF Pending, Ending
  <2> QED BY <2>1, <2>2, <2>3, <2>4, <2>5 DEF Timely
<1> QED
  BY <1>5, <1>6, ResultSteps

\* Where the load of a sound that a VM waits for can be: with the worker, among the
\* results, on the main thread, or in the mailbox as its completion.
Asked(r, ref) == [kind |-> "sound", ref |-> ref] \in callbacks[r]

Holds(w, r, ref) ==
    /\ job[w] = r
    /\ \/ ref \in out[w].loads
       \/ pc[w] = "script" /\ event[w].kind = "sound" /\ event[w].ref = ref
                           /\ event[w].host = hostId[r]

AtWorker(r, ref) == \E w \in Workers : Holds(w, r, ref)

InResults(r, ref) ==
    \E x \in Result : Reported(x) /\ x.rt = r /\ x.host = hostId[r] /\ ref \in x.loads

InLoading(r, ref) == [rt |-> r, host |-> hostId[r], ref |-> ref] \in loading

InMailbox(r, ref) == SoundQueued(r, ref, hostId[r])

Slot(r, ref) ==
    Ending(r) \/ AtWorker(r, ref) \/ InResults(r, ref) \/ InLoading(r, ref) \/ InMailbox(r, ref)

SlotInv == \A r \in Runtimes, ref \in Refs : Asked(r, ref) => Slot(r, ref)

\* What a step leaves alone, the load stays at.
LEMMA SlotParts ==
    ASSUME NEW r \in Runtimes, NEW ref \in Refs, hostId'[r] = hostId[r]
    PROVE  /\ results' = results => (InResults(r, ref) => InResults(r, ref)')
           /\ loading' = loading => (InLoading(r, ref) => InLoading(r, ref)')
           /\ queue'[r] = queue[r] => (InMailbox(r, ref) => InMailbox(r, ref)')
           /\ \A w \in Workers :
                 /\ job'[w] = job[w] /\ event'[w] = event[w] /\ out'[w] = out[w]
                 /\ pc'[w] = pc[w] \/ pc[w] # "script"
                 => (Holds(w, r, ref) => Holds(w, r, ref)')
<1>1. ASSUME results' = results, InResults(r, ref)
      PROVE  InResults(r, ref)'
  <2>1. PICK x \in Result : Reported(x) /\ x.rt = r /\ x.host = hostId[r] /\ ref \in x.loads
    BY <1>1 DEF InResults
  <2>2. Reported(x)'
    BY <1>1, <2>1 DEF Reported
  <2> QED BY <2>1, <2>2 DEF InResults
<1>2. loading' = loading => (InLoading(r, ref) => InLoading(r, ref)')
  BY DEF InLoading
<1>3. ASSUME queue'[r] = queue[r], InMailbox(r, ref)
      PROVE  InMailbox(r, ref)'
  <2>1. PICK i \in 1..Len(queue'[r]) : /\ queue'[r][i].kind = "sound"
                                       /\ queue'[r][i].ref = ref
                                       /\ queue'[r][i].host = hostId'[r]
    BY <1>3 DEF InMailbox, SoundQueued
  <2> QED BY <2>1 DEF InMailbox, SoundQueued
<1>4. ASSUME NEW w \in Workers, Holds(w, r, ref),
             job'[w] = job[w], event'[w] = event[w], out'[w] = out[w],
             pc'[w] = pc[w] \/ pc[w] # "script"
      PROVE  Holds(w, r, ref)'
  BY <1>4 DEF Holds
<1> QED BY <1>1, <1>2, <1>3, <1>4

\* An end of the VM is due once stop() has closed the mailbox.
LEMMA StoppingEnds ==
    ASSUME TypeOK, HostInv, StopComes, NEW r \in Runtimes, stopping[r]
    PROVE  Ending(r) \/ hostId[r] = NoHost
<1>1. CASE stopped[r]
  BY <1>1 DEF HostInv, VmInv, OfVm
<1>2. CASE ~stopped[r]
  <2>1. StopDue(r)
    BY <1>2 DEF StopComes
  <2>2. CASE \E i \in 1..Len(queue[r]) : queue[r][i].kind = "stop"
    BY <2>2 DEF Ending, Pending
  <2>3. CASE \E w \in Workers : job[w] = r /\ event[w].kind = "stop"
    <3>1. PICK w \in Workers : job[w] = r /\ event[w].kind = "stop"
      BY <2>3
    <3>2. AtEvent(w) /\ AtVm(w)
      BY DEF HostInv, PathInv, VmInv
    <3>3. pc[w] = "finish" \/ Tearing(w)
      BY <3>1, <3>2 DEF AtEvent, Tearing
    <3> QED BY <3>1, <3>2, <3>3 DEF AtVm, Ending
  <2> QED BY <2>1, <2>2, <2>3 DEF StopDue
<1> QED BY <1>1, <1>2

LEMMA SlotStep ==
    ASSUME TypeOK, TaskInv, HostInv, StopComes, ResultAge, SlotInv,
           TypeOK', HostInv', [Next]_vars
    PROVE  SlotInv'
<1>h. MailInv /\ (\A w \in Workers : AtEvent(w) /\ AtVm(w)) /\ (\A q \in Runtimes : OfVm(q))
  BY DEF HostInv, PathInv, VmInv
<1> SUFFICES ASSUME NEW q \in Runtimes, NEW ref \in Refs, Asked(q, ref)'
             PROVE  Slot(q, ref)'
  BY DEF SlotInv
\* q has a VM after the step, and an end of the one it had stays due.
<1>v. hostId'[q] # NoHost
  BY DEF HostInv, VmInv, OfVm, Asked
<1>e. Ending(q) => Ending(q)'
  BY <1>v, EndingStep
<1>a. Asked(q, ref) => hostId[q] # NoHost /\ Slot(q, ref)
  BY <1>h DEF SlotInv, OfVm, Asked
<1>w. \A v \in Workers : Holds(v, q, ref)' => Slot(q, ref)'
  BY DEF AtWorker, Slot
<1>0. ASSUME Asked(q, ref), hostId'[q] = hostId[q],
             \A v \in Workers : Holds(v, q, ref) => Slot(q, ref)',
             results' = results \/ (InResults(q, ref) => Slot(q, ref)'),
             loading' = loading \/ (InLoading(q, ref) => Slot(q, ref)'),
             queue'[q] = queue[q] \/ (InMailbox(q, ref) => Slot(q, ref)')
      PROVE  Slot(q, ref)'
  BY <1>0, <1>a, <1>e, SlotParts DEF Slot, AtWorker
\* A step that leaves the workers as far as they hold sounds.
<1>1. ASSUME UNCHANGED <<hostId, callbacks>>,
             \A v \in Workers :
                /\ job'[v] = job[v] /\ event'[v] = event[v] /\ out'[v] = out[v]
                /\ pc'[v] = pc[v] \/ pc[v] # "script"
      PROVE  /\ Asked(q, ref) /\ hostId'[q] = hostId[q]
             /\ \A v \in Workers : Holds(v, q, ref) => Slot(q, ref)'
  BY <1>1, <1>w, SlotParts DEF Asked
<1>2. ASSUME NEW r \in Runtimes, NEW e \in Sent, Enqueueing(r, e)
      PROVE  /\ Asked(q, ref) /\ hostId'[q] = hostId[q]
             /\ \A v \in Workers : Holds(v, q, ref) => Slot(q, ref)'
             /\ InMailbox(q, ref) => Slot(q, ref)'
  <2>1. /\ Asked(q, ref) /\ hostId'[q] = hostId[q]
        /\ \A v \in Workers : Holds(v, q, ref) => Slot(q, ref)'
    BY <1>1, <1>2 DEF Enqueueing
  <2>2. InMailbox(q, ref) => SoundQueued(q, ref, hostId[q])' \/ Pending(q)'
    BY <1>2, <1>h, EnqueueKeeps DEF Enqueueing, InMailbox
  <2>3. SoundQueued(q, ref, hostId[q])' => InMailbox(q, ref)'
    BY DEF InMailbox
  <2> QED BY <2>1, <2>2, <2>3 DEF Slot, Ending
<1>3. ASSUME NEW r \in Runtimes, NEW e \in Sent, Enqueueing(r, e), UNCHANGED <<results, loading>>
      PROVE  Slot(q, ref)'
  BY <1>0, <1>2, <1>3
<1>4. ASSUME NEW r \in Runtimes, Stop(r) PROVE Slot(q, ref)'
  <2> DEFINE x == [Plain("stop") EXCEPT !.gen = generation[r]]
  <2>1. queue' = [queue EXCEPT ![r] = <<x>>] /\ x.kind = "stop"
        /\ UNCHANGED <<hostId, callbacks, pc, job, event, out, results, loading>>
    BY <1>4 DEF Stop, Plain, hostVars, workerVars, mainVars
  <2> HIDE DEF x
  <2>2. CASE q = r
    <3>1. 1 \in 1..Len(queue'[q]) /\ queue'[q][1].kind = "stop"
      BY <2>1, <2>2 DEF TypeOK, MailboxTypeOK
    <3> QED BY <3>1 DEF Slot, Ending, Pending
  <2>3. CASE q # r
    <3>1. queue'[q] = queue[q]
      BY <2>1, <2>3
    <3> QED BY <1>0, <1>1, <2>1, <3>1
  <2> QED BY <2>2, <2>3
<1>5. ASSUME UNCHANGED <<hostId, callbacks, pc, job, event, out, results, loading, queue>>
      PROVE  Slot(q, ref)'
  BY <1>0, <1>1, <1>5
\* The main thread takes the result, and drops it only if the VM is at its end.
<1>6. ASSUME Deliver PROVE Slot(q, ref)'
  <2> DEFINE res == Head(results)
  <2>1. /\ results # <<>> /\ results' = Tail(results) /\ loading = {}
        /\ loading' = IF res.gen # generation[res.rt] \/ stopped[res.rt] THEN {}
                      ELSE {[rt |-> res.rt, host |-> res.host, ref |-> f] : f \in res.loads}
        /\ UNCHANGED <<hostId, callbacks, pc, job, event, out, queue>>
    BY <1>6 DEF Deliver, MainFree, hostVars, mailboxVars, workerVars
  <2>2. Asked(q, ref) /\ hostId'[q] = hostId[q]
        /\ \A v \in Workers : Holds(v, q, ref) => Slot(q, ref)'
    BY <1>1, <2>1
  <2>3. ~InLoading(q, ref)
    BY <2>1 DEF InLoading
  <2>4. ASSUME InResults(q, ref) PROVE Slot(q, ref)'
    <3>1. PICK x \in Result : Reported(x) /\ x.rt = q /\ x.host = hostId[q] /\ ref \in x.loads
      BY <2>4 DEF InResults
    <3>2. results \in Seq(Result)
      BY DEF TypeOK, MainTypeOK
    <3>3. /\ Len(results) \in Nat \ {0} /\ Len(results') = Len(results) - 1
          /\ res = results[1]
          /\ \A i \in 1..Len(results') : results'[i] = results[i + 1]
      BY <2>1, <3>2, HeadTailProperties, EmptySeq, LenProperties
    <3> HIDE DEF res
    <3>4. PICK i \in 1..Len(results) : results[i] = x
      BY <3>1 DEF Reported
    <3>5. CASE i # 1
      <4>1. i - 1 \in 1..Len(results') /\ results'[i - 1] = x
        BY <3>3, <3>4, <3>5
      <4>2. Reported(x)'
        BY <4>1 DEF Reported
      <4> QED BY <2>2, <3>1, <4>2 DEF InResults, Slot
    <3>6. CASE i = 1
      <4>1. res = x
        BY <3>3, <3>4, <3>6
      <4>2. CASE res.gen # generation[res.rt]
        <5>1. Ending(q)
          BY <1>a, <2>2, <3>1, <4>1, <4>2 DEF ResultAge, Timely
        <5> QED BY <1>e, <5>1 DEF Slot
      <4>3. CASE stopped[res.rt]
        BY <1>a, <1>h, <2>2, <3>1, <4>1, <4>3 DEF OfVm
      <4>4. CASE res.gen = generation[res.rt] /\ ~stopped[res.rt]
        <5>1. loading' = {[rt |-> x.rt, host |-> x.host, ref |-> f] : f \in x.loads}
          BY <2>1, <4>1, <4>4
        <5>2. [rt |-> q, host |-> hostId'[q], ref |-> ref] \in loading'
          BY <2>2, <3>1, <5>1
        <5> QED BY <5>2 DEF InLoading, Slot
      <4> QED BY <4>2, <4>3, <4>4
    <3> QED BY <3>5, <3>6
  <2> QED BY <1>0, <2>1, <2>2, <2>3, <2>4
\* The sound is loaded: its completion is in the mailbox, unless it is closed.
<1>7. ASSUME NEW l \in loading, LoadSound(l) PROVE Slot(q, ref)'
  <2>0. l \in Request
    BY DEF TypeOK, MainTypeOK
  <2>1. /\ l.rt \in Runtimes /\ Answer("sound", l.host, l.ref) \in Sent
        /\ Enqueueing(l.rt, Answer("sound", l.host, l.ref))
        /\ results' = results /\ loading' = loading \ {l}
    BY <1>7, EnqueueingSteps
  <2>2. /\ Asked(q, ref) /\ hostId'[q] = hostId[q]
        /\ \A v \in Workers : Holds(v, q, ref) => Slot(q, ref)'
        /\ InMailbox(q, ref) => Slot(q, ref)'
    BY <1>2, <2>1
  <2>3. ASSUME InLoading(q, ref) PROVE Slot(q, ref)'
    <3> DEFINE k == [rt |-> q, host |-> hostId[q], ref |-> ref]
    <3>1. CASE k # l
      <4>1. k \in loading'
        BY <2>1, <2>3, <3>1 DEF InLoading
      <4> QED BY <2>2, <4>1 DEF InLoading, Slot
    <3>2. CASE k = l
      <4>1. l.rt = q /\ l.host = hostId[q] /\ l.ref = ref /\ hostId[q] \in Nat
        BY <2>0, <3>2 DEF TypeOK, HostTypeOK
      <4>2. CASE stopping[q]
        BY <1>a, <1>e, <2>2, <4>2, StoppingEnds DEF Slot
      <4>3. CASE ~stopping[q]
        <5>1. ~stopped[q]
          BY <4>3 DEF TaskInv, Awake
        <5>2. Enqueue(q, Answer("sound", hostId[q], ref))
          BY <2>1, <4>1 DEF Enqueueing
        <5>3. SoundQueued(q, ref, hostId[q])'
          <6> DEFINE h == hostId[q]
          <6>1. h \in Nat /\ Enqueue(q, Answer("sound", h, ref))
            BY <4>1, <5>2
          <6>2. \A n \in Nat : Enqueue(q, Answer("sound", n, ref)) => SoundQueued(q, ref, n)'
            BY <4>3, <5>1, EnqueueSound
          <6>3. h' = h
            BY <2>2
          <6> QED BY <6>1, <6>2, <6>3
        <5>4. InMailbox(q, ref)'
          BY <2>2, <5>3 DEF InMailbox
        <5> QED BY <5>4 DEF Slot
      <4> QED BY <4>2, <4>3
    <3> QED BY <3>1, <3>2
  <2> QED BY <1>0, <2>1, <2>2, <2>3
<1>8. ASSUME NEW w \in Workers,
             \A v \in Workers \ {w} : /\ job'[v] = job[v] /\ event'[v] = event[v]
                                      /\ out'[v] = out[v] /\ pc'[v] = pc[v],
             Asked(q, ref), hostId'[q] = hostId[q], queue'[q] = queue[q],
             UNCHANGED <<results, loading>>,
             Holds(w, q, ref) => Slot(q, ref)'
      PROVE  Slot(q, ref)'
  <2>1. \A v \in Workers : Holds(v, q, ref) => Slot(q, ref)'
    BY <1>8, <1>w, SlotParts
  <2> QED BY <1>0, <1>8, <2>1
\* The callbacks and the sounds of a worker that has called its VM.
<1>9. ASSUME NEW w \in Workers, NEW r \in Runtimes, job[w] = r, NEW h \in Nat,
             NEW cbs \in SUBSET Callback, NEW stage \in Stages, VmCall(w, h, cbs, stage)
      PROVE  /\ \A v \in Workers \ {w} : pc'[v] = pc[v] /\ out'[v] = out[v]
             /\ out[w].loads \subseteq out'[w].loads
             /\ q = r => ref \in out'[w].loads \/ [kind |-> "sound", ref |-> ref] \in cbs
             /\ q # r => Asked(q, ref)
  <2>1. CallEnds(w, stage) /\ CallRegisters(w, h, cbs)
    BY <1>9, VmCallEffect
  <2>2. PICK new \in SUBSET Callback :
           /\ callbacks' = [callbacks EXCEPT ![r] = cbs \cup new]
           /\ \A c \in new : c.kind = "sound" => c.ref \in out'[w].loads
    BY <1>9, <2>1 DEF CallRegisters
  <2>3. PICK o \in Outcomes, loads \in SUBSET Refs :
           out' = [out EXCEPT ![w] = [outcome |-> o, called |-> TRUE, stage |-> stage,
                                      loads |-> out[w].loads \cup loads]]
    BY <2>1 DEF CallEnds
  <2>4. \A v \in Workers \ {w} : pc'[v] = pc[v] /\ out'[v] = out[v]
    BY <2>1, <2>3 DEF CallEnds, TypeOK, WorkerTypeOK
  <2>5. out[w].loads \subseteq out'[w].loads
    BY <2>3 DEF TypeOK, WorkerTypeOK
  <2>6. CASE q = r
    <3>1. callbacks'[q] = cbs \cup new
      BY <2>2, <2>6 DEF TypeOK, HostTypeOK
    <3> DEFINE c == [kind |-> "sound", ref |-> ref]
    <3>2. c \in cbs \/ (c \in new /\ c.kind = "sound" /\ c.ref = ref)
      BY <3>1 DEF Asked
    <3> QED BY <2>2, <2>4, <2>5, <2>6, <3>2
  <2>7. CASE q # r
    <3>1. Asked(q, ref)
      BY <2>2, <2>7 DEF Asked, TypeOK, HostTypeOK
    <3> QED BY <2>4, <2>5, <2>7, <3>1
  <2> QED BY <2>6, <2>7
<1>j. \A w \in Workers : pc[w] # "idle" => job[w] \in Runtimes
  BY DEF TypeOK, WorkerTypeOK
<1>10. ASSUME NEW w \in Workers, TakeTask(w) PROVE Slot(q, ref)'
  <2>1. /\ UNCHANGED <<hostId, callbacks, results, loading, queue, event, out>>
        /\ \A v \in Workers \ {w} : pc'[v] = pc[v] /\ job'[v] = job[v]
        /\ job[w] = NoRuntime
    BY <1>10 DEF TakeTask, hostVars, mailboxVars, mainVars, TypeOK, WorkerTypeOK
  <2>2. ~Holds(w, q, ref) /\ Asked(q, ref)
    BY <2>1, ScriptConstants DEF Holds, Asked
  <2> QED BY <1>8, <2>1, <2>2
<1>11. ASSUME NEW w \in Workers, DrainEnds(w) \/ Teardown(w) \/ Ignore(w) PROVE Slot(q, ref)'
  <2>1. /\ UNCHANGED <<hostId, callbacks, results, loading, queue, event, out>>
        /\ \A v \in Workers \ {w} : pc'[v] = pc[v] /\ job'[v] = job[v]
        /\ out[w] = NoOut
    <3>1. pc[w] \in {"drain", "script"}
      BY <1>11 DEF DrainEnds, Teardown, Ignore
    <3> QED BY <1>11, <1>h, <3>1 DEF DrainEnds, Teardown, Ignore, hostVars, mailboxVars,
            mainVars, AtEvent, TypeOK, WorkerTypeOK
  <2>2. Asked(q, ref)
    BY <2>1 DEF Asked
  <2>3. ~Holds(w, q, ref)
    <3>1. CASE DrainEnds(w)
      BY <2>1, <3>1 DEF Holds, NoOut, DrainEnds
    <3>2. CASE Teardown(w)
      BY <2>1, <3>2 DEF Holds, NoOut, Teardown
    <3>3. CASE Ignore(w)
      <4> SUFFICES ASSUME Holds(w, q, ref) PROVE FALSE
        OBVIOUS
      <4>1. job[w] = q /\ event[w].kind = "sound" /\ event[w].ref = ref
            /\ event[w].host = hostId[q]
        BY <2>1 DEF Holds, NoOut
      <4>2. Answers(q, event[w])
        BY <2>2, <4>1 DEF Answers, Asked
      <4> QED BY <1>a, <2>2, <3>3, <4>1, <4>2 DEF Ignore
    <3> QED BY <1>11, <3>1, <3>2, <3>3
  <2> QED BY <1>8, <2>1, <2>2, <2>3
<1>12. ASSUME NEW w \in Workers, DrainPops(w) PROVE Slot(q, ref)'
  <2>0. PICK r \in Runtimes : job[w] = r
    BY <1>12, <1>j DEF DrainPops
  <2>1. /\ queue[r] # <<>> /\ queue' = [queue EXCEPT ![r] = Tail(queue[r])]
        /\ event' = [event EXCEPT ![w] = Head(queue[r])]
        /\ pc[w] = "drain" /\ pc' = [pc EXCEPT ![w] = "script"]
        /\ UNCHANGED <<hostId, callbacks, job, out, results, loading>>
    BY <1>12, <2>0 DEF DrainPops, hostVars, mainVars
  <2>2. Asked(q, ref) /\ hostId'[q] = hostId[q]
    BY <2>1 DEF Asked
  <2>3. ~Holds(w, q, ref)
    BY <1>h, <2>1 DEF AtEvent, NoOut, Holds
  <2>4. \A v \in Workers \ {w} : /\ job'[v] = job[v] /\ event'[v] = event[v]
                                 /\ out'[v] = out[v] /\ pc'[v] = pc[v]
    BY <2>1 DEF TypeOK, WorkerTypeOK
  <2>5. CASE q # r
    <3>1. queue'[q] = queue[q]
      BY <2>1, <2>5 DEF TypeOK, MailboxTypeOK
    <3> QED BY <1>8, <2>1, <2>2, <2>3, <2>4, <3>1
  <2>6. CASE q = r
    <3>1. ASSUME InMailbox(q, ref) PROVE Slot(q, ref)'
      <4>1. queue[r] \in Seq(Event) /\ queue'[r] = Tail(queue[r])
            /\ event'[w] = Head(queue[r]) /\ pc'[w] = "script"
        BY <2>1 DEF TypeOK, MailboxTypeOK, WorkerTypeOK
      <4>2. /\ Len(queue[r]) \in Nat /\ Len(queue'[r]) = Len(queue[r]) - 1
            /\ event'[w] = queue[r][1]
            /\ \A i \in 1..Len(queue'[r]) : queue'[r][i] = queue[r][i + 1]
        <5>1. /\ Len(queue[r]) \in Nat /\ Head(queue[r]) = queue[r][1]
              /\ Tail(queue[r]) \in Seq(Event) /\ Len(Tail(queue[r])) = Len(queue[r]) - 1
              /\ \A i \in 1..Len(Tail(queue[r])) : Tail(queue[r])[i] = queue[r][i + 1]
          BY <2>1, <4>1, HeadTailProperties, EmptySeq, LenProperties
        <5> QED BY <4>1, <5>1
      <4>3. PICK i \in 1..Len(queue[r]) : /\ queue[r][i].kind = "sound"
                                          /\ queue[r][i].ref = ref
                                          /\ queue[r][i].host = hostId[q]
        BY <2>6, <3>1 DEF InMailbox, SoundQueued
      <4>4. CASE i = 1
        <5>1. /\ event'[w].kind = "sound" /\ event'[w].ref = ref /\ pc'[w] = "script"
              /\ event'[w].host = hostId'[q] /\ job'[w] = q
          BY <2>0, <2>1, <2>6, <4>1, <4>2, <4>3, <4>4
        <5>2. Holds(w, q, ref)'
          BY <5>1 DEF Holds
        <5> QED BY <1>w, <5>2
      <4>5. CASE i # 1
        <5>1. i - 1 \in 1..Len(queue'[r]) /\ queue'[r][i - 1] = queue[r][i]
          BY <4>2, <4>5
        <5>2. InMailbox(q, ref)'
          BY <2>2, <2>6, <4>3, <5>1 DEF InMailbox, SoundQueued
        <5> QED BY <5>2 DEF Slot
      <4> QED BY <4>4, <4>5
    <3>2. \A v \in Workers : Holds(v, q, ref) => Slot(q, ref)'
      BY <1>w, <2>2, <2>3, <2>4, SlotParts
    <3> QED BY <1>0, <2>1, <2>2, <3>1, <3>2
  <2> QED BY <2>5, <2>6
\* The VM is called, and answers nothing that was to come.
<1>13. ASSUME NEW w \in Workers, NEW r \in Runtimes, job[w] = r, NEW h \in Nat,
              NEW cbs \in SUBSET Callback, NEW stage \in Stages, VmCall(w, h, cbs, stage),
              UNCHANGED <<queue, job, event, results, loading>>,
              q # r => hostId'[q] = hostId[q],
              q = r /\ [kind |-> "sound", ref |-> ref] \in cbs =>
                 Ending(q) \/ (/\ Asked(q, ref) /\ hostId'[q] = hostId[q]
                               /\ Holds(w, q, ref) => ref \in out[w].loads)
       PROVE  Slot(q, ref)'
  <2>1. /\ \A v \in Workers \ {w} : pc'[v] = pc[v] /\ out'[v] = out[v]
        /\ out[w].loads \subseteq out'[w].loads
        /\ q = r => ref \in out'[w].loads \/ [kind |-> "sound", ref |-> ref] \in cbs
        /\ q # r => Asked(q, ref)
    BY <1>9, <1>13
  <2>2. CASE q # r
    <3>1. ~Holds(w, q, ref)
      BY <1>13, <2>2 DEF Holds
    <3> QED BY <1>8, <1>13, <2>1, <2>2, <3>1
  <2>3. CASE q = r
    <3>1. ASSUME ref \in out'[w].loads PROVE Slot(q, ref)'
      <4>1. Holds(w, q, ref)'
        BY <1>13, <2>3, <3>1 DEF Holds
      <4> QED BY <1>w, <4>1
    <3>2. CASE Ending(q)
      BY <1>e, <3>2 DEF Slot
    <3>3. ASSUME Asked(q, ref), hostId'[q] = hostId[q],
                 Holds(w, q, ref) => ref \in out[w].loads
          PROVE  Slot(q, ref)'
      BY <1>8, <1>13, <2>1, <3>1, <3>3
    <3> QED BY <1>13, <2>1, <2>3, <3>1, <3>2, <3>3
  <2> QED BY <2>2, <2>3
<1>14. ASSUME NEW w \in Workers, OnExit(w) \/ Build(w) \/ Run(w) PROVE Slot(q, ref)'
  <2>0. PICK r \in Runtimes : job[w] = r
    BY <1>14, <1>j DEF OnExit, Build, Run
  <2>1. UNCHANGED <<queue, job, event, results, loading>>
        /\ (q # r => hostId'[q] = hostId[q])
    BY <1>14, <2>0 DEF OnExit, Build, Run, mailboxVars, mainVars, TypeOK, HostTypeOK
  <2>2. hostId[r] \in Nat /\ callbacks[r] \in SUBSET Callback /\ nextHostId \in Nat
    BY DEF TypeOK, HostTypeOK
  <2>3. CASE OnExit(w)
    <3>1. VmCall(w, hostId[r], callbacks[r], "exit") /\ "exit" \in Stages
      BY <2>0, <2>3 DEF OnExit, Stages
    <3>2. q = r => Ending(q)
      BY <1>h, <2>0, <2>3 DEF OnExit, AtEvent, Ending, Tearing
    <3> DEFINE h == hostId[r]
               cbs == callbacks[r]
    <3> HIDE DEF h, cbs
    <3>3. VmCall(w, h, cbs, "exit") /\ h \in Nat /\ cbs \in SUBSET Callback
      BY <2>2, <3>1 DEF h, cbs
    <3> QED BY <1>13, <2>0, <2>1, <3>1, <3>2, <3>3
  <2>4. CASE Build(w)
    <3>1. VmCall(w, nextHostId, {}, "load") /\ "load" \in Stages
      BY <2>4 DEF Build, Stages
    <3> DEFINE none == {}
    <3>2. none \in SUBSET Callback /\ VmCall(w, nextHostId, none, "load")
          /\ [kind |-> "sound", ref |-> ref] \notin none
      BY <3>1
    <3> HIDE DEF none
    <3> QED BY <1>13, <2>0, <2>1, <2>2, <3>1, <3>2
  <2>5. CASE Run(w)
    <3> DEFINE e == event[w]
               used == IF e.kind \in {"command", "sound"}
                       THEN {[kind |-> e.kind, ref |-> e.ref]} ELSE {}
               cbs == callbacks[r] \ used
               c == [kind |-> "sound", ref |-> ref]
    <3>1. VmCall(w, hostId[r], cbs, "event") /\ "event" \in Stages /\ hostId' = hostId
      BY <2>0, <2>5 DEF Run, Stages
    <3>2. out[w] = NoOut
      BY <1>h, <2>5 DEF Run, AtEvent
    <3>3. ASSUME q = r, c \in cbs
          PROVE  Asked(q, ref) /\ ~Holds(w, q, ref)
      <4>1. Asked(q, ref)
        BY <3>3 DEF Asked
      <4>2. ~(e.kind = "sound" /\ e.ref = ref)
        BY <3>3
      <4> QED BY <3>2, <4>1, <4>2 DEF Holds, NoOut
    <3>4. cbs \in SUBSET Callback
      BY <2>2
    <3> HIDE DEF e, used, cbs
    <3>5. q = r /\ c \in cbs =>
             Asked(q, ref) /\ hostId'[q] = hostId[q] /\ ~Holds(w, q, ref)
      BY <3>1, <3>3
    <3> DEFINE h == hostId[r]
    <3>6. h \in Nat /\ VmCall(w, h, cbs, "event")
      BY <2>2, <3>1
    <3> HIDE DEF h
    <3> QED BY <1>13, <2>0, <2>1, <3>1, <3>4, <3>5, <3>6
  <2> QED BY <1>14, <2>3, <2>4, <2>5
<1>15. ASSUME NEW w \in Workers, LoadUpdate(w) PROVE Slot(q, ref)'
  <2>0. PICK r \in Runtimes : job[w] = r
    BY <1>15, <1>j DEF LoadUpdate
  <2>1. UNCHANGED <<queue, job, event, results, loading, hostId>> /\ pc[w] = "update"
    BY <1>15 DEF LoadUpdate, mailboxVars, mainVars
  <2>2. ASSUME UNCHANGED <<callbacks, out>>, pc' = [pc EXCEPT ![w] = "finish"]
        PROVE  Slot(q, ref)'
    <3>1. \A v \in Workers : pc'[v] = pc[v] \/ pc[v] # "script"
      BY <2>1, <2>2 DEF TypeOK, WorkerTypeOK
    <3> QED BY <1>0, <1>1, <2>1, <2>2, <3>1
  <2>3. ASSUME VmCall(w, hostId[r], callbacks[r], "update")
        PROVE  Slot(q, ref)'
    <3> DEFINE h == hostId[r]
               cbs == callbacks[r]
    <3>1. /\ VmCall(w, h, cbs, "update") /\ h \in Nat /\ cbs \in SUBSET Callback
          /\ "update" \in Stages
          /\ q = r /\ [kind |-> "sound", ref |-> ref] \in cbs => Asked(q, ref)
      BY <2>3 DEF TypeOK, HostTypeOK, Stages, Asked
    <3>2. Holds(w, q, ref) => ref \in out[w].loads
      BY <2>1 DEF Holds
    <3> HIDE DEF h, cbs
    <3> QED BY <1>13, <2>0, <2>1, <3>1, <3>2
  <2> QED BY <1>15, <2>0, <2>2, <2>3 DEF LoadUpdate
<1>16. ASSUME NEW w \in Workers, ResetHost(w) PROVE Slot(q, ref)'
  <2>0. PICK r \in Runtimes : job[w] = r
    BY <1>16, <1>j DEF ResetHost
  <2>1. /\ hostId' = [hostId EXCEPT ![r] = NoHost]
        /\ callbacks' = [callbacks EXCEPT ![r] = {}]
        /\ UNCHANGED <<queue, job, event, results, loading>>
        /\ \A v \in Workers \ {w} : pc'[v] = pc[v] /\ out'[v] = out[v]
    BY <1>16, <2>0 DEF ResetHost, mailboxVars, mainVars, TypeOK, WorkerTypeOK
  <2>2. q # r
    BY <1>v, <2>1 DEF TypeOK, HostTypeOK
  <2>3. Asked(q, ref) /\ hostId'[q] = hostId[q]
    BY <2>1, <2>2 DEF Asked, TypeOK, HostTypeOK
  <2>4. ~Holds(w, q, ref)
    BY <2>0, <2>2 DEF Holds
  <2> QED BY <1>8, <2>1, <2>3, <2>4
<1>17. ASSUME NEW w \in Workers, Health(w) PROVE Slot(q, ref)'
  <2>1. UNCHANGED <<queue, job, event, results, loading, hostId, callbacks, out>>
    BY <1>17 DEF Health, hostVars, mainVars
  <2>2. \A v \in Workers : pc'[v] = pc[v] \/ pc[v] # "script"
    BY <1>17 DEF Health, TypeOK, WorkerTypeOK
  <2> QED BY <1>0, <1>1, <2>1, <2>2
\* The sounds of a call go to the main thread with its result.
<1>18. ASSUME NEW w \in Workers, Finish(w) PROVE Slot(q, ref)'
  <2>0. PICK r \in Runtimes : job[w] = r
    BY <1>18, <1>j DEF Finish
  <2>1. /\ UNCHANGED <<queue, job, hostId, callbacks, loading>> /\ pc[w] = "finish"
        /\ \A v \in Workers \ {w} : pc'[v] = pc[v] /\ out'[v] = out[v] /\ event'[v] = event[v]
        /\ results' = IF out[w].called THEN Append(results, Reply(w)) ELSE results
    BY <1>18 DEF Finish, hostVars, TypeOK, WorkerTypeOK, Reply
  <2>2. Asked(q, ref) /\ hostId'[q] = hostId[q]
    BY <2>1 DEF Asked
  <2>3. Reply(w) \in Result
    <3>1. event[w].gen \in Nat /\ out[w].loads \in SUBSET Refs /\ hostId[r] \in Nat
      BY DEF TypeOK, WorkerTypeOK, HostTypeOK, Event
    <3> QED BY <2>0, <3>1 DEF Result, Reply
  <2> DEFINE y == Reply(w)
  <2>4. y \in Result /\ y.rt = r /\ y.host = hostId[r] /\ y.loads = out[w].loads
    BY <2>0, <2>3 DEF Reply
  <2> HIDE DEF y
  <2>5. /\ results' = results \/ results' = Append(results, y)
        /\ out[w].called => results' = Append(results, y)
    BY <2>1 DEF y
  <2>6. /\ \A x \in Result : Reported(x) => Reported(x)'
        /\ results' = Append(results, y) => \E i \in 1..Len(results') : results'[i] = y
    <3>1. CASE results' = results
      BY <2>5, <3>1 DEF Reported
    <3>2. CASE results' = Append(results, y)
      <4>1. results \in Seq(Result)
        BY DEF TypeOK, MainTypeOK
      <4>2. /\ Len(results) \in Nat /\ Len(results') = Len(results) + 1
            /\ \A i \in 1..Len(results) : results'[i] = results[i]
            /\ results'[Len(results) + 1] = y
        BY <2>4, <3>2, <4>1, AppendProperties, LenProperties
      <4>3. Len(results) + 1 \in 1..Len(results')
            /\ \A i \in 1..Len(results) : i \in 1..Len(results')
        BY <4>2
      <4> QED BY <4>2, <4>3 DEF Reported
    <3> QED BY <2>5, <3>1, <3>2
  <2>7. InResults(q, ref) => InResults(q, ref)'
    BY <2>2, <2>6 DEF InResults
  <2>8. Holds(w, q, ref) => Slot(q, ref)'
    <3> SUFFICES ASSUME Holds(w, q, ref) PROVE Slot(q, ref)'
      OBVIOUS
    <3>1. q = r /\ ref \in out[w].loads
      BY <2>0, <2>1 DEF Holds
    <3>2. out[w].called
      BY <1>h, <3>1 DEF AtEvent
    <3>3. \E i \in 1..Len(results') : results'[i] = y
      BY <2>5, <2>6, <3>2
    <3>4. \A x \in Result : (\E i \in 1..Len(results') : results'[i] = x) => Reported(x)'
      BY DEF Reported
    <3>5. \E x \in Result : Reported(x)' /\ x.rt = q /\ x.host = hostId'[q] /\ ref \in x.loads
      BY <2>2, <2>4, <3>1, <3>3, <3>4
    <3> QED BY <3>5 DEF InResults, Slot
  <2>9. \A v \in Workers : Holds(v, q, ref) => Slot(q, ref)'
    BY <1>w, <2>1, <2>2, <2>8, SlotParts
  <2>10. InResults(q, ref) => Slot(q, ref)'
    BY <2>7 DEF Slot
  <2> QED BY <1>0, <2>1, <2>2, <2>9, <2>10
<1>19. ASSUME NEW w \in Workers, FinishStop(w) PROVE Slot(q, ref)'
  <2>0. PICK r \in Runtimes : job[w] = r
    BY <1>19, <1>j DEF FinishStop
  <2>1. /\ UNCHANGED <<hostId, callbacks, results, loading, out>>
        /\ queue' = [queue EXCEPT ![r] = <<>>]
        /\ \A v \in Workers \ {w} : pc'[v] = pc[v] /\ job'[v] = job[v] /\ event'[v] = event[v]
    BY <1>19, <2>0 DEF FinishStop, hostVars, mainVars, TypeOK, WorkerTypeOK
  <2>2. Asked(q, ref)
    BY <2>1 DEF Asked
  <2>3. q # r
    BY <1>a, <1>h, <1>19, <2>0, <2>2 DEF FinishStop, AtVm
  <2>4. queue'[q] = queue[q]
    BY <2>1, <2>3 DEF TypeOK, MailboxTypeOK
  <2>5. ~Holds(w, q, ref)
    BY <2>0, <2>3 DEF Holds
  <2> QED BY <1>8, <2>1, <2>2, <2>4, <2>5
<1>20. ASSUME NEW r \in Runtimes, (\E e \in MainEvents : Send(r, e)) \/ Post(r)
       PROVE  Slot(q, ref)'
  <2>1. Post(r) => UNCHANGED <<hostId, callbacks, pc, job, event, out, results, loading, queue>>
    BY DEF Post, hostVars, workerVars, mainVars
  <2>2. ASSUME NEW e \in MainEvents, Send(r, e) PROVE Slot(q, ref)'
    BY <1>3, <2>2, EnqueueingSteps
  <2> QED BY <1>5, <1>20, <2>1, <2>2
<1>21. ASSUME NEW c \in inFlight, CommandEnds(c) PROVE Slot(q, ref)'
  BY <1>3, <1>21, EnqueueingSteps
<1>22. ASSUME NEW w \in Workers, NotifyNext(w) PROVE Slot(q, ref)'
  BY <1>3, <1>22, EnqueueingSteps
<1>23. ASSUME UNCHANGED vars PROVE Slot(q, ref)'
  <2>1. UNCHANGED <<hostId, callbacks, pc, job, event, out, results, loading, queue>>
    BY <1>23 DEF vars, hostVars, workerVars, mainVars, mailboxVars
  <2> QED BY <1>5, <2>1
<1>24. ASSUME NEW w \in Workers, TakeTask(w) \/ Drain(w) PROVE Slot(q, ref)'
  BY <1>10, <1>11, <1>12, <1>14, <1>15, <1>16, <1>17, <1>18, <1>19, <1>22, <1>24 DEF Drain
<1> QED
  BY <1>4, <1>6, <1>7, <1>20, <1>21, <1>23, <1>24 DEF Next

LEMMA SlotInit == Init => EventAge /\ StopComes /\ ResultAge /\ SlotInv
<1> SUFFICES ASSUME Init PROVE EventAge /\ StopComes /\ ResultAge /\ SlotInv
  OBVIOUS
<1>1. EventAge
  BY DEF Init, EventAge, Dated, NoEvent, Plain
<1>2. StopComes
  BY DEF Init, StopComes
<1>3. ResultAge
  BY DEF Init, ResultAge, Reported
<1>4. SlotInv
  BY DEF Init, SlotInv, Asked
<1> QED BY <1>1, <1>2, <1>3, <1>4

\* Every sound a VM asked for is answered, while the VM lasts: its load, the result
\* that carries it or its completion is always somewhere.
THEOREM SoundSlots == Spec => []SoundSlotAccounted
<1> DEFINE Age == EventAge /\ StopComes /\ ResultAge /\ SlotInv
<1>1. TypeOK /\ TypeOK' /\ TaskInv /\ HostInv /\ HostInv' /\ Age /\ [Next]_vars => Age'
  BY EventAgeStep, StopComesStep, ResultAgeStep, SlotStep
<1>2. Init => Age
  BY SlotInit
<1>3. TypeOK /\ Age => SoundSlotAccounted
  <2> SUFFICES ASSUME TypeOK, SlotInv, NEW r \in Runtimes, NEW c \in callbacks[r],
                      c.kind = "sound"
               PROVE  \/ Doomed(r)
                      \/ \E w \in Workers : job[w] = r /\
                            (c.ref \in out[w].loads
                             \/ (pc[w] = "script" /\ event[w].kind = "sound"
                                                  /\ event[w].ref = c.ref))
                      \/ \E i \in DOMAIN results : results[i].rt = r
                                /\ results[i].host = hostId[r] /\ c.ref \in results[i].loads
                      \/ [rt |-> r, host |-> hostId[r], ref |-> c.ref] \in loading
                      \/ \E i \in DOMAIN queue[r] : queue[r][i].kind = "sound"
                                /\ queue[r][i].ref = c.ref /\ queue[r][i].host = hostId[r]
    BY DEF SoundSlotAccounted
  <2>1. c \in Callback
    BY DEF TypeOK, HostTypeOK
  <2>2. c = [kind |-> "sound", ref |-> c.ref] /\ c.ref \in Refs
    BY <2>1 DEF Callback
  <2>3. Slot(r, c.ref)
    BY <2>2 DEF SlotInv, Asked
  <2>4. DOMAIN queue[r] = 1..Len(queue[r]) /\ DOMAIN results = 1..Len(results)
    BY LenProperties DEF TypeOK, MailboxTypeOK, MainTypeOK
  <2>5. Ending(r) => Doomed(r)
    BY <2>4 DEF Ending, Pending, Tearing, Doomed
  <2>6. CASE AtWorker(r, c.ref)
    BY <2>6 DEF AtWorker, Holds
  <2>7. CASE InResults(r, c.ref)
    BY <2>4, <2>7 DEF InResults, Reported
  <2>8. CASE InLoading(r, c.ref)
    BY <2>8 DEF InLoading
  <2>9. CASE InMailbox(r, c.ref)
    BY <2>4, <2>9 DEF InMailbox, SoundQueued
  <2> QED BY <2>3, <2>5, <2>6, <2>7, <2>8, <2>9 DEF Slot
<1> QED
  BY <1>1, <1>2, <1>3, TypeCorrect, TaskInvariant, HostInvariant, PTL DEF Spec

-----------------------------------------------------------------------------
(* The mailbox that a runtime implements *)

\* What the worker of r is running: `current` of ScriptMailbox.
Current(r) ==
    IF \E w \in Workers : job[w] = r
    THEN event[CHOOSE w \in Workers : job[w] = r] ELSE NoEvent

CurrentAll == [r \in Runtimes |-> Current(r)]

CurrentRuns ==
    \A r \in Runtimes :
        /\ \A w \in Workers : job[w] = r => Current(r) = event[w]
        /\ (\A w \in Workers : job[w] = r => event[w].kind = "none") => Current(r) = NoEvent

LEMMA CurrentOf == TaskInv /\ PathInv => CurrentRuns
<1> SUFFICES ASSUME TaskInv, PathInv, NEW r \in Runtimes
             PROVE  /\ \A w \in Workers : job[w] = r => Current(r) = event[w]
                    /\ (\A w \in Workers : job[w] = r => event[w].kind = "none") =>
                          Current(r) = NoEvent
  BY DEF CurrentRuns
<1>1. ASSUME NEW w \in Workers, job[w] = r
      PROVE  Current(r) = event[w]
  <2> DEFINE c == CHOOSE v \in Workers : job[v] = r
  <2>1. c \in Workers /\ job[c] = r
    BY <1>1
  <2>2. Current(r) = event[c]
    BY <1>1 DEF Current
  <2> HIDE DEF c
  <2>3. c = w
    BY <1>1, <2>1, ScriptConstants DEF TaskInv, OneTask, SingleDrain
  <2> QED BY <2>2, <2>3
<1>2. ASSUME \A w \in Workers : job[w] = r => event[w].kind = "none"
      PROVE  Current(r) = NoEvent
  <2>1. CASE \E w \in Workers : job[w] = r
    <3>1. PICK w \in Workers : job[w] = r
      BY <2>1
    <3>2. event[w] = NoEvent
      BY <1>2, <3>1 DEF PathInv, AtEvent
    <3> QED BY <1>1, <3>1, <3>2
  <2>2. CASE ~ \E w \in Workers : job[w] = r
    BY <2>2 DEF Current
  <2> QED BY <2>1, <2>2
<1> QED BY <1>1, <1>2

\* The instance has the operators on sequences under names of its own.
LEMMA MailboxSequences ==
    ASSUME NEW s, NEW i
    PROVE  /\ Mailbox!Front(s) = Front(s) /\ Mailbox!Last(s) = Last(s)
           /\ Mailbox!RemoveAt(s, i) = RemoveAt(s, i)
BY DEF Mailbox!Front, Mailbox!Last, Mailbox!RemoveAt, Front, Last, RemoveAt

\* What the main thread, the commands and the watchers do is to append an event or
\* to put one in the place of another.
LEMMA EnqueueMailbox ==
    ASSUME TypeOK, TypeOK', MailInv, NEW r \in Runtimes, NEW e \in Sent, Enqueueing(r, e),
           CurrentAll' = CurrentAll
    PROVE  [Mailbox!Next]_(Mailbox!mailbox)
<1>1. e \in Event /\ queue[r] \in Seq(Event) /\ Len(queue[r]) \in Nat /\ generation[r] \in Nat
      /\ queue \in [Runtimes -> Seq(Event)] /\ queue' \in [Runtimes -> Seq(Event)]
      /\ \A g \in Nat : LET x == [e EXCEPT !.gen = g] IN
            x \in Event /\ x.kind = e.kind /\ x.coalesce = e.coalesce /\ x.fn = e.fn
  BY LenProperties DEF TypeOK, MailboxTypeOK, Event, Sent, NotStop
<1>2. /\ OthersKeep(r)
      /\ \/ Unchanged(r)
         \/ \E i \in 1..Len(queue[r]) : Replaced(r, e, i) \/ Evicted(r, e, i)
         \/ Restarted(r, e)
         \/ Appended(r, e)
  BY <1>1, EnqueueEffect DEF Enqueueing
<1>3. stopped' = stopped /\ (stopped[r] => queue' = queue)
  BY DEF Enqueueing, Enqueue, Refuse, Supersede, AbsorbUpdate, DropWhenFull, Admit,
     Admissible, Open, mailboxVars
<1>4. \A q \in Runtimes \ {r} : queue'[q] = queue[q]
  BY <1>2 DEF OthersKeep
<1>5. ASSUME queue'[r] = queue[r] PROVE UNCHANGED Mailbox!mailbox
  <2>1. queue' = queue
    BY <1>1, <1>4, <1>5
  <2> QED BY <1>3, <2>1 DEF Mailbox!mailbox, CurrentAll, Current
<1>6. ASSUME ~stopped[r], NEW s \in Seq(Event), NEW x \in Event, queue'[r] = Append(s, x),
             s \in Mailbox!Kept(r, x)
      PROVE  Mailbox!Accept(r)
  <2>1. /\ queue'[r] # <<>> /\ Front(queue'[r]) = s /\ Last(queue'[r]) = x
    BY <1>6, FrontAndLast
  <2>2. Mailbox!Front(queue'[r]) \in Mailbox!Kept(r, Mailbox!Last(queue'[r]))
    BY <1>6, <2>1, MailboxSequences
  <2>3. UNCHANGED <<CurrentAll, stopped>>
    BY <1>3
  <2> QED BY <1>4, <1>6, <2>1, <2>2, <2>3 DEF Mailbox!Accept, CurrentAll, Current
<1>7. CASE Unchanged(r) \/ stopped[r]
  BY <1>3, <1>5, <1>7 DEF Unchanged
<1>8. ASSUME ~stopped[r], Restarted(r, e) PROVE Mailbox!Accept(r)
  <2> DEFINE x == [e EXCEPT !.gen = generation[r] + 1]
             none == <<>>
  <2>1. x \in Event /\ x.kind = "load" /\ queue'[r] = <<x>>
    <3> DEFINE g == generation[r] + 1
    <3>1. g \in Nat /\ e.kind = "load" /\ queue'[r] = <<[e EXCEPT !.gen = g]>>
      BY <1>1, <1>8 DEF Restarted
    <3> HIDE DEF g
    <3>2. [e EXCEPT !.gen = g] \in Event /\ [e EXCEPT !.gen = g].kind = "load"
      BY <1>1, <3>1
    <3> QED BY <3>1, <3>2 DEF g
  <2>2. none \in Mailbox!Kept(r, x)
    BY <2>1 DEF Mailbox!Kept, Mailbox!Clears
  <2> HIDE DEF x
  <2>3. none \in Seq(Event) /\ queue'[r] = Append(none, x)
    BY <2>1
  <2> QED BY <1>6, <1>8, <2>1, <2>2, <2>3
<1>9. ASSUME ~stopped[r], Appended(r, e) PROVE Mailbox!Accept(r)
  <2> DEFINE x == [e EXCEPT !.gen = generation[r]]
  <2>1. x \in Event /\ queue'[r] = Append(queue[r], x)
    BY <1>1, <1>9 DEF Appended
  <2> HIDE DEF x
  <2>2. queue[r] \in Mailbox!Kept(r, x)
    BY DEF Mailbox!Kept
  <2> DEFINE s == queue[r]
  <2>3. s \in Seq(Event) /\ s \in Mailbox!Kept(r, x) /\ queue'[r] = Append(s, x)
    BY <1>1, <2>1, <2>2
  <2> HIDE DEF s
  <2> QED BY <1>6, <1>9, <2>1, <2>3
<1>10. ASSUME ~stopped[r], NEW i \in 1..Len(queue[r]), Evicted(r, e, i) PROVE Mailbox!Accept(r)
  <2> DEFINE x == [e EXCEPT !.gen = generation[r]]
             s == RemoveAt(queue[r], i)
  <2>1. x \in Event /\ queue'[r] = Append(s, x)
        /\ (queue[r][i].kind = "update" \/ queue[r][i].droppable)
    BY <1>1, <1>10 DEF Evicted
  <2> HIDE DEF x
  <2>2. i \in DOMAIN queue[r]
    BY <1>1, LenProperties
  <2>3. s = Mailbox!RemoveAt(queue[r], i) /\ s \in Seq(Event)
    BY <1>1, RemoveAtSeq, MailboxSequences
  <2> HIDE DEF s
  <2>4. s \in Mailbox!Kept(r, x)
    BY <2>1, <2>2, <2>3 DEF Mailbox!Kept, Mailbox!Expendable
  <2> QED BY <1>6, <1>10, <2>1, <2>3, <2>4
<1>11. ASSUME ~stopped[r], NEW i \in 1..Len(queue[r]), Replaced(r, e, i) PROVE Mailbox!Replace(r)
  <2> DEFINE x == [e EXCEPT !.gen = generation[r]]
  <2>1. /\ x.coalesce /\ x.fn = e.fn /\ x \in Event
        /\ queue[r][i].coalesce /\ queue[r][i].fn = e.fn
        /\ queue'[r] = [queue[r] EXCEPT ![i] = x]
    BY <1>1, <1>11 DEF Replaced
  <2> HIDE DEF x
  <2>2. i \in DOMAIN queue[r] /\ DOMAIN queue'[r] = DOMAIN queue[r]
    BY <1>1, <2>1, LenProperties
  <2>3. queue'[r][i] = x /\ \A j \in DOMAIN queue[r] \ {i} : queue'[r][j] = queue[r][j]
    BY <2>1, <2>2
  <2>4. UNCHANGED <<CurrentAll, stopped>>
    BY <1>3
  <2>5. /\ DOMAIN queue'[r] = DOMAIN queue[r]
        /\ \A j \in DOMAIN queue[r] \ {i} : queue'[r][j] = queue[r][j]
        /\ queue[r][i].coalesce /\ queue'[r][i].coalesce
        /\ queue'[r][i].fn = queue[r][i].fn
    BY <2>1, <2>2, <2>3
  <2> QED BY <1>4, <1>11, <2>2, <2>4, <2>5 DEF Mailbox!Replace, CurrentAll, Current
<1> QED
  BY <1>2, <1>7, <1>8, <1>9, <1>10, <1>11 DEF Mailbox!Next

\* A step of the runtimes is a step of the mailbox they implement, or leaves it as it
\* is.
LEMMA MailboxStep ==
    ASSUME TypeOK, TypeOK', TaskInv, TaskInv', HostInv, HostInv', [Next]_vars
    PROVE  [Mailbox!Next]_(Mailbox!mailbox)
<1>h. MailInv /\ PathInv /\ PathInv' /\ (\A w \in Workers : AtEvent(w))
  BY DEF HostInv, PathInv
<1>n. NoEvent.kind = "none"
  BY DEF NoEvent, Plain
<1>c. CurrentRuns /\ CurrentRuns'
  BY <1>h, CurrentOf, PTL
\* The worker of r begins or ends an event, or nothing runs otherwise than before.
<1>s. ASSUME EventsStay, event' = event PROVE CurrentAll' = CurrentAll
  <2> SUFFICES ASSUME NEW r \in Runtimes PROVE Current(r)' = Current(r)
    BY DEF CurrentAll
  <2>1. CASE \E w \in Workers : job[w] = r /\ event[w].kind # "none"
    <3>1. PICK w \in Workers : job[w] = r /\ event[w].kind # "none"
      BY <2>1
    <3>2. job'[w] = r /\ event'[w] = event[w]
      BY <1>s, <3>1 DEF EventsStay
    <3> QED BY <1>c, <3>1, <3>2 DEF CurrentRuns
  <2>2. CASE \A w \in Workers : job[w] = r => event[w].kind = "none"
    <3>1. \A w \in Workers : job'[w] = r => event'[w].kind = "none"
      BY <1>s, <2>2 DEF EventsStay
    <3> QED BY <1>c, <2>2, <3>1 DEF CurrentRuns
  <2> QED BY <2>1, <2>2
<1>o. ASSUME NEW w \in Workers, NEW r \in Runtimes, job[w] = r,
             \A v \in Workers \ {w} : job'[v] = job[v] /\ event'[v] = event[v],
             NEW x, Current(r)' = x,
             \A q \in Runtimes \ {r} : job'[w] # q
      PROVE  CurrentAll' = [CurrentAll EXCEPT ![r] = x]
  <2>1. ASSUME NEW q \in Runtimes, q # r PROVE Current(q)' = Current(q)
    <3>1. CASE \E v \in Workers : job[v] = q
      <4>1. PICK v \in Workers : job[v] = q
        BY <3>1
      <4>2. job'[v] = q /\ event'[v] = event[v]
        BY <1>o, <2>1, <4>1
      <4> QED BY <1>c, <4>1, <4>2 DEF CurrentRuns
    <3>2. CASE \A v \in Workers : job[v] # q
      <4>1. \A v \in Workers : job'[v] # q
        BY <1>o, <2>1, <3>2
      <4> QED BY <1>c, <3>2, <4>1 DEF CurrentRuns
    <3> QED BY <3>1, <3>2
  <2>2. CurrentAll' = [q \in Runtimes |-> Current(q)']
    BY DEF CurrentAll
  <2>3. CurrentAll = [q \in Runtimes |-> Current(q)]
    BY DEF CurrentAll
  <2> HIDE DEF CurrentAll
  <2> QED BY <1>o, <2>1, <2>2, <2>3
<1>1. ASSUME NEW r \in Runtimes, NEW e \in Sent, Enqueueing(r, e)
      PROVE  [Mailbox!Next]_(Mailbox!mailbox)
  <2>1. CurrentAll' = CurrentAll
    BY <1>1 DEF Enqueueing, CurrentAll, Current
  <2> QED BY <1>1, <1>h, <2>1, EnqueueMailbox
<1>2. ASSUME NEW r \in Runtimes, Stop(r) PROVE [Mailbox!Next]_(Mailbox!mailbox)
  <2> DEFINE x == [Plain("stop") EXCEPT !.gen = generation[r]]
             none == <<>>
  <2>1. queue' = [queue EXCEPT ![r] = <<x>>] /\ x.kind = "stop"
        /\ UNCHANGED <<job, event, stopped>> /\ ~stopping[r]
    BY <1>2 DEF Stop, Plain, workerVars
  <2>2. x \in Event
    BY DEF TypeOK, MailboxTypeOK, Event, Plain, AllKinds, NoHost
  <2> HIDE DEF x
  <2>3. none \in Seq(Event) /\ queue'[r] = Append(none, x)
    BY <2>1, <2>2 DEF TypeOK, MailboxTypeOK
  <2>4. /\ queue'[r] # <<>> /\ Front(queue'[r]) = none /\ Last(queue'[r]) = x
    BY <2>2, <2>3, FrontAndLast
  <2>5. none \in Mailbox!Kept(r, x)
    BY <2>1 DEF Mailbox!Kept, Mailbox!Clears
  <2> HIDE DEF none
  <2>6. Mailbox!Front(queue'[r]) \in Mailbox!Kept(r, Mailbox!Last(queue'[r]))
    BY <2>4, <2>5, MailboxSequences
  <2>7. UNCHANGED <<CurrentAll, stopped>>
    BY <2>1 DEF CurrentAll, Current
  <2>8. ~stopped[r]
    BY <2>1 DEF TaskInv, Awake
  <2>9. \A s \in Runtimes \ {r} : queue'[s] = queue[s]
    BY <2>1 DEF TypeOK, MailboxTypeOK
  <2>10. Mailbox!Accept(r)
    BY <2>4, <2>6, <2>7, <2>8, <2>9 DEF Mailbox!Accept, CurrentAll, Current
  <2> QED BY <2>10 DEF Mailbox!Next
<1>3. CASE EventsStay /\ UNCHANGED <<queue, generation, stopping, stopped, event>>
  <2>1. UNCHANGED <<queue, CurrentAll, stopped>>
    BY <1>3, <1>s
  <2> QED BY <2>1 DEF Mailbox!mailbox, CurrentAll, Current
<1>4. ASSUME NEW w \in Workers, DrainPops(w) PROVE [Mailbox!Next]_(Mailbox!mailbox)
  <2>0. PICK r \in Runtimes : job[w] = r
    BY <1>4 DEF DrainPops, TypeOK, WorkerTypeOK
  <2>1. /\ pc[w] = "drain" /\ queue[r] # <<>> /\ ~stopped[r]
        /\ queue' = [queue EXCEPT ![r] = Tail(queue[r])]
        /\ event' = [event EXCEPT ![w] = Head(queue[r])]
        /\ UNCHANGED <<job, stopped>>
    BY <1>4, <2>0 DEF DrainPops, stopVars
  <2>2. event[w] = NoEvent /\ Current(r) = NoEvent
    BY <1>c, <1>h, <2>0, <2>1 DEF AtEvent, CurrentRuns
  <2>3. event'[w] = Head(queue[r]) /\ \A v \in Workers \ {w} : event'[v] = event[v]
    BY <2>1 DEF TypeOK, WorkerTypeOK
  <2>4. Current(r)' = Head(queue[r])
    BY <1>c, <2>0, <2>1, <2>3 DEF CurrentRuns
  <2>5. CurrentAll' = [CurrentAll EXCEPT ![r] = Head(queue[r])]
    <3> DEFINE x == Head(queue[r])
    <3>1. Current(r)' = x /\ \A q \in Runtimes \ {r} : job'[w] # q
      BY <2>0, <2>1, <2>4
    <3> HIDE DEF x
    <3>2. \A v \in Workers \ {w} : job'[v] = job[v] /\ event'[v] = event[v]
      BY <2>1, <2>3
    <3>3. CurrentAll' = [CurrentAll EXCEPT ![r] = x]
      BY <1>o, <2>0, <3>1, <3>2
    <3> QED BY <3>3 DEF x
  <2>6. CurrentAll[r] = NoEvent
    BY <2>2 DEF CurrentAll
  <2>7. Mailbox!Start(r)
    BY <2>1, <2>5, <2>6 DEF Mailbox!Start, CurrentAll, Current
  <2> QED BY <2>7 DEF Mailbox!Next
<1>5. ASSUME NEW w \in Workers, Finish(w) \/ FinishStop(w)
      PROVE  [Mailbox!Next]_(Mailbox!mailbox)
  <2>0. PICK r \in Runtimes : job[w] = r
    BY <1>5 DEF Finish, FinishStop, TypeOK, WorkerTypeOK
  <2>1. /\ pc[w] = "finish" /\ event'[w] = NoEvent
        /\ \A v \in Workers \ {w} : job'[v] = job[v] /\ event'[v] = event[v]
        /\ \A q \in Runtimes \ {r} : job'[w] # q
    BY <1>5, <2>0, ScriptConstants DEF Finish, FinishStop, TypeOK, WorkerTypeOK
  <2> DEFINE x == event[w]
             ends == x.kind = "stop"
  <2>2. Current(r) = x /\ x # NoEvent
    BY <1>c, <1>h, <1>n, <2>0, <2>1 DEF CurrentRuns, AtEvent
  <2>3. Current(r)' = NoEvent
    <3>1. \A v \in Workers : job'[v] = r => event'[v].kind = "none"
      BY <1>n, <2>0, <2>1, ScriptConstants DEF TaskInv, OneTask, SingleDrain
    <3> QED BY <1>c, <3>1 DEF CurrentRuns
  <2>4. CurrentAll' = [CurrentAll EXCEPT ![r] = NoEvent]
    <3> DEFINE none == NoEvent
    <3>1. Current(r)' = none
      BY <2>3
    <3>2. none' = none
      BY DEF NoEvent, Plain
    <3> HIDE DEF none
    <3> QED BY <1>o, <2>0, <2>1, <3>1 DEF none
  <2>5. CurrentAll[r] = x
    BY <2>2 DEF CurrentAll
  <2>6. stopped \in [Runtimes -> BOOLEAN] /\ queue \in [Runtimes -> Seq(Event)]
    BY DEF TypeOK, StopTypeOK, MailboxTypeOK
  <2>7. /\ stopped' = [stopped EXCEPT ![r] = ends]
        /\ queue' = [queue EXCEPT ![r] = IF ends THEN <<>> ELSE queue[r]]
    <3>1. CASE Finish(w)
      <4>1. queue' = queue /\ stopped' = stopped /\ ~ends
        BY <3>1 DEF Finish, stopVars
      <4>2. stopped[r] = FALSE
        <5>1. Busy(r)
          BY <2>0 DEF Busy
        <5>2. ~stopped[r]
          BY <5>1 DEF HostInv, VmInv, OfVm, TaskInv, OneTask
        <5> QED BY <2>6, <5>2
      <4>3. ends = FALSE
        BY <4>1
      <4> HIDE DEF ends
      <4>4. stopped = [stopped EXCEPT ![r] = FALSE]
        BY <2>6, <4>2
      <4>5. queue = [queue EXCEPT ![r] = queue[r]]
        BY <2>6
      <4> QED BY <4>1, <4>3, <4>4, <4>5
    <3>2. CASE FinishStop(w)
      <4>1. ends = TRUE
        BY <3>2 DEF FinishStop
      <4>2. stopped' = [stopped EXCEPT ![r] = TRUE] /\ queue' = [queue EXCEPT ![r] = <<>>]
        BY <2>0, <3>2 DEF FinishStop
      <4> HIDE DEF ends
      <4> QED BY <4>1, <4>2
    <3> QED BY <1>5, <3>1, <3>2
  <2>8. /\ CurrentAll[r] # NoEvent
        /\ CurrentAll' = [CurrentAll EXCEPT ![r] = NoEvent]
        /\ stopped' = [stopped EXCEPT ![r] = CurrentAll[r].kind = "stop"]
        /\ queue' = [queue EXCEPT ![r] = IF CurrentAll[r].kind = "stop" THEN <<>> ELSE queue[r]]
    <3>1. ends = (CurrentAll[r].kind = "stop")
      BY <2>5
    <3> HIDE DEF ends, x
    <3> QED BY <2>2, <2>4, <2>5, <2>7, <3>1, Zenon
  <2>9. Mailbox!Complete(r)
    BY <2>8, Zenon DEF Mailbox!Complete, CurrentAll, Current
  <2> QED BY <2>9 DEF Mailbox!Next
<1> QED
  BY <1>1, <1>2, <1>3, <1>4, <1>5, <1>h, EventSteps

\* A plugin runtime is the mailbox of ScriptMailbox: whatever the threads do, an
\* event that was accepted is run, one at a time and in order, unless it gave way to
\* another as that specification allows, and none is run once the runtime is closed.
THEOREM RuntimeImplementsMailbox == Spec => ImplementsMailbox
<1>1. Init => Mailbox!Init
  <2> SUFFICES ASSUME Init PROVE Mailbox!Init
    OBVIOUS
  <2>1. queue = [r \in Runtimes |-> <<>>] /\ stopped = [r \in Runtimes |-> FALSE]
    BY DEF Init
  <2>2. \A w \in Workers : event[w] = NoEvent /\ job[w] = NoRuntime
    BY DEF Init
  <2>3. \A r \in Runtimes : Current(r) = NoEvent
    BY <2>2, ScriptConstants DEF Current
  <2>4. CurrentAll = [r \in Runtimes |-> NoEvent]
    BY <2>3 DEF CurrentAll
  <2> QED BY <2>1, <2>4 DEF Mailbox!Init, CurrentAll, Current
<1>2. TypeOK /\ TypeOK' /\ TaskInv /\ TaskInv' /\ HostInv /\ HostInv' /\ [Next]_vars
      => [Mailbox!Next]_(Mailbox!mailbox)
  BY MailboxStep
<1> QED
  BY <1>1, <1>2, TypeCorrect, TaskInvariant, HostInvariant, PTL
     DEF Spec, ImplementsMailbox, Mailbox!Spec
=============================================================================
