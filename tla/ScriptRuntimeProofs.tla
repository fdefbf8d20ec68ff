------------------------- MODULE ScriptRuntimeProofs -------------------------
(***************************************************************************)
(* Proofs about ScriptRuntime: its type invariant, that no two workers are *)
(* ever in one runtime, and that no event is stranded.                     *)
(***************************************************************************)
EXTENDS ScriptRuntime, DataLemmas

-----------------------------------------------------------------------------
(* The queue *)

\* What enqueue() looks up in the queue is a position of it, or 0.
LEMMA Positions ==
    ASSUME NEW r \in Runtimes, NEW e, queue[r] \in Seq(Event)
    PROVE  /\ Evictable(r) \in 0..Len(queue[r])
           /\ Superseded(r, e) \in 0..Len(queue[r])
<1>0. Len(queue[r]) \in Nat
  BY LenProperties
<1>1. Evictable(r) \in 0..Len(queue[r])
  <2> DEFINE I == {i \in 1..Len(queue[r]) :
                      queue[r][i].kind = "update" \/ queue[r][i].droppable}
  <2>0. I \in SUBSET Nat
    BY <1>0
  <2>1. I # {} => Min(I) \in I
    <3> HIDE DEF I
    <3> QED BY <2>0, MinIsLeast
  <2>2. Evictable(r) = IF I # {} THEN Min(I) ELSE 0
    BY DEF Evictable, SelectInSeq
  <2> QED BY <1>0, <2>1, <2>2
<1>2. Superseded(r, e) \in 0..Len(queue[r])
  <2> DEFINE I == {i \in 1..Len(queue[r]) :
                queue[r][i].kind = "call" /\ queue[r][i].coalesce /\ queue[r][i].fn = e.fn}
  <2>0. I \in SUBSET Nat
    BY <1>0
  <2>1. I # {} => Min(I) \in I
    <3> HIDE DEF I
    <3> QED BY <2>0, MinIsLeast
  <2>2. SelectInSeq(queue[r], LAMBDA q : q.kind = "call" /\ q.coalesce /\ q.fn = e.fn)
          = IF I # {} THEN Min(I) ELSE 0
    BY DEF SelectInSeq
  <2> QED BY <1>0, <2>1, <2>2 DEF Superseded
<1> QED BY <1>1, <1>2

-----------------------------------------------------------------------------
(* The type invariant *)

LEMMA EnqueueType ==
    ASSUME MailboxTypeOK, NEW r \in Runtimes, NEW e \in Event, Enqueue(r, e)
    PROVE  MailboxTypeOK'
<1> USE DEF MailboxTypeOK
<1>q. queue[r] \in Seq(Event)
  OBVIOUS
<1>1. CASE Refuse(r, e)
  BY <1>1 DEF Refuse, mailboxVars, taskVars, statusVars
<1>2. CASE Supersede(r, e)
  <2>1. Superseded(r, e) \in 1..Len(queue[r])
    BY <1>2, <1>q, Positions, LenProperties DEF Supersede
  <2>2. [e EXCEPT !.gen = generation[r]] \in Event
    BY DEF Event
  <2>3. [queue[r] EXCEPT ![Superseded(r, e)] = [e EXCEPT !.gen = generation[r]]] \in Seq(Event)
    BY <1>q, <2>1, <2>2, ExceptSeq
  <2>4. queue' \in [Runtimes -> Seq(Event)]
    BY <1>2, <2>3 DEF Supersede
  <2> QED
    BY <1>2, <2>4 DEF Supersede, taskVars, statusVars
<1>3. CASE AbsorbUpdate(r, e)
  BY <1>3 DEF AbsorbUpdate, mailboxVars, taskVars, statusVars
<1>4. CASE DropWhenFull(r, e)
  BY <1>4 DEF DropWhenFull, taskVars
<1>5. CASE Admit(r, e)
  <2>1. Room(r, e) \in Seq(Event)
    <3>1. Evicts(r, e) => RemoveAt(queue[r], Evictable(r)) \in Seq(Event)
      <4> SUFFICES ASSUME Evicts(r, e) PROVE RemoveAt(queue[r], Evictable(r)) \in Seq(Event)
        OBVIOUS
      <4>1. Evictable(r) \in 0..Len(queue[r]) /\ Len(queue[r]) \in Nat
        BY <1>q, Positions, LenProperties
      <4>2. Evictable(r) # 0
        BY DEF Evicts, NoRoom
      <4>3. Evictable(r) \in 1..Len(queue[r])
        BY <4>1, <4>2
      <4> QED BY <1>q, <4>3, RemoveAtSeq
    <3> QED BY <1>q, <3>1, EmptySeq DEF Room
  <2>2. \A g \in Nat : [e EXCEPT !.gen = g] \in Event
    BY DEF Event
  <2>3. \A g \in Nat : Append(Room(r, e), [e EXCEPT !.gen = g]) \in Seq(Event)
    BY <2>1, <2>2, AppendProperties
  <2>4. queue' \in [Runtimes -> Seq(Event)] /\ generation' \in [Runtimes -> Nat]
    <3> DEFINE gen == IF e.kind = "load" THEN generation[r] + 1 ELSE generation[r]
    <3>1. gen \in Nat
      OBVIOUS
    <3>2. /\ queue' = [queue EXCEPT ![r] = Append(Room(r, e), [e EXCEPT !.gen = gen])]
          /\ generation' = [generation EXCEPT ![r] = gen]
      BY <1>5 DEF Admit
    <3> HIDE DEF gen
    <3> QED BY <2>3, <3>1, <3>2
  <2>5. updates' \in [Runtimes -> [queued : BOOLEAN, running : BOOLEAN, accepted : BOOLEAN]]
    BY <1>5 DEF Admit, NoUpdate
  <2>6. health' \in [Runtimes -> [unhealthy : BOOLEAN, inRow : Nat, timeouts : Nat,
                                  errors : Nat]]
    BY <1>5 DEF Admit, Healthy
  <2>7. scheduled' \in [Runtimes -> BOOLEAN] /\ posting' \in [Runtimes -> BOOLEAN]
    BY <1>5 DEF Admit, Schedule
  <2> QED BY <2>4, <2>5, <2>6, <2>7
<1> QED
  BY <1>1, <1>2, <1>3, <1>4, <1>5 DEF Enqueue

\* The events that are sent are well formed.
LEMMA EventTypes ==
    /\ MainEvents \subseteq Event
    /\ NoEvent \in Event
    /\ \A g \in Nat : [Plain("stop") EXCEPT !.gen = g] \in Event
    /\ \A k \in {"command", "sound", "watch"}, h \in Nat, ref \in Refs :
          Answer(k, h, ref) \in Event
<1>1. \A k \in AllKinds : Plain(k) \in Event
  BY DEF Plain, Event, AllKinds, NoHost
<1>2. \A f \in Functions, c \in BOOLEAN, d \in BOOLEAN : Call(f, c, d) \in Event
  BY DEF Call, Plain, Event, AllKinds, NoHost
<1>3. MainEvents \subseteq Event
  <2> SUFFICES ASSUME NEW e \in MainEvents PROVE e \in Event
    OBVIOUS
  <2>1. CASE \E k \in {"load", "update", "settings"} : e = Plain(k)
    BY <1>1, <2>1 DEF AllKinds
  <2>2. CASE \E f \in Functions, c \in BOOLEAN, d \in BOOLEAN : e = Call(f, c, d)
    BY <1>2, <2>2
  <2> QED
    BY <2>1, <2>2 DEF MainEvents
<1>4. NoEvent \in Event
  BY <1>1 DEF NoEvent, AllKinds
<1>5. \A g \in Nat : [Plain("stop") EXCEPT !.gen = g] \in Event
  BY DEF Plain, Event, AllKinds, NoHost
<1>6. \A k \in {"command", "sound", "watch"}, h \in Nat, ref \in Refs :
          Answer(k, h, ref) \in Event
  BY DEF Answer, Plain, Event, AllKinds
<1> QED BY <1>3, <1>4, <1>5, <1>6

\* A call of the VM leaves what it writes well formed, and the worker in its task.
LEMMA VmCallType ==
    ASSUME TypeOK, NEW w \in Workers, job[w] \in Runtimes, NEW h \in Nat,
           NEW cbs \in SUBSET Callback, NEW stage \in Stages,
           VmCall(w, h, cbs, stage), job' = job, event' = event
    PROVE  /\ callbacks' \in [Runtimes -> SUBSET Callback]
           /\ inFlight' \subseteq Request
           /\ WorkerTypeOK'
           /\ StoreTypeOK'
<1> DEFINE Registered(kind, ref) ==
              callbacks' = [callbacks EXCEPT ![job[w]] = cbs \cup {[kind |-> kind, ref |-> ref]}]
           Ended(loads) == \E o \in Outcomes :
              out' = [out EXCEPT ![w] = [outcome |-> o, called |-> TRUE, stage |-> stage,
                                         loads |-> @.loads \cup loads]]
           Gone(label) == pc' = [pc EXCEPT ![w] = label]
           Plainly == callbacks' = [callbacks EXCEPT ![job[w]] = cbs]
<1> USE DEF TypeOK, HostTypeOK, MainTypeOK
<1>1. \A kind \in {"command", "sound", "watch"}, ref \in Refs :
         Registered(kind, ref) => callbacks' \in [Runtimes -> SUBSET Callback]
  BY DEF Callback
<1>2. Plainly => callbacks' \in [Runtimes -> SUBSET Callback]
  OBVIOUS
<1>3. \A ref \in FreeRefs(cbs) : ref \in Refs
  BY DEF FreeRefs
<1>4. \A loads \in SUBSET Refs : Ended(loads) =>
         out' \in [Workers -> [outcome : {"ok", "error", "timeout"}, called : BOOLEAN,
                               stage : Stages, loads : SUBSET Refs]]
  BY ScriptConstants DEF WorkerTypeOK
<1>5. \A label \in {"notify", "health", "reset"} : Gone(label) =>
         /\ pc' \in [Workers -> {"idle", "drain", "script", "exit", "reset", "build",
                                 "notify", "health", "update", "finish"}]
         /\ \A v \in Workers : job'[v] = NoRuntime <=> pc'[v] = "idle"
  BY ScriptConstants DEF WorkerTypeOK
<1>6. AfterCall(stage) \in {"health", "reset"}
  BY DEF AfterCall
<1>7. event' \in [Workers -> Event] /\ job' \in [Workers -> Runtimes \cup {NoRuntime}]
  BY DEF WorkerTypeOK
<1>8. CASE Plainly /\ Ended({}) /\ Gone(AfterCall(stage)) /\ UNCHANGED <<inFlight, storeVars>>
  BY <1>8, <1>2, <1>4, <1>5, <1>6, <1>7 DEF WorkerTypeOK, StoreTypeOK, storeVars
<1>9. CASE /\ \E ref \in FreeRefs(cbs) :
                 /\ Registered("command", ref)
                 /\ inFlight' = inFlight \cup {[rt |-> job[w], host |-> h, ref |-> ref]}
           /\ Ended({}) /\ Gone(AfterCall(stage))
           /\ UNCHANGED storeVars
  <2>1. PICK ref \in FreeRefs(cbs) :
           /\ Registered("command", ref)
           /\ inFlight' = inFlight \cup {[rt |-> job[w], host |-> h, ref |-> ref]}
    BY <1>9
  <2>2. callbacks' \in [Runtimes -> SUBSET Callback]
    BY <2>1, <1>1, <1>3
  <2>3. [rt |-> job[w], host |-> h, ref |-> ref] \in Request
    BY <1>3 DEF Request
  <2>4. inFlight' \subseteq Request
    BY <2>1, <2>3
  <2> QED
    BY <2>2, <2>4, <1>9, <1>4, <1>5, <1>6, <1>7 DEF WorkerTypeOK, StoreTypeOK, storeVars
<1>10. CASE /\ \E ref \in FreeRefs(cbs) : Registered("sound", ref) /\ Ended({ref})
            /\ Gone(AfterCall(stage))
            /\ UNCHANGED <<inFlight, storeVars>>
  <2>1. callbacks' \in [Runtimes -> SUBSET Callback]
    BY <1>10, <1>1, <1>3
  <2>2. \E loads \in SUBSET Refs : Ended(loads)
    BY <1>10, <1>3
  <2> QED
    BY <2>1, <2>2, <1>10, <1>4, <1>5, <1>6, <1>7 DEF WorkerTypeOK, StoreTypeOK, storeVars
<1>11. CASE /\ \E k \in Keys, ref \in FreeRefs(cbs) :
                  Registered("watch", ref) /\ Watch(k, job[w], ref, h)
            /\ Ended({}) /\ Gone(AfterCall(stage))
            /\ UNCHANGED inFlight
  <2>1. callbacks' \in [Runtimes -> SUBSET Callback]
    BY <1>11, <1>1, <1>3
  <2>2. StoreTypeOK'
    BY <1>11, <1>3 DEF StoreTypeOK, Watch, Watcher
  <2> QED
    BY <2>1, <2>2, <1>11, <1>4, <1>5, <1>6, <1>7 DEF WorkerTypeOK
<1>12. CASE /\ \E k \in Keys : SetKey(w, k)
            /\ Plainly /\ Ended({})
            /\ Gone(IF notifying'[w] = {} THEN AfterCall(stage) ELSE "notify")
            /\ UNCHANGED inFlight
  <2>1. StoreTypeOK'
    BY <1>12 DEF StoreTypeOK, SetKey
  <2>2. Gone(AfterCall(stage)) \/ Gone("notify")
    BY <1>12
  <2> QED
    BY <2>1, <2>2, <1>12, <1>2, <1>4, <1>5, <1>6, <1>7 DEF WorkerTypeOK
<1> QED
  BY <1>8, <1>9, <1>10, <1>11, <1>12 DEF VmCall

\* Every step of the program preserves the type invariant.
LEMMA TypeStep ==
    ASSUME TypeOK, [Next]_vars
    PROVE  TypeOK'
<1> USE DEF TypeOK
<1>0. \A w \in Workers : pc[w] # "idle" => job[w] \in Runtimes
  BY DEF WorkerTypeOK
<1>1. ASSUME NEW r \in Runtimes, NEW e \in MainEvents, Send(r, e) PROVE TypeOK'
  <2>1. MailboxTypeOK'
    BY <1>1, EventTypes, EnqueueType DEF Send
  <2> QED
    BY <1>1, <2>1 DEF Send, stopVars, hostVars, workerVars, mainVars, storeVars,
       StopTypeOK, HostTypeOK, WorkerTypeOK, MainTypeOK, StoreTypeOK
<1>2. ASSUME NEW r \in Runtimes, Stop(r) PROVE TypeOK'
  <2>1. queue' \in [Runtimes -> Seq(Event)]
    <3>1. generation[r] \in Nat
      BY DEF MailboxTypeOK
    <3>2. [Plain("stop") EXCEPT !.gen = generation[r]] \in Event
      BY <3>1, EventTypes
    <3> QED BY <1>2, <3>2 DEF Stop, MailboxTypeOK
  <2>2. MailboxTypeOK'
    BY <1>2, <2>1 DEF Stop, MailboxTypeOK, Schedule
  <2> QED
    BY <1>2, <2>2 DEF Stop, hostVars, workerVars, mainVars, storeVars,
       StopTypeOK, HostTypeOK, WorkerTypeOK, MainTypeOK, StoreTypeOK
<1>3. ASSUME NEW r \in Runtimes, Post(r) PROVE TypeOK'
  <2>1. tasks' \in Seq(Runtimes)
    BY <1>3, AppendProperties DEF Post, MainTypeOK
  <2> QED
    BY <1>3, <2>1 DEF Post, statusVars, stopVars, hostVars, workerVars, mainVars, storeVars,
       MailboxTypeOK, StopTypeOK, HostTypeOK, WorkerTypeOK, MainTypeOK, StoreTypeOK
<1>4. CASE Deliver
  <2>1. Head(results) \in Result /\ results' \in Seq(Result)
    BY <1>4, HeadTailProperties DEF Deliver, MainTypeOK
  <2>2. loading' \subseteq Request
    <3>1. {[rt |-> Head(results).rt, host |-> Head(results).host, ref |-> f] :
              f \in Head(results).loads} \subseteq Request
      BY <2>1 DEF Result, Request
    <3> QED BY <1>4, <3>1 DEF Deliver
  <2> QED
    BY <1>4, <2>1, <2>2 DEF Deliver, mailboxVars, taskVars, statusVars, stopVars, hostVars,
       workerVars, storeVars,
       MailboxTypeOK, StopTypeOK, HostTypeOK, WorkerTypeOK, MainTypeOK, StoreTypeOK
<1>5. ASSUME NEW l \in loading, LoadSound(l) PROVE TypeOK'
  <2>1. l.rt \in Runtimes /\ Answer("sound", l.host, l.ref) \in Event
    BY EventTypes DEF MainTypeOK, Request
  <2>2. MailboxTypeOK'
    BY <1>5, <2>1, EnqueueType DEF LoadSound
  <2> QED
    BY <1>5, <2>2 DEF LoadSound, stopVars, hostVars, workerVars, storeVars,
       StopTypeOK, HostTypeOK, WorkerTypeOK, MainTypeOK, StoreTypeOK
<1>6. ASSUME NEW c \in inFlight, CommandEnds(c) PROVE TypeOK'
  <2>1. c.rt \in Runtimes /\ Answer("command", c.host, c.ref) \in Event
    BY EventTypes DEF MainTypeOK, Request
  <2>2. MailboxTypeOK'
    BY <1>6, <2>1, EnqueueType DEF CommandEnds
  <2> QED
    BY <1>6, <2>2 DEF CommandEnds, stopVars, hostVars, workerVars, mainVars, storeVars,
       StopTypeOK, HostTypeOK, WorkerTypeOK, MainTypeOK, StoreTypeOK
<1>7. ASSUME NEW w \in Workers, TakeTask(w) PROVE TypeOK'
  <2>1. Head(tasks) \in Runtimes /\ tasks' \in Seq(Runtimes)
    BY <1>7, HeadTailProperties DEF TakeTask, MainTypeOK
  <2>2. WorkerTypeOK'
    BY <1>7, <2>1, ScriptConstants DEF TakeTask, WorkerTypeOK
  <2> QED
    BY <1>7, <2>1, <2>2 DEF TakeTask, mailboxVars, taskVars, statusVars, stopVars, hostVars,
       mainVars, storeVars,
       MailboxTypeOK, StopTypeOK, HostTypeOK, MainTypeOK, StoreTypeOK
<1>8. ASSUME NEW w \in Workers, Drain(w) PROVE TypeOK'
  <2> DEFINE r == job[w]
  <2>1. CASE DrainEnds(w)
    <3>1. WorkerTypeOK'
      BY <2>1, ScriptConstants DEF DrainEnds, WorkerTypeOK
    <3> QED
      BY <2>1, <3>1 DEF DrainEnds, statusVars, stopVars, hostVars, mainVars, storeVars,
         MailboxTypeOK, StopTypeOK, HostTypeOK, MainTypeOK, StoreTypeOK
  <2>2. CASE DrainPops(w)
    <3>1. job[w] \in Runtimes
      BY <2>2, <1>0 DEF DrainPops
    <3>2. Head(queue[r]) \in Event /\ Tail(queue[r]) \in Seq(Event)
      BY <2>2, <3>1, HeadTailProperties DEF DrainPops, MailboxTypeOK
    <3>3. WorkerTypeOK'
      BY <2>2, <3>2 DEF DrainPops, WorkerTypeOK
    <3>4. queue' \in [Runtimes -> Seq(Event)]
      BY <2>2, <3>2 DEF DrainPops, MailboxTypeOK
    <3>5. updates' \in [Runtimes -> [queued : BOOLEAN, running : BOOLEAN, accepted : BOOLEAN]]
      <4> DEFINE update == Head(queue[r]).kind = "update"
                 new == [updates[r] EXCEPT !.queued = @ /\ ~update, !.running = @ \/ update]
      <4>0. updates[r] \in [queued : BOOLEAN, running : BOOLEAN, accepted : BOOLEAN]
        BY <3>1 DEF MailboxTypeOK
      <4>1. (updates[r].queued /\ ~update) \in BOOLEAN /\ (updates[r].running \/ update) \in BOOLEAN
        BY Zenon
      <4>2. new \in [queued : BOOLEAN, running : BOOLEAN, accepted : BOOLEAN]
        <5> HIDE DEF update
        <5> QED BY <4>0, <4>1
      <4>3. updates' = [updates EXCEPT ![r] = new]
        BY <2>2, <4>0 DEF DrainPops
      <4> HIDE DEF new
      <4> QED BY <4>2, <4>3 DEF MailboxTypeOK
    <3>6. MailboxTypeOK'
      BY <2>2, <3>4, <3>5 DEF DrainPops, taskVars, MailboxTypeOK
    <3> QED
      BY <2>2, <3>3, <3>6 DEF DrainPops, stopVars, hostVars, mainVars, storeVars,
         StopTypeOK, HostTypeOK, MainTypeOK, StoreTypeOK
  <2>3. CASE Teardown(w)
    <3>1. WorkerTypeOK'
      BY <2>3 DEF Teardown, WorkerTypeOK
    <3>2. StoreTypeOK'
      BY <2>3 DEF Teardown, RemoveWatchers, StoreTypeOK
    <3> QED
      BY <2>3, <3>1, <3>2 DEF Teardown, mailboxVars, taskVars, statusVars, stopVars,
         hostVars, mainVars, MailboxTypeOK, StopTypeOK, HostTypeOK, MainTypeOK
  <2>4. CASE OnExit(w)
    <3>1. job[w] \in Runtimes
      BY <2>4, <1>0 DEF OnExit
    <3>2. hostId[r] \in Nat /\ callbacks[r] \in SUBSET Callback /\ "exit" \in Stages
      BY <3>1 DEF HostTypeOK, Stages
    <3>3. /\ callbacks' \in [Runtimes -> SUBSET Callback]
          /\ inFlight' \subseteq Request
          /\ WorkerTypeOK'
          /\ StoreTypeOK'
      BY <2>4, <3>1, <3>2, VmCallType DEF OnExit
    <3> QED
      BY <2>4, <3>3 DEF OnExit, mailboxVars, taskVars, statusVars, stopVars, mainVars,
         MailboxTypeOK, StopTypeOK, HostTypeOK, MainTypeOK
  <2>5. CASE ResetHost(w)
    <3>1. NoOut \in [outcome : {"ok", "error", "timeout"}, called : BOOLEAN,
                     stage : Stages, loads : SUBSET Refs]
      BY DEF NoOut, Stages
    <3>2. WorkerTypeOK'
      BY <2>5, <3>1 DEF ResetHost, WorkerTypeOK
    <3>3. StoreTypeOK' /\ HostTypeOK'
      BY <2>5 DEF ResetHost, RemoveWatchers, StoreTypeOK, HostTypeOK, NoHost
    <3> QED
      BY <2>5, <3>2, <3>3 DEF ResetHost, mailboxVars, taskVars, statusVars, stopVars,
         mainVars, MailboxTypeOK, StopTypeOK, MainTypeOK
  <2>6. CASE Build(w)
    <3>1. job[w] \in Runtimes
      BY <2>6, <1>0 DEF Build
    <3>2. nextHostId \in Nat /\ {} \in SUBSET Callback /\ "load" \in Stages
      BY DEF HostTypeOK, Stages
    <3>3. /\ callbacks' \in [Runtimes -> SUBSET Callback]
          /\ inFlight' \subseteq Request
          /\ WorkerTypeOK'
          /\ StoreTypeOK'
      BY <2>6, <3>1, <3>2, VmCallType DEF Build
    <3>4. HostTypeOK'
      <4>1. nextHostId + 1 \in Nat /\ nextHostId + 1 # 0
        BY <3>2
      <4>2. /\ hostId' = [hostId EXCEPT ![r] = nextHostId]
            /\ nextHostId' = nextHostId + 1
        BY <2>6 DEF Build
      <4>3. hostId' \in [Runtimes -> Nat]
        BY <3>2, <4>2 DEF HostTypeOK
      <4> QED BY <3>3, <4>1, <4>2, <4>3 DEF HostTypeOK, NoHost
    <3> QED
      BY <2>6, <3>3, <3>4 DEF Build, mailboxVars, taskVars, statusVars, stopVars, mainVars,
         MailboxTypeOK, StopTypeOK, MainTypeOK
  <2>7. CASE Ignore(w)
    <3>1. WorkerTypeOK'
      BY <2>7 DEF Ignore, WorkerTypeOK
    <3> QED
      BY <2>7, <3>1 DEF Ignore, mailboxVars, taskVars, statusVars, stopVars, hostVars,
         mainVars, storeVars, MailboxTypeOK, StopTypeOK, HostTypeOK, MainTypeOK, StoreTypeOK
  <2>8. CASE Run(w)
    <3>1. job[w] \in Runtimes
      BY <2>8, <1>0 DEF Run
    <3> DEFINE used == IF event[w].kind \in {"command", "sound"}
                       THEN {[kind |-> event[w].kind, ref |-> event[w].ref]} ELSE {}
    <3>2. hostId[r] \in Nat /\ callbacks[r] \ used \in SUBSET Callback /\ "event" \in Stages
      BY <3>1 DEF HostTypeOK, Stages
    <3>3. /\ VmCall(w, hostId[r], callbacks[r] \ used, "event")
          /\ job' = job /\ event' = event
      BY <2>8 DEF Run
    <3>4. /\ callbacks' \in [Runtimes -> SUBSET Callback]
          /\ inFlight' \subseteq Request
          /\ WorkerTypeOK'
          /\ StoreTypeOK'
      <4> HIDE DEF used
      <4> QED BY <3>1, <3>2, <3>3, VmCallType
    <3> QED
      BY <2>8, <3>4 DEF Run, mailboxVars, taskVars, statusVars, stopVars, mainVars,
         MailboxTypeOK, StopTypeOK, HostTypeOK, MainTypeOK
  <2>9. CASE NotifyNext(w)
    <3>1. PICK e \in notifying[w] :
             /\ NotifyWatcher(w, e)
             /\ Enqueue(e.token, Answer("watch", e.vm, e.ref))
             /\ pc' = [pc EXCEPT ![w] = IF notifying[w] = {e} THEN AfterCall(out[w].stage)
                                        ELSE "notify"]
      BY <2>9 DEF NotifyNext
    <3>2. e \in Watcher
      BY DEF StoreTypeOK
    <3>3. e.token \in Runtimes /\ Answer("watch", e.vm, e.ref) \in Event
      BY <3>2, EventTypes DEF Watcher
    <3>4. MailboxTypeOK'
      BY <3>1, <3>3, EnqueueType
    <3>5. StoreTypeOK'
      BY <3>1 DEF NotifyWatcher, StoreTypeOK
    <3>6. WorkerTypeOK'
      BY <2>9, <3>1 DEF NotifyNext, AfterCall, WorkerTypeOK
    <3> QED
      BY <2>9, <3>4, <3>5, <3>6 DEF NotifyNext, stopVars, hostVars, mainVars,
         StopTypeOK, HostTypeOK, MainTypeOK
  <2>10. CASE Health(w)
    <3>1. job[w] \in Runtimes
      BY <2>10, <1>0 DEF Health
    <3>2. \A n \in Nat, limit \in Nat : Grown(n, limit) \subseteq Nat
      BY DEF Grown
    <3>3. /\ Grown(health[r].errors, ErrorWindow) \subseteq Nat
          /\ Grown(health[r].timeouts, TimeoutWindow) \subseteq Nat
          /\ health[r].inRow + 1 \in Nat /\ TimeoutLimit \in Nat
      BY <3>1, <3>2, ScriptConstants DEF MailboxTypeOK
    <3> DEFINE inRow == IF health[r].inRow + 1 < TimeoutLimit THEN health[r].inRow + 1
                        ELSE TimeoutLimit
               HealthRecord == [unhealthy : BOOLEAN, inRow : Nat, timeouts : Nat, errors : Nat]
    <3>a. inRow \in Nat
      BY <3>3
    <3>b. health[r] \in HealthRecord
      BY <3>1 DEF MailboxTypeOK
    <3>c. health' \in [Runtimes -> HealthRecord]
      <4>1. CASE health' = [health EXCEPT ![r].inRow = 0]
        BY <4>1 DEF MailboxTypeOK
      <4>2. CASE \E n \in Grown(health[r].errors, ErrorWindow) :
                    health' = [health EXCEPT ![r].inRow = 0, ![r].errors = n,
                                 ![r].unhealthy = @ \/ n >= ErrorWindow]
        <5>1. PICK n \in Grown(health[r].errors, ErrorWindow) :
                    health' = [health EXCEPT ![r].inRow = 0, ![r].errors = n,
                                 ![r].unhealthy = @ \/ n >= ErrorWindow]
          BY <4>2
        <5> DEFINE bad == health[r].unhealthy \/ n >= ErrorWindow
                   new == [health[r] EXCEPT !.inRow = 0, !.errors = n, !.unhealthy = bad]
        <5>2. n \in Nat /\ bad \in BOOLEAN
          BY <3>3, Zenon
        <5>3. health' = [health EXCEPT ![r] = new]
          BY <5>1, <3>b
        <5>4. new \in HealthRecord
          <6> HIDE DEF bad
          <6> QED BY <3>b, <5>2
        <5> HIDE DEF new
        <5> QED BY <5>3, <5>4 DEF MailboxTypeOK
      <4>3. CASE \E n \in Grown(health[r].timeouts, TimeoutWindow) :
                    health' = [health EXCEPT ![r].inRow = inRow, ![r].timeouts = n,
                                 ![r].unhealthy = @ \/ n >= TimeoutWindow
                                                    \/ inRow >= TimeoutLimit]
        <5> HIDE DEF inRow
        <5>1. PICK n \in Grown(health[r].timeouts, TimeoutWindow) :
                    health' = [health EXCEPT ![r].inRow = inRow, ![r].timeouts = n,
                                 ![r].unhealthy = @ \/ n >= TimeoutWindow
                                                    \/ inRow >= TimeoutLimit]
          BY <4>3
        <5> DEFINE bad == health[r].unhealthy \/ n >= TimeoutWindow \/ inRow >= TimeoutLimit
                   new == [health[r] EXCEPT !.inRow = inRow, !.timeouts = n, !.unhealthy = bad]
        <5>2. n \in Nat /\ bad \in BOOLEAN
          BY <3>3, Zenon
        <5>3. health' = [health EXCEPT ![r] = new]
          BY <5>1, <3>b
        <5>4. new \in HealthRecord
          <6> HIDE DEF bad
          <6> QED BY <3>a, <3>b, <5>2
        <5> HIDE DEF new
        <5> QED BY <5>3, <5>4 DEF MailboxTypeOK
      <4> QED BY <2>10, <4>1, <4>2, <4>3 DEF Health
    <3>4. MailboxTypeOK'
      BY <2>10, <3>c DEF Health, MailboxTypeOK, taskVars
    <3>5. WorkerTypeOK'
      BY <2>10 DEF Health, WorkerTypeOK
    <3> QED
      BY <2>10, <3>4, <3>5 DEF Health, stopVars, hostVars, mainVars, storeVars,
         StopTypeOK, HostTypeOK, MainTypeOK, StoreTypeOK
  <2>11. CASE LoadUpdate(w)
    <3>1. CASE /\ pc' = [pc EXCEPT ![w] = "finish"]
               /\ UNCHANGED <<callbacks, out, inFlight, storeVars>>
      <4>1. WorkerTypeOK'
        BY <2>11, <3>1 DEF LoadUpdate, WorkerTypeOK
      <4> QED
        BY <2>11, <3>1, <4>1 DEF LoadUpdate, mailboxVars, taskVars, statusVars, stopVars,
           mainVars, storeVars, MailboxTypeOK, StopTypeOK, HostTypeOK, MainTypeOK, StoreTypeOK
    <3>2. CASE VmCall(w, hostId[r], callbacks[r], "update")
      <4>1. job[w] \in Runtimes
        BY <2>11, <1>0 DEF LoadUpdate
      <4>2. hostId[r] \in Nat /\ callbacks[r] \in SUBSET Callback /\ "update" \in Stages
        BY <4>1 DEF HostTypeOK, Stages
      <4>3. /\ callbacks' \in [Runtimes -> SUBSET Callback]
            /\ inFlight' \subseteq Request
            /\ WorkerTypeOK'
            /\ StoreTypeOK'
        BY <2>11, <3>2, <4>1, <4>2, VmCallType DEF LoadUpdate
      <4> QED
        BY <2>11, <4>3 DEF LoadUpdate, mailboxVars, taskVars, statusVars, stopVars, mainVars,
           MailboxTypeOK, StopTypeOK, HostTypeOK, MainTypeOK
    <3> QED BY <2>11, <3>1, <3>2 DEF LoadUpdate
  <2>12. CASE Finish(w)
    <3>1. job[w] \in Runtimes
      BY <2>12, <1>0 DEF Finish
    <3>2. [rt |-> r, gen |-> event[w].gen, loads |-> out[w].loads, host |-> hostId[r]] \in Result
      BY <3>1 DEF Result, WorkerTypeOK, HostTypeOK, Event
    <3>3. results' \in Seq(Result)
      <4>1. Append(results, [rt |-> r, gen |-> event[w].gen, loads |-> out[w].loads,
                             host |-> hostId[r]]) \in Seq(Result)
        BY <3>2, AppendProperties DEF MainTypeOK
      <4> QED BY <2>12, <4>1 DEF Finish, MainTypeOK
    <3>4. NoOut \in [outcome : {"ok", "error", "timeout"}, called : BOOLEAN,
                     stage : Stages, loads : SUBSET Refs]
      BY DEF NoOut, Stages
    <3>5. WorkerTypeOK'
      BY <2>12, <3>4, EventTypes DEF Finish, WorkerTypeOK
    <3>6. MailboxTypeOK'
      BY <2>12 DEF Finish, MailboxTypeOK, taskVars
    <3> QED
      BY <2>12, <3>3, <3>5, <3>6 DEF Finish, stopVars, hostVars, storeVars,
         StopTypeOK, HostTypeOK, MainTypeOK, StoreTypeOK
  <2>13. CASE FinishStop(w)
    <3>1. WorkerTypeOK'
      BY <2>13, ScriptConstants, EventTypes DEF FinishStop, WorkerTypeOK
    <3>2. MailboxTypeOK'
      <4>1. <<>> \in Seq(Event)
        BY EmptySeq
      <4> QED BY <2>13, <4>1 DEF FinishStop, MailboxTypeOK, statusVars
    <3>3. StopTypeOK'
      BY <2>13 DEF FinishStop, StopTypeOK
    <3> QED
      BY <2>13, <3>1, <3>2, <3>3 DEF FinishStop, hostVars, mainVars, storeVars,
         HostTypeOK, MainTypeOK, StoreTypeOK
  <2> QED
    BY <1>8, <2>1, <2>2, <2>3, <2>4, <2>5, <2>6, <2>7, <2>8, <2>9, <2>10, <2>11, <2>12,
       <2>13 DEF Drain
<1>9. CASE UNCHANGED vars
  BY <1>9 DEF vars, mailboxVars, taskVars, statusVars, stopVars, hostVars, workerVars,
     mainVars, storeVars, MailboxTypeOK, StopTypeOK, HostTypeOK, WorkerTypeOK, MainTypeOK,
     StoreTypeOK
<1> QED
  BY <1>1, <1>2, <1>3, <1>4, <1>5, <1>6, <1>7, <1>8, <1>9 DEF Next

\* The program starts well typed.
LEMMA TypeInit == Init => TypeOK
<1> SUFFICES ASSUME Init PROVE TypeOK
  OBVIOUS
<1> USE DEF Init
<1>1. MailboxTypeOK
  BY EmptySeq DEF MailboxTypeOK, NoUpdate, Healthy
<1>2. StopTypeOK /\ HostTypeOK /\ StoreTypeOK
  BY DEF StopTypeOK, HostTypeOK, StoreTypeOK, StoreInit, NoHost
<1>3. WorkerTypeOK
  <2>1. NoOut \in [outcome : {"ok", "error", "timeout"}, called : BOOLEAN,
                   stage : Stages, loads : SUBSET Refs]
    BY DEF NoOut, Stages
  <2> QED BY <2>1, EventTypes, ScriptConstants DEF WorkerTypeOK
<1>4. MainTypeOK
  BY EmptySeq DEF MainTypeOK
<1> QED
  BY <1>1, <1>2, <1>3, <1>4 DEF TypeOK

\* Every variable keeps to its type, in every behaviour and for every value of the
\* constants; among others, a worker without a task is idle and only then.
THEOREM TypeCorrect == Spec => []TypeOK
<1>1. TypeOK /\ [Next]_vars => TypeOK'
  BY TypeStep
<1> QED
  BY <1>1, TypeInit, PTL DEF Spec

-----------------------------------------------------------------------------
(* One task for each scheduled runtime *)

Waiting(r) == \E i \in 1..Len(tasks) : tasks[i] = r
Busy(r) == \E w \in Workers : job[w] = r

\* The task of a runtime is about to be posted, in the pool or at a worker; it is
\* at one of the three, once, exactly while `scheduled` is set.
OneTask ==
    /\ SingleDrain
    /\ \A i, j \in 1..Len(tasks) : tasks[i] = tasks[j] => i = j
    /\ \A r \in Runtimes :
          /\ posting[r] => ~Waiting(r) /\ ~Busy(r)
          /\ Waiting(r) => ~Busy(r)
          /\ scheduled[r] <=> posting[r] \/ Waiting(r) \/ Busy(r)

\* A runtime with events is scheduled, and a stopped one has none.
Awake ==
    \A r \in Runtimes :
        /\ queue[r] # <<>> => scheduled[r]
        /\ stopped[r] => queue[r] = <<>> /\ stopping[r]

\* Only stop() posts the event that makes a worker stop the runtime.
NotStop == {e \in Event : e.kind # "stop"}

StopOnlyClosed ==
    /\ \A r \in Runtimes : stopping[r] \/ queue[r] \in Seq(NotStop)
    /\ \A w \in Workers : event[w].kind = "stop" =>
          pc[w] \notin {"idle", "drain"} /\ stopping[job[w]]

\* The inductive invariant behind SingleDrain and NoStrandedEvent.
TaskInv == OneTask /\ Awake /\ StopOnlyClosed

LEMMA TaskInit == Init => TaskInv
<1> SUFFICES ASSUME Init PROVE TaskInv
  OBVIOUS
<1>1. \A r \in Runtimes : ~Busy(r) /\ ~Waiting(r)
  BY ScriptConstants DEF Init, Busy, Waiting
<1>2. OneTask
  BY <1>1 DEF Init, OneTask, SingleDrain
<1>3. Awake
  BY DEF Init, Awake
<1>4. StopOnlyClosed
  BY EmptySeq DEF Init, StopOnlyClosed, NoEvent, Plain
<1> QED
  BY <1>2, <1>3, <1>4 DEF TaskInv

\* A step that neither enqueues nor takes or ends a task.
LEMMA TaskFrame ==
    ASSUME TaskInv, UNCHANGED <<queue, scheduled, posting, tasks, job, stopping, stopped>>,
           \A v \in Workers : event'[v].kind = "stop" =>
              event[v].kind = "stop" /\ pc'[v] \notin {"idle", "drain"}
    PROVE  TaskInv'
<1>1. OneTask'
  BY DEF TaskInv, OneTask, SingleDrain, Waiting, Busy
<1>2. Awake'
  BY DEF TaskInv, Awake
<1>3. StopOnlyClosed'
  BY DEF TaskInv, StopOnlyClosed
<1> QED
  BY <1>1, <1>2, <1>3 DEF TaskInv

\* Scheduling a runtime makes a task if it has none.
LEMMA ScheduleTask ==
    ASSUME TypeOK, OneTask, NEW r \in Runtimes, Schedule(r), tasks' = tasks, job' = job
    PROVE  /\ OneTask'
           /\ scheduled'[r]
           /\ \A q \in Runtimes : scheduled[q] => scheduled'[q]
<1> USE DEF TypeOK, MailboxTypeOK
<1>1. \A q \in Runtimes : Waiting(q)' = Waiting(q) /\ Busy(q)' = Busy(q)
  BY DEF Waiting, Busy
<1>2. /\ scheduled' = [scheduled EXCEPT ![r] = TRUE]
      /\ posting' = [posting EXCEPT ![r] = posting[r] \/ ~scheduled[r]]
  BY DEF Schedule
<1>3. \A q \in Runtimes :
          /\ posting'[q] => ~Waiting(q)' /\ ~Busy(q)'
          /\ Waiting(q)' => ~Busy(q)'
          /\ scheduled'[q] <=> posting'[q] \/ Waiting(q)' \/ Busy(q)'
  <2> SUFFICES ASSUME NEW q \in Runtimes
               PROVE  /\ posting'[q] => ~Waiting(q)' /\ ~Busy(q)'
                      /\ Waiting(q)' => ~Busy(q)'
                      /\ scheduled'[q] <=> posting'[q] \/ Waiting(q)' \/ Busy(q)'
    OBVIOUS
  <2>1. CASE q = r
    <3>1. scheduled'[r] = TRUE /\ posting'[r] = (posting[r] \/ ~scheduled[r])
      BY <1>2
    <3> QED BY <1>1, <2>1, <3>1, Zenon DEF OneTask
  <2>2. CASE q # r
    <3>1. scheduled'[q] = scheduled[q] /\ posting'[q] = posting[q]
      BY <1>2, <2>2
    <3> QED BY <1>1, <3>1, Zenon DEF OneTask
  <2> QED BY <2>1, <2>2
<1>4. SingleDrain' /\ \A i, j \in 1..Len(tasks') : tasks'[i] = tasks'[j] => i = j
  BY DEF OneTask, SingleDrain
<1> QED
  BY <1>2, <1>3, <1>4 DEF OneTask

\* enqueue() keeps the invariant: whatever it does to the mailbox, a runtime that
\* gets its first event is scheduled.
LEMMA EnqueueTask ==
    ASSUME TypeOK, TaskInv, NEW r \in Runtimes, NEW e \in NotStop, Enqueue(r, e),
           UNCHANGED <<tasks, job, stopping, stopped, event>>,
           \A v \in Workers : pc'[v] \in {"idle", "drain"} => pc[v] \in {"idle", "drain"}
    PROVE  TaskInv'
<1> USE DEF TypeOK, MailboxTypeOK
<1>e. e \in Event /\ e.kind # "stop"
  BY DEF NotStop
<1>f. \A w \in Workers : event'[w].kind = "stop" =>
          pc'[w] \notin {"idle", "drain"} /\ stopping'[job'[w]]
  BY DEF TaskInv, StopOnlyClosed
<1>1. CASE UNCHANGED <<queue, scheduled, posting>>
  <2>1. \A v \in Workers : event'[v].kind = "stop" =>
              event[v].kind = "stop" /\ pc'[v] \notin {"idle", "drain"}
    BY <1>f
  <2> QED BY <1>1, <2>1, TaskFrame
<1>2. CASE Supersede(r, e)
  <2> DEFINE i == Superseded(r, e)
             new == [queue[r] EXCEPT ![i] = [e EXCEPT !.gen = generation[r]]]
  <2>1. i \in 1..Len(queue[r])
    BY <1>2, Positions, LenProperties DEF Supersede
  <2>2. Open(r, e) /\ queue' = [queue EXCEPT ![r] = new] /\ UNCHANGED <<scheduled, posting>>
    BY <1>2 DEF Supersede, taskVars
  <2>3. queue[r] # <<>>
    BY <2>1
  <2>4. [e EXCEPT !.gen = generation[r]] \in NotStop
    BY <1>e DEF Event, NotStop
  <2>5. queue[r] \in Seq(NotStop) => new \in Seq(NotStop)
    BY <2>1, <2>4, ExceptSeq
  <2> HIDE DEF i, new
  <2>6. OneTask'
    BY <2>2 DEF TaskInv, OneTask, SingleDrain, Waiting, Busy
  <2>7. Awake'
    BY <2>2, <2>3 DEF TaskInv, Awake, Open
  <2>8. StopOnlyClosed'
    BY <1>f, <2>2, <2>5 DEF TaskInv, StopOnlyClosed
  <2> QED BY <2>6, <2>7, <2>8 DEF TaskInv
<1>3. CASE Admit(r, e)
  <2> DEFINE gen == IF e.kind = "load" THEN generation[r] + 1 ELSE generation[r]
             new == Append(Room(r, e), [e EXCEPT !.gen = gen])
  <2>1. queue' = [queue EXCEPT ![r] = new] /\ Schedule(r) /\ Open(r, e)
    BY <1>3 DEF Admit, Admissible
  <2>2. [e EXCEPT !.gen = gen] \in NotStop
    <3>1. gen \in Nat
      OBVIOUS
    <3> HIDE DEF gen
    <3> QED BY <1>e, <3>1 DEF Event, NotStop
  <2>3. queue[r] \in Seq(NotStop) => new \in Seq(NotStop)
    <3> SUFFICES ASSUME queue[r] \in Seq(NotStop) PROVE new \in Seq(NotStop)
      OBVIOUS
    <3>1. Evicts(r, e) => Evictable(r) \in 1..Len(queue[r])
      <4>1. Evictable(r) \in 0..Len(queue[r]) /\ Len(queue[r]) \in Nat
        BY Positions, LenProperties
      <4>2. Evicts(r, e) => Evictable(r) # 0
        BY DEF Evicts, NoRoom
      <4> QED BY <4>1, <4>2
    <3>2. Room(r, e) \in Seq(NotStop)
      BY <3>1, RemoveAtSeq, EmptySeq DEF Room
    <3> HIDE DEF gen
    <3> QED BY <2>2, <3>2, AppendProperties
  <2> HIDE DEF gen, new
  <2>4. /\ OneTask'
        /\ scheduled'[r]
        /\ \A q \in Runtimes : scheduled[q] => scheduled'[q]
    BY <2>1, ScheduleTask DEF TaskInv
  <2>5. Awake'
    BY <2>1, <2>4 DEF TaskInv, Awake, Open
  <2>6. StopOnlyClosed'
    BY <1>f, <2>1, <2>3 DEF TaskInv, StopOnlyClosed
  <2> QED BY <2>4, <2>5, <2>6 DEF TaskInv
<1> QED
  BY <1>1, <1>2, <1>3 DEF Enqueue, Refuse, AbsorbUpdate, DropWhenFull, mailboxVars, taskVars

\* The events the environment and the watchers send do not stop a runtime.
LEMMA SentNotStop ==
    /\ MainEvents \subseteq NotStop
    /\ \A k \in {"command", "sound", "watch"}, h \in Nat, ref \in Refs :
          Answer(k, h, ref) \in NotStop
<1>1. \A e \in MainEvents : e.kind # "stop"
  <2>1. \A k \in {"load", "update", "settings"} : Plain(k).kind # "stop"
    BY DEF Plain
  <2>2. \A f, c, d : Call(f, c, d).kind # "stop"
    BY DEF Call, Plain
  <2> QED BY <2>1, <2>2 DEF MainEvents
<1>2. \A k \in {"command", "sound", "watch"} : \A h, ref : Answer(k, h, ref).kind # "stop"
  BY DEF Answer, Plain
<1> QED
  BY <1>1, <1>2, EventTypes DEF NotStop

\* A call of the VM leaves the worker within its event.
LEMMA VmCallStays ==
    ASSUME NEW w \in Workers, NEW h, NEW cbs, NEW stage, VmCall(w, h, cbs, stage)
    PROVE  \E label \in {"notify", "health", "reset"} : pc' = [pc EXCEPT ![w] = label]
BY DEF VmCall, AfterCall

\* Every step keeps the task invariant.
LEMMA TaskStep ==
    ASSUME TypeOK, TaskInv, [Next]_vars
    PROVE  TaskInv'
<1> USE DEF TypeOK, WorkerTypeOK
<1>0. \A w \in Workers : pc[w] # "idle" => job[w] \in Runtimes
  OBVIOUS
<1>1. ASSUME NEW r \in Runtimes, NEW e \in MainEvents, Send(r, e) PROVE TaskInv'
  BY <1>1, SentNotStop, EnqueueTask DEF Send, stopVars, workerVars
<1>2. ASSUME NEW r \in Runtimes, Stop(r) PROVE TaskInv'
  <2>1. Schedule(r) /\ UNCHANGED <<tasks, job, event, pc, stopped>>
    BY <1>2 DEF Stop, workerVars
  <2>2. /\ OneTask'
        /\ scheduled'[r]
        /\ \A q \in Runtimes : scheduled[q] => scheduled'[q]
    BY <2>1, ScheduleTask DEF TaskInv
  <2>3. /\ ~stopping[r]
        /\ stopping' = [stopping EXCEPT ![r] = TRUE]
        /\ \A q \in Runtimes \ {r} : queue'[q] = queue[q]
    BY <1>2 DEF Stop, MailboxTypeOK
  <2>4. Awake'
    BY <2>1, <2>2, <2>3 DEF TaskInv, Awake, StopTypeOK
  <2>5. \A q \in Runtimes : stopping[q] => stopping'[q]
    BY <2>3 DEF StopTypeOK
  <2>6. \A w \in Workers : event[w].kind = "stop" => job[w] \in Runtimes
    BY DEF TaskInv, StopOnlyClosed
  <2>7. StopOnlyClosed'
    BY <2>1, <2>3, <2>5, <2>6 DEF TaskInv, StopOnlyClosed, StopTypeOK
  <2> QED BY <2>2, <2>4, <2>7 DEF TaskInv
<1>3. ASSUME NEW r \in Runtimes, Post(r) PROVE TaskInv'
  <2>1. /\ posting[r]
        /\ posting' = [posting EXCEPT ![r] = FALSE]
        /\ tasks' = Append(tasks, r)
        /\ UNCHANGED <<queue, scheduled, job, event, pc, stopping, stopped>>
    BY <1>3 DEF Post, stopVars, workerVars
  <2>2. /\ Len(tasks) \in Nat /\ Len(tasks') = Len(tasks) + 1
        /\ \A i \in 1..Len(tasks) : tasks'[i] = tasks[i]
        /\ tasks'[Len(tasks) + 1] = r
    BY <2>1, AppendProperties, LenProperties DEF MainTypeOK
  <2>3. \A q \in Runtimes : Waiting(q)' <=> Waiting(q) \/ q = r
    <3>1. ASSUME NEW q \in Runtimes, Waiting(q)' PROVE Waiting(q) \/ q = r
      BY <3>1, <2>2 DEF Waiting
    <3>2. ASSUME NEW q \in Runtimes, Waiting(q) PROVE Waiting(q)'
      <4>1. PICK i \in 1..Len(tasks) : tasks[i] = q
        BY <3>2 DEF Waiting
      <4>2. i \in 1..Len(tasks') /\ tasks'[i] = q
        BY <2>2, <4>1
      <4> QED BY <4>2 DEF Waiting
    <3>3. Waiting(r)'
      <4>1. Len(tasks) + 1 \in 1..Len(tasks')
        BY <2>2
      <4> QED BY <2>2, <4>1 DEF Waiting
    <3> QED BY <3>1, <3>2, <3>3
  <2>4. \A q \in Runtimes : Busy(q)' <=> Busy(q)
    BY <2>1 DEF Busy
  <2>5. \A i, j \in 1..Len(tasks') : tasks'[i] = tasks'[j] => i = j
    <3>1. ~Waiting(r)
      BY <2>1 DEF TaskInv, OneTask
    <3>2. \A i \in 1..Len(tasks) : tasks[i] # r
      BY <3>1 DEF Waiting
    <3>3. \A i, j \in 1..Len(tasks) : tasks[i] = tasks[j] => i = j
      BY DEF TaskInv, OneTask
    <3> QED BY <2>2, <3>2, <3>3
  <2>6. \A q \in Runtimes :
          /\ posting'[q] => ~Waiting(q)' /\ ~Busy(q)'
          /\ Waiting(q)' => ~Busy(q)'
          /\ scheduled'[q] <=> posting'[q] \/ Waiting(q)' \/ Busy(q)'
    BY <2>1, <2>3, <2>4 DEF TaskInv, OneTask, MailboxTypeOK
  <2>7. OneTask'
    BY <2>1, <2>5, <2>6 DEF TaskInv, OneTask, SingleDrain
  <2> QED
    BY <2>1, <2>7 DEF TaskInv, Awake, StopOnlyClosed
<1>4. CASE Deliver
  <2>1. UNCHANGED <<queue, scheduled, posting, tasks, job, stopping, stopped, event, pc>>
    BY <1>4 DEF Deliver, mailboxVars, taskVars, stopVars, workerVars
  <2> QED BY <2>1, TaskFrame DEF TaskInv, StopOnlyClosed
<1>5. ASSUME NEW l \in loading, LoadSound(l) PROVE TaskInv'
  <2>1. l.rt \in Runtimes /\ Answer("sound", l.host, l.ref) \in NotStop
    BY SentNotStop DEF MainTypeOK, Request
  <2> QED BY <1>5, <2>1, EnqueueTask DEF LoadSound, stopVars, workerVars
<1>6. ASSUME NEW c \in inFlight, CommandEnds(c) PROVE TaskInv'
  <2>1. c.rt \in Runtimes /\ Answer("command", c.host, c.ref) \in NotStop
    BY SentNotStop DEF MainTypeOK, Request
  <2> QED BY <1>6, <2>1, EnqueueTask DEF CommandEnds, stopVars, workerVars
<1>7. ASSUME NEW w \in Workers, TakeTask(w) PROVE TaskInv'
  <2> DEFINE r == Head(tasks)
  <2>1. /\ pc[w] = "idle" /\ tasks # <<>>
        /\ pc' = [pc EXCEPT ![w] = "drain"]
        /\ job' = [job EXCEPT ![w] = r]
        /\ tasks' = Tail(tasks)
        /\ UNCHANGED <<queue, scheduled, posting, event, stopping, stopped>>
    BY <1>7 DEF TakeTask, mailboxVars, taskVars, stopVars
  <2>2. /\ Len(tasks) \in Nat \ {0} /\ Len(tasks') = Len(tasks) - 1
        /\ r = tasks[1] /\ r \in Runtimes
        /\ \A i \in 1..Len(tasks') : tasks'[i] = tasks[i + 1]
    BY <2>1, HeadTailProperties, EmptySeq, LenProperties DEF MainTypeOK
  <2>3. \A i, j \in 1..Len(tasks) : tasks[i] = tasks[j] => i = j
    BY DEF TaskInv, OneTask
  <2>4. Waiting(r)
    BY <2>2 DEF Waiting
  <2>5. \A q \in Runtimes : Waiting(q)' <=> Waiting(q) /\ q # r
    <3>1. \A q : Waiting(q)' => Waiting(q) /\ q # r
      BY <2>2, <2>3 DEF Waiting
    <3>2. ASSUME NEW q, Waiting(q), q # r PROVE Waiting(q)'
      <4>1. PICK i \in 1..Len(tasks) : tasks[i] = q
        BY <3>2 DEF Waiting
      <4>2. i - 1 \in 1..Len(tasks') /\ tasks'[i - 1] = q
        BY <2>2, <3>2, <4>1
      <4> QED BY <4>2 DEF Waiting
    <3> QED BY <3>1, <3>2
  <2>6. \A i, j \in 1..Len(tasks') : tasks'[i] = tasks'[j] => i = j
    BY <2>2, <2>3
  <2>7. job[w] = NoRuntime /\ ~Busy(r)
    BY <2>1, <2>2, <2>4 DEF TaskInv, OneTask
  <2>8. \A v \in Workers : job'[v] = IF v = w THEN r ELSE job[v]
    BY <2>1
  <2> HIDE DEF r
  <2>9. \A q \in Runtimes : Busy(q)' <=> Busy(q) \/ q = r
    BY <2>2, <2>7, <2>8, ScriptConstants DEF Busy
  <2>10. SingleDrain'
    BY <2>7, <2>8 DEF TaskInv, OneTask, SingleDrain, Busy
  <2>11. \A q \in Runtimes :
          /\ posting'[q] => ~Waiting(q)' /\ ~Busy(q)'
          /\ Waiting(q)' => ~Busy(q)'
          /\ scheduled'[q] <=> posting'[q] \/ Waiting(q)' \/ Busy(q)'
    BY <2>1, <2>4, <2>5, <2>9 DEF TaskInv, OneTask, MailboxTypeOK
  <2>12. StopOnlyClosed'
    BY <2>1 DEF TaskInv, StopOnlyClosed
  <2>13. Awake'
    BY <2>1 DEF TaskInv, Awake
  <2> QED BY <2>6, <2>10, <2>11, <2>12, <2>13 DEF TaskInv, OneTask
<1>8. ASSUME NEW w \in Workers, Drain(w) PROVE TaskInv'
  <2>1. CASE DrainEnds(w) \/ FinishStop(w)
    <3>1. job[w] \in Runtimes
      BY <2>1 DEF DrainEnds, FinishStop
    <3> DEFINE r == job[w]
    <3>2. /\ scheduled' = [scheduled EXCEPT ![r] = FALSE]
          /\ pc' = [pc EXCEPT ![w] = "idle"]
          /\ job' = [job EXCEPT ![w] = NoRuntime]
          /\ UNCHANGED <<posting, tasks, stopping>>
          /\ \A q \in Runtimes \ {r} : queue'[q] = queue[q] /\ stopped'[q] = stopped[q]
      BY <2>1, <3>1 DEF DrainEnds, FinishStop, stopVars, MailboxTypeOK, StopTypeOK
    <3>3. queue'[r] = <<>>
      BY <2>1, <3>1 DEF DrainEnds, FinishStop, MailboxTypeOK, TaskInv, Awake
    <3>4. stopped'[r] => stopping[r]
      BY <2>1, <3>1 DEF DrainEnds, FinishStop, stopVars, TaskInv, Awake, StopOnlyClosed
    <3>5. \A v \in Workers : job'[v] = IF v = w THEN NoRuntime ELSE job[v]
      BY <3>2
    <3>6. \A q \in Runtimes : Busy(q)' <=> Busy(q) /\ q # r
      BY <3>1, <3>5, ScriptConstants DEF TaskInv, OneTask, SingleDrain, Busy
    <3>7. \A q \in Runtimes : Waiting(q)' <=> Waiting(q)
      BY <3>2 DEF Waiting
    <3>8. Busy(r)
      BY DEF Busy
    <3>9. \A v \in Workers : v # w => event'[v] = event[v] /\ pc'[v] = pc[v] /\ job'[v] = job[v]
      BY <2>1, <3>5 DEF DrainEnds, FinishStop
    <3>10. event'[w].kind # "stop"
      BY <2>1 DEF DrainEnds, FinishStop, TaskInv, StopOnlyClosed, NoEvent, Plain
    <3> HIDE DEF r
    <3>11. SingleDrain'
      BY <3>5 DEF TaskInv, OneTask, SingleDrain
    <3>12. \A q \in Runtimes :
          /\ posting'[q] => ~Waiting(q)' /\ ~Busy(q)'
          /\ Waiting(q)' => ~Busy(q)'
          /\ scheduled'[q] <=> posting'[q] \/ Waiting(q)' \/ Busy(q)'
      BY <3>2, <3>6, <3>7, <3>8 DEF TaskInv, OneTask, MailboxTypeOK
    <3>13. OneTask'
      BY <3>2, <3>11, <3>12 DEF TaskInv, OneTask
    <3>14. Awake'
      BY <3>2, <3>3, <3>4 DEF TaskInv, Awake, MailboxTypeOK
    <3>15. StopOnlyClosed'
      <4>1. \A q \in Runtimes : stopping'[q] \/ queue'[q] \in Seq(NotStop)
        <5>1. queue'[r] \in Seq(NotStop)
          BY <3>3, EmptySeq
        <5>2. ASSUME NEW q \in Runtimes, q # r PROVE stopping'[q] \/ queue'[q] \in Seq(NotStop)
          BY <3>2, <5>2 DEF TaskInv, StopOnlyClosed
        <5> QED BY <5>1, <5>2
      <4> QED
        BY <3>2, <3>9, <3>10, <4>1 DEF TaskInv, StopOnlyClosed
    <3> QED BY <3>13, <3>14, <3>15 DEF TaskInv
  <2>2. CASE DrainPops(w)
    <3> DEFINE r == job[w]
               e == Head(queue[r])
    <3>1. job[w] \in Runtimes
      BY <2>2 DEF DrainPops
    <3>2. /\ queue[r] # <<>> /\ ~stopped[r]
          /\ queue' = [queue EXCEPT ![r] = Tail(queue[r])]
          /\ event' = [event EXCEPT ![w] = e]
          /\ pc' = [pc EXCEPT ![w] = "script"]
          /\ UNCHANGED <<scheduled, posting, tasks, job, stopping, stopped>>
      BY <2>2 DEF DrainPops, taskVars, stopVars
    <3>3. OneTask'
      BY <3>2 DEF TaskInv, OneTask, SingleDrain, Waiting, Busy
    <3>4. Awake'
      BY <3>1, <3>2 DEF TaskInv, Awake, MailboxTypeOK
    <3>5. ~stopping[r] => e.kind # "stop" /\ Tail(queue[r]) \in Seq(NotStop)
      <4>1. ~stopping[r] => queue[r] \in Seq(NotStop)
        BY <3>1 DEF TaskInv, StopOnlyClosed
      <4>2. ~stopping[r] => e \in NotStop /\ Tail(queue[r]) \in Seq(NotStop)
        BY <3>2, <4>1, HeadTailProperties
      <4> QED BY <4>2 DEF NotStop
    <3> HIDE DEF r, e
    <3>6. \A q \in Runtimes : stopping'[q] \/ queue'[q] \in Seq(NotStop)
      BY <3>1, <3>2, <3>5 DEF TaskInv, StopOnlyClosed, MailboxTypeOK, r
    <3>7. StopOnlyClosed'
      BY <3>2, <3>5, <3>6 DEF TaskInv, StopOnlyClosed, r
    <3> QED BY <3>3, <3>4, <3>7 DEF TaskInv
  <2>3. CASE NotifyNext(w)
    <3>1. PICK x \in notifying[w] :
             /\ Enqueue(x.token, Answer("watch", x.vm, x.ref))
             /\ pc' = [pc EXCEPT ![w] = IF notifying[w] = {x} THEN AfterCall(out[w].stage)
                                        ELSE "notify"]
      BY <2>3 DEF NotifyNext
    <3>2. x.token \in Runtimes /\ Answer("watch", x.vm, x.ref) \in NotStop
      BY SentNotStop DEF StoreTypeOK, Watcher
    <3>3. \A v \in Workers : pc'[v] \in {"idle", "drain"} => pc[v] \in {"idle", "drain"}
      BY <3>1 DEF AfterCall
    <3> QED
      BY <2>3, <3>1, <3>2, <3>3, EnqueueTask DEF NotifyNext, stopVars
  <2>4. CASE Finish(w)
    <3>1. UNCHANGED <<queue, scheduled, posting, tasks, job, stopping, stopped>>
      BY <2>4 DEF Finish, taskVars, stopVars
    <3>2. /\ event' = [event EXCEPT ![w] = NoEvent]
          /\ pc' = [pc EXCEPT ![w] = "drain"]
      BY <2>4 DEF Finish
    <3>3. \A v \in Workers : event'[v].kind = "stop" =>
              event[v].kind = "stop" /\ pc'[v] \notin {"idle", "drain"}
      BY <3>2 DEF TaskInv, StopOnlyClosed, NoEvent, Plain
    <3> QED BY <3>1, <3>3, TaskFrame
  <2>5. CASE Teardown(w) \/ OnExit(w) \/ ResetHost(w) \/ Build(w) \/ Ignore(w) \/ Run(w)
             \/ Health(w) \/ LoadUpdate(w)
    <3>1. UNCHANGED <<queue, scheduled, posting, tasks, job, event, stopping, stopped>>
      BY <2>5 DEF Teardown, OnExit, ResetHost, Build, Ignore, Run, Health, LoadUpdate,
         mailboxVars, taskVars, stopVars
    <3>2. \E label \in {"exit", "reset", "build", "notify", "health", "update", "finish"} :
             pc' = [pc EXCEPT ![w] = label]
      <4>1. CASE OnExit(w) \/ Build(w) \/ Run(w)
        BY <4>1, VmCallStays DEF OnExit, Build, Run
      <4>2. CASE LoadUpdate(w)
        BY <4>2, VmCallStays DEF LoadUpdate
      <4> QED BY <2>5, <4>1, <4>2 DEF Teardown, ResetHost, Ignore, Health
    <3>3. \A v \in Workers : event'[v].kind = "stop" =>
              event[v].kind = "stop" /\ pc'[v] \notin {"idle", "drain"}
      BY <3>1, <3>2 DEF TaskInv, StopOnlyClosed
    <3> QED BY <3>1, <3>3, TaskFrame
  <2> QED
    BY <1>8, <2>1, <2>2, <2>3, <2>4, <2>5 DEF Drain
<1>9. CASE UNCHANGED vars
  <2>1. UNCHANGED <<queue, scheduled, posting, tasks, job, stopping, stopped, event, pc>>
    BY <1>9 DEF vars, mailboxVars, taskVars, stopVars, workerVars
  <2> QED BY <2>1, TaskFrame DEF TaskInv, StopOnlyClosed
<1> QED
  BY <1>1, <1>2, <1>3, <1>4, <1>5, <1>6, <1>7, <1>8, <1>9 DEF Next

THEOREM TaskInvariant == Spec => []TaskInv
<1>1. TypeOK /\ TaskInv /\ [Next]_vars => TaskInv'
  BY TaskStep
<1> QED
  BY <1>1, TaskInit, TypeCorrect, PTL DEF Spec

\* No two workers are ever in one runtime: the VM needs no lock.
THEOREM VmExclusive == Spec => []SingleDrain
<1>1. TaskInv => SingleDrain
  BY DEF TaskInv, OneTask
<1> QED
  BY <1>1, TaskInvariant, PTL

\* No wakeup is lost between enqueue() and drain().
THEOREM NoLostWakeup == Spec => []NoStrandedEvent
<1>1. TypeOK /\ TaskInv => NoStrandedEvent
  <2> SUFFICES ASSUME TypeOK, TaskInv, NEW r \in Runtimes, queue[r] # <<>>
               PROVE  posting[r] \/ Waiting(r) \/ Busy(r)
    BY DEF NoStrandedEvent, Waiting, Busy, TypeOK, MainTypeOK
  <2> QED BY DEF TaskInv, Awake, OneTask
<1> QED
  BY <1>1, TaskInvariant, TypeCorrect, PTL

-----------------------------------------------------------------------------
(* Answers go to the VM that asked *)

\* A worker past the checks of processEvent() still has the host they were made
\* against, which only the worker of the runtime replaces, and only for a load or
\* a stop.
AskerInv ==
    /\ \A w \in Workers : pc[w] = "build" => event[w].kind = "load"
    /\ \A w \in Workers : pc[w] = "exit" => event[w].kind \in {"load", "stop"}
    /\ \A w \in Workers :
          pc[w] \in {"notify", "health", "update"} /\ event[w].kind \in {"command", "sound"}
          => event[w].host = hostId[job[w]]

LEMMA AskerStep ==
    ASSUME TypeOK, TaskInv, AskerInv, [Next]_vars
    PROVE  AskerInv'
<1> USE DEF TypeOK, WorkerTypeOK
<1>1. CASE UNCHANGED <<hostId, pc, event, job>>
  BY <1>1 DEF AskerInv
<1>2. ASSUME NEW w \in Workers, TakeTask(w) PROVE AskerInv'
  BY <1>2 DEF TakeTask, hostVars, AskerInv
<1>3. ASSUME NEW w \in Workers, Drain(w) PROVE AskerInv'
  <2> DEFINE r == job[w]
  <2>1. CASE DrainEnds(w) \/ FinishStop(w)
    BY <2>1 DEF DrainEnds, FinishStop, hostVars, AskerInv
  <2>2. CASE DrainPops(w) \/ Finish(w)
    <3>1. pc' = [pc EXCEPT ![w] = "script"] \/ pc' = [pc EXCEPT ![w] = "drain"]
      BY <2>2 DEF DrainPops, Finish
    <3>2. UNCHANGED <<hostId, job>> /\ \A v \in Workers \ {w} : event'[v] = event[v]
      BY <2>2 DEF DrainPops, Finish, hostVars
    <3> QED BY <3>1, <3>2 DEF AskerInv
  <2>3. CASE Teardown(w) \/ Ignore(w) \/ Health(w)
    <3>1. UNCHANGED <<hostId, event, job>>
      BY <2>3 DEF Teardown, Ignore, Health, hostVars
    <3>2. CASE Teardown(w)
      BY <3>1, <3>2 DEF Teardown, AskerInv
    <3>3. CASE Ignore(w)
      BY <3>1, <3>3 DEF Ignore, AskerInv
    <3>4. CASE Health(w)
      <4>1. pc[w] = "health"
            /\ (pc' = [pc EXCEPT ![w] = "update"] \/ pc' = [pc EXCEPT ![w] = "finish"])
        BY <3>4 DEF Health
      <4> QED BY <3>1, <4>1 DEF AskerInv
    <3> QED BY <2>3, <3>2, <3>3, <3>4
  <2>4. CASE NotifyNext(w)
    BY <2>4 DEF NotifyNext, hostVars, AskerInv, AfterCall
  <2>5. CASE OnExit(w) \/ Run(w) \/ LoadUpdate(w)
    <3>1. UNCHANGED <<hostId, event, job>>
      BY <2>5 DEF OnExit, Run, LoadUpdate
    <3>2. \E label \in {"notify", "health", "reset", "finish"} : pc' = [pc EXCEPT ![w] = label]
      BY <2>5, VmCallStays DEF OnExit, Run, LoadUpdate
    <3>3. CASE Run(w)
      <4>1. event[w].kind \in {"command", "sound"} => event[w].host = hostId[r]
        BY <3>3 DEF Run, Answers
      <4> QED BY <3>1, <3>2, <4>1 DEF AskerInv
    <3>4. CASE LoadUpdate(w)
      <4>1. pc[w] = "update"
        BY <3>4, VmCallStays DEF LoadUpdate
      <4> QED BY <3>1, <3>2, <4>1 DEF AskerInv
    <3>5. CASE OnExit(w)
      <4>1. pc' = [pc EXCEPT ![w] = "notify"] \/ pc' = [pc EXCEPT ![w] = "reset"]
        BY <3>5 DEF OnExit, VmCall, AfterCall
      <4>2. event[w].kind \notin {"command", "sound"}
        BY <3>5 DEF OnExit, AskerInv
      <4> QED BY <3>1, <4>1, <4>2 DEF AskerInv
    <3> QED BY <2>5, <3>3, <3>4, <3>5
  <2>6. CASE ResetHost(w) \/ Build(w)
    <3>1. job[w] \in Runtimes
      BY <2>6 DEF ResetHost, Build
    <3>2. \A v \in Workers \ {w} : job[v] = r => FALSE
      BY <3>1, ScriptConstants DEF TaskInv, OneTask, SingleDrain
    <3>3. \A q \in Runtimes : q # r => hostId'[q] = hostId[q]
      BY <2>6 DEF ResetHost, Build, HostTypeOK
    <3>8. \A v \in Workers \ {w} : pc[v] # "idle" => hostId'[job[v]] = hostId[job[v]]
      BY <3>2, <3>3
    <3>4. UNCHANGED <<event, job>>
      BY <2>6 DEF ResetHost, Build
    <3>5. \E label \in {"build", "finish", "notify", "health", "reset"} :
             pc' = [pc EXCEPT ![w] = label]
      BY <2>6, VmCallStays DEF ResetHost, Build
    <3>6. CASE ResetHost(w)
      BY <3>8, <3>4, <3>6 DEF ResetHost, AskerInv
    <3>7. CASE Build(w)
      <4>1. event[w].kind = "load"
        BY <3>7 DEF Build, AskerInv
      <4>2. \E label \in {"notify", "health", "reset"} : pc' = [pc EXCEPT ![w] = label]
        BY <3>7, VmCallStays DEF Build
      <4> QED BY <3>8, <3>4, <4>1, <4>2 DEF AskerInv
    <3> QED BY <2>6, <3>6, <3>7
  <2> QED
    BY <1>3, <2>1, <2>2, <2>3, <2>4, <2>5, <2>6 DEF Drain
<1>4. ASSUME NEW r \in Runtimes, (\E e \in MainEvents : Send(r, e)) \/ Stop(r) \/ Post(r)
      PROVE  UNCHANGED <<hostId, pc, event, job>>
  BY <1>4 DEF Send, Stop, Post, hostVars, workerVars
<1>5. Deliver \/ (\E l \in loading : LoadSound(l)) \/ (\E c \in inFlight : CommandEnds(c))
      => UNCHANGED <<hostId, pc, event, job>>
  BY DEF Deliver, LoadSound, CommandEnds, hostVars, workerVars
<1>6. UNCHANGED vars => UNCHANGED <<hostId, pc, event, job>>
  BY DEF vars, hostVars, workerVars
<1> QED
  BY <1>1, <1>2, <1>3, <1>4, <1>5, <1>6 DEF Next

\* The result of a command or of a sound load is never handed to another VM than
\* the one that asked, although both number their callbacks alike.
THEOREM AnswersMatch == Spec => []AnswerReachesAsker
<1>1. Init => AskerInv
  BY DEF Init, AskerInv
<1>2. TypeOK /\ TaskInv /\ AskerInv /\ [Next]_vars => AskerInv'
  BY AskerStep
<1>3. AskerInv => AnswerReachesAsker
  BY DEF AskerInv, AnswerReachesAsker
<1> QED
  BY <1>1, <1>2, <1>3, TypeCorrect, TaskInvariant, PTL DEF Spec
=============================================================================
