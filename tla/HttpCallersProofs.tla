-------------------------- MODULE HttpCallersProofs --------------------------
(***************************************************************************)
(* Proofs about HttpCallers.  First, from an invariant of its own, what a  *)
(* switched off or offline address service shows.  Then the books of the   *)
(* client: Books says where each callback that is owed something is, at    *)
(* any moment of a step; W are the callers whose callback is in the hand   *)
(* of the code that runs, taken from one place and not yet in another.  A  *)
(* lemma for each operation of HttpClient says how it moves the books, one *)
(* for each action puts them together.  Inv has W empty.                   *)
(***************************************************************************)
EXTENDS HttpCallers, DataLemmas

-----------------------------------------------------------------------------
(* The external address *)

\* The service is a record with these fields, whatever they hold.
ServiceFields ==
    service = [ip |-> service.ip, key |-> service.key, confirmed |-> service.confirmed,
               age |-> service.age, inFlight |-> service.inFlight, timer |-> service.timer]

AddressInv == ServiceFields /\ OffShowsNothing

\* Told of the network or the configuration, a service that is off lets go of both
\* the address and the timer.
LEMMA SyncOff ==
    ASSUME ServiceFields, NEW net, NEW on \in BOOLEAN, service' = Sync(service, net, on)
    PROVE  ServiceFields' /\ (~on => service'.ip = NoKey /\ ~service'.timer)
BY DEF ServiceFields, Sync, MaybeScheduleProbe

\* An answer that comes when the service is off is not kept and starts nothing.
LEMMA AnsweredOff ==
    ASSUME AddressInv, NEW key, NEW ok \in BOOLEAN, UNCHANGED <<offline, setting>>,
           service' = ProbeAnswered(service, key, ok, Enabled)
    PROVE  AddressInv'
BY DEF AddressInv, OffShowsNothing, ServiceFields, ProbeAnswered, Enabled

LEMMA AddressInit == Init => AddressInv
<1> DEFINE empty == [ip |-> NoKey, key |-> NoKey, confirmed |-> NoKey, age |-> "old",
                     inFlight |-> FALSE, timer |-> FALSE]
<1> SUFFICES ASSUME Init PROVE AddressInv
  OBVIOUS
<1>1. Enabled
  BY DEF Init, HttpInit, ExternalIpInit, Enabled
<1>2. service = Sync(empty, network, TRUE)
  BY DEF Init, ExternalIpInit
<1>3. service \in {[empty EXCEPT !.ip = NoKey, !.age = "old"], empty, [empty EXCEPT !.timer = TRUE],
                   [empty EXCEPT !.ip = NoKey], [[empty EXCEPT !.ip = NoKey] EXCEPT !.timer = TRUE]}
  <2> HIDE DEF empty
  <2> QED BY <1>2, Zenon DEF Sync, MaybeScheduleProbe
<1>4. ServiceFields
  BY <1>3 DEF ServiceFields
<1> QED BY <1>1, <1>4 DEF AddressInv, OffShowsNothing

LEMMA AddressStep == AddressInv /\ [Next]_vars => AddressInv'
<1> SUFFICES ASSUME AddressInv, [Next]_vars PROVE AddressInv'
  OBVIOUS
<1>1. CASE UNCHANGED <<offline, setting, service>>
  BY <1>1 DEF AddressInv, ServiceFields, OffShowsNothing, Enabled
<1>2. CASE RunResponse
  BY <1>2, AnsweredOff DEF RunResponse
<1>3. ASSUME NEW e \in Easy, ReadRequest(e) PROVE AddressInv'
  BY <1>3, AnsweredOff DEF ReadRequest
<1>4. CASE NetworkChanged
  BY <1>4, SyncOff DEF NetworkChanged, AddressInv, OffShowsNothing, Enabled
<1>5. CASE ConfigReload
  BY <1>5, SyncOff DEF ConfigReload, SetOfflineMode, AddressInv, OffShowsNothing, Enabled
<1>6. CASE ProbeNow
  BY <1>6 DEF ProbeNow, AddressInv, ServiceFields, OffShowsNothing, Enabled
<1>7. CASE TimePasses
  BY <1>7 DEF TimePasses, Older, AddressInv, ServiceFields, OffShowsNothing, Enabled
<1>8. CASE \E c \in Callers : AskDownload(c)
  BY <1>1, <1>8 DEF AskDownload
<1>9. CASE \E s \in Streams : StartHttpStream(s) \/ StopHttpStream(s) \/ StopCallsLater(s)
                                 \/ CallHttpStreamCloseCallback(s)
  BY <1>1, <1>9 DEF StartHttpStream, StopHttpStream, StopCallsLater, CallHttpStreamCloseCallback
<1>10. CASE RunFailure \/ RunStart \/ RunCancel \/ RunClose \/ CheckStarted
  BY <1>1, <1>10 DEF RunFailure, RunStart, RunCancel, RunClose, CheckStarted
<1>11. CASE \E e \in Easy : ReadDownload(e) \/ ReadStream(e)
  BY <1>1, <1>11 DEF ReadDownload, ReadStream
<1>12. CASE UNCHANGED vars
  BY <1>1, <1>12 DEF vars
<1> QED
  BY <1>2, <1>3, <1>4, <1>5, <1>6, <1>7, <1>8, <1>9, <1>10, <1>11, <1>12 DEF Next

\* A service that is switched off or offline shows no address and has no probe
\* waiting, though a probe may have been in flight when the configuration was
\* reloaded and answers later (external_ip_service.cpp).
THEOREM OffShowsNoAddress == Spec => []OffShowsNothing
<1>1. AddressInv => OffShowsNothing
  BY DEF AddressInv
<1> QED BY <1>1, AddressInit, AddressStep, PTL DEF Spec

-----------------------------------------------------------------------------
(* Calls and callbacks in a sequence *)

Among(q, x) == \E i \in DOMAIN q : q[i] = x
Single(q, x) == \A i, j \in DOMAIN q : q[i] = x /\ q[j] = x => i = j

\* A call is in R when it is in Q, and not more often.
SameCall(Q, R, r) == (Among(R, r) <=> Among(Q, r)) /\ (Single(Q, r) => Single(R, r))

LEMMA Appended ==
    ASSUME NEW S, NEW q \in Seq(S), NEW x \in S
    PROVE  /\ \A r : r # x => SameCall(q, Append(q, x), r)
           /\ Among(Append(q, x), x)
           /\ ~Among(q, x) => Single(Append(q, x), x)
           /\ \A r : Single(q, r) /\ ~Among(q, x) => Single(Append(q, x), r)
           /\ \A r : Among(Append(q, x), r) <=> Among(q, r) \/ r = x
<1> DEFINE n == Len(q)
           t == Append(q, x)
<1>1. /\ n \in Nat /\ DOMAIN q = 1..n /\ t \in Seq(S) /\ Len(t) = n + 1
      /\ \A i \in 1..n : t[i] = q[i]
      /\ t[n + 1] = x
  BY AppendProperties, LenProperties
<1>2. DOMAIN t = 1..(n + 1)
  BY <1>1, LenProperties
<1> HIDE DEF n, t
<1>3. \A i \in 1..(n + 1) : i \in 1..n \/ i = n + 1
  BY <1>1
<1>4. n + 1 \in 1..(n + 1) /\ \A i \in 1..n : i \in 1..(n + 1)
  BY <1>1
<1>5. \A r : Among(t, r) <=> Among(q, r) \/ r = x
  BY <1>1, <1>2, <1>3, <1>4 DEF Among
<1>6. \A r : r # x /\ Single(q, r) => Single(t, r)
  BY <1>1, <1>2, <1>3 DEF Single
<1>7. ~Among(q, x) => Single(t, x)
  BY <1>1, <1>2, <1>3 DEF Single, Among
<1> QED BY <1>5, <1>6, <1>7 DEF SameCall, t

LEMMA Taken ==
    ASSUME NEW S, NEW q \in Seq(S), q # <<>>
    PROVE  /\ \A r : r # Head(q) => SameCall(q, Tail(q), r)
           /\ Among(q, Head(q))
           /\ \A r : Among(Tail(q), r) => Among(q, r)
           /\ \A r : Single(q, r) => Single(Tail(q), r)
           /\ Single(q, Head(q)) => ~Among(Tail(q), Head(q))
<1> DEFINE n == Len(q)
           t == Tail(q)
<1>1. /\ n \in Nat /\ n # 0 /\ DOMAIN q = 1..n /\ t \in Seq(S) /\ Len(t) = n - 1
      /\ \A i \in 1..(n - 1) : t[i] = q[i + 1]
      /\ Head(q) = q[1]
  BY HeadTailProperties, LenProperties, EmptySeq
<1>2. DOMAIN t = 1..(n - 1)
  BY <1>1, LenProperties
<1> HIDE DEF n, t
<1>3. /\ 1 \in 1..n
      /\ \A i \in 1..(n - 1) : i + 1 \in 1..n /\ i + 1 # 1
      /\ \A i \in 1..n : i = 1 \/ (i - 1 \in 1..(n - 1) /\ i - 1 + 1 = i)
      /\ \A i, j \in 1..(n - 1) : i + 1 = j + 1 => i = j
  BY <1>1
<1>4. \A r : Among(t, r) => Among(q, r)
  BY <1>1, <1>2, <1>3 DEF Among
<1>5. \A r : r # Head(q) /\ Among(q, r) => Among(t, r)
  <2> SUFFICES ASSUME NEW r, r # q[1], NEW i \in 1..n, q[i] = r PROVE \E j \in 1..(n - 1) : t[j] = r
    BY <1>1, <1>2 DEF Among
  <2>1. i - 1 \in 1..(n - 1) /\ i - 1 + 1 = i
    BY <1>3
  <2>2. t[i - 1] = r
    BY <1>1, <2>1
  <2> QED BY <2>1, <2>2
<1>6. \A r : Single(q, r) => Single(t, r)
  <2> SUFFICES ASSUME NEW r, Single(q, r), NEW i \in 1..(n - 1), NEW j \in 1..(n - 1), t[i] = r, t[j] = r
               PROVE  i = j
    BY <1>2 DEF Single
  <2>1. q[i + 1] = r /\ q[j + 1] = r /\ i + 1 \in 1..n /\ j + 1 \in 1..n
    BY <1>1, <1>3
  <2>2. i + 1 = j + 1
    BY <1>1, <2>1 DEF Single
  <2> QED BY <1>3, <2>2
<1>7. Single(q, Head(q)) => ~Among(t, Head(q))
  <2> SUFFICES ASSUME Single(q, q[1]), NEW j \in 1..(n - 1), t[j] = q[1] PROVE FALSE
    BY <1>1, <1>2 DEF Among
  <2>1. q[j + 1] = q[1] /\ j + 1 \in 1..n /\ j + 1 # 1
    BY <1>1, <1>3
  <2> QED BY <1>1, <1>3, <2>1 DEF Single
<1>8. Among(q, Head(q))
  BY <1>1, <1>3 DEF Among
<1> QED BY <1>4, <1>5, <1>6, <1>7, <1>8 DEF SameCall, t

-----------------------------------------------------------------------------
(* What the client owes *)

Callbacks == Callers \cup Streams \cup [probe : Networks]
Calls == DownloadCall \cup ProbeCall \cup StreamCall
ClientType == HttpType(Callbacks, Calls)
AskType == [Callers -> {NoAsk} \cup [dest : Dests, left : 1 .. Candidates]]

Fail(c) == [call |-> "fail", callback |-> c]
Respond(net) == [call |-> "respond", callback |-> Probe(net)]
Start(s) == [call |-> "start", callback |-> s]
Cancel(s) == [call |-> "cancel", callback |-> s]
Close(s) == [call |-> "close", callback |-> s]

\* A callback waits for the end of a transfer.
Waits(T, e, x) == Among(T[e].callbacks, x)

\* A transfer has the callbacks and the name of its kind.
Shape(t) ==
    /\ t.kind = "none" => t.callbacks = <<>>
    /\ t.kind = "download" => t.dest \in Dests /\ t.callbacks \in Seq(Callers) /\ t.callbacks # <<>>
    /\ t.kind = "request" => \E net \in Networks : t.callbacks = <<Probe(net)>>
    /\ t.kind = "stream" => t.id \in StreamIds /\ \E s \in Streams : t.callbacks = <<s>>

Shaped(T) == \A e \in Easy : Shape(T[e])

DestsAgree(T, B) ==
    \A e \in Easy, d \in Dests : B[d] = e <=> T[e].kind = "download" /\ T[e].dest = d
StreamsAgree(T, S) ==
    \A e \in Easy, i \in StreamIds : S[i] = e <=> T[e].kind = "stream" /\ T[e].id = i

\* A caller that waits has its callback in one place: in the hand of the code that
\* runs (W), in a deferred call, or in a transfer.
AskOf(T, Q, a, W, c) ==
    /\ Single(Q, Fail(c))
    /\ \A e \in Easy : Waits(T, e, c) =>
          /\ Single(T[e].callbacks, c)
          /\ ~Among(Q, Fail(c))
          /\ \A f \in Easy : Waits(T, f, c) => f = e
    /\ c \in W => ~Among(Q, Fail(c)) /\ \A e \in Easy : ~Waits(T, e, c)
    /\ a[c] # NoAsk <=> c \in W \/ Among(Q, Fail(c)) \/ \E e \in Easy : Waits(T, e, c)

AskInv(T, Q, a, W) == \A c \in Callers : AskOf(T, Q, a, W, c)

\* The probe in flight is one request or one answer to come.
ProbeInv(T, Q, p) ==
    /\ \A e, f \in Easy : T[e].kind = "request" /\ T[f].kind = "request" => e = f
    /\ \A e \in Easy, n \in Networks : T[e].kind = "request" => ~Among(Q, Respond(n))
    /\ \A n, m \in Networks : Among(Q, Respond(n)) /\ Among(Q, Respond(m)) => n = m
    /\ \A n \in Networks : Single(Q, Respond(n))
    /\ p <=> \/ \E e \in Easy : T[e].kind = "request"
             \/ \E n \in Networks : Among(Q, Respond(n))

\* A stream in a transfer was started once and has its id; a stopped one will be
\* cancelled.
StreamOf(T, Q, N, ctl, st, s) ==
    /\ \A e \in Easy : Waits(T, e, s) =>
          /\ T[e].id = ctl[s].id /\ T[e].id < N
          /\ ~Among(Q, Start(s)) /\ ctl[s].at # "unused"
          /\ ctl[s].at = "stopped" => st = s \/ Among(Q, Cancel(s))
    /\ ctl[s].at = "unused" => ctl[s].id = 0 /\ ~Among(Q, Start(s))
    /\ Single(Q, Start(s))
    /\ Among(Q, Start(s)) => ctl[s].id = 0

Ids(ctl) == {s \in Streams : ctl[s].id # 0}

StreamInv(T, Q, N, ctl, st) ==
    /\ \A s \in Streams : StreamOf(T, Q, N, ctl, st, s)
    /\ N = 1 + Cardinality(Ids(ctl))

\* The client with W in hand, asks a, probe p, streams ctl of which st is starting.
Books(h, a, W, p, ctl, st) ==
    /\ h \in ClientType /\ a \in AskType
    /\ Shaped(h.transfers)
    /\ DestsAgree(h.transfers, h.byDest) /\ StreamsAgree(h.transfers, h.byStream)
    /\ AskInv(h.transfers, h.deferred, a, W)
    /\ ProbeInv(h.transfers, h.deferred, p)
    /\ StreamInv(h.transfers, h.deferred, h.nextStream, ctl, st)

Inv == TypeOK /\ Books(http, asks, {}, service.inFlight, control, starting)

-----------------------------------------------------------------------------
(* Fields and kinds *)

LEMMA ClientFields ==
    ASSUME NEW h \in ClientType
    PROVE  /\ \A e \in Easy : /\ h.transfers[e].kind \in {"none", "download", "request", "stream"}
                              /\ h.transfers[e].id \in StreamIds \cup {0}
                              /\ h.transfers[e].callbacks \in Seq(Callbacks)
           /\ h.byDest \in [Dests -> Easy \cup {0}]
           /\ h.byStream \in [StreamIds -> Easy \cup {0}]
           /\ h.nextStream \in 1 .. (Cardinality(Streams) + 1)
           /\ h.deferred \in Seq(Calls)
BY DEF ClientType, HttpType, Callbacks

LEMMA Numbers ==
    /\ Cardinality(Callers) \in Nat /\ Cardinality(Streams) \in Nat
    /\ StreamIds = 1 .. Cardinality(Streams)
    /\ Easy = 1 .. (Cardinality(Callers) + Cardinality(Streams) + 1)
    /\ 0 \notin Easy /\ 0 \notin StreamIds
    /\ IsFiniteSet(Easy)
<1>1. Cardinality(Callers) \in Nat /\ Cardinality(Streams) \in Nat
  BY HttpConstants, FS_CardinalityType
<1>2. Cardinality(Callers) + Cardinality(Streams) + 1 \in Int
  BY <1>1
<1> QED BY <1>1, <1>2, FS_Interval DEF Easy, StreamIds

\* Who waits for a transfer tells its kind.
LEMMA Kinds ==
    ASSUME NEW T, Shaped(T), NEW e \in Easy,
           T[e].kind \in {"none", "download", "request", "stream"}
    PROVE  /\ \A c \in Callers : Waits(T, e, c) => T[e].kind = "download"
           /\ \A s \in Streams : Waits(T, e, s) => T[e].kind = "stream" /\ T[e].callbacks = <<s>>
           /\ T[e].kind = "none" => \A x : ~Waits(T, e, x)
           /\ T[e].kind # "none" => T[e].callbacks # <<>>
           /\ T[e].kind = "stream" =>
                 \E s \in Streams : T[e].callbacks = <<s>> /\ Waits(T, e, s) /\ T[e].callbacks[1] = s
           /\ T[e].kind = "request" =>
                 \E n \in Networks : T[e].callbacks = <<Probe(n)>> /\ T[e].callbacks[1] = Probe(n)
           /\ T[e].kind = "download" =>
                 T[e].callbacks[1] \in Callers /\ Waits(T, e, T[e].callbacks[1])
<1>1. Shape(T[e])
  BY DEF Shaped
<1>2. \A x : ~Among(<<>>, x)
  BY DEF Among
<1>3. \A x, y : Among(<<x>>, y) <=> x = y
  <2>1. \A x : DOMAIN <<x>> = {1} /\ <<x>>[1] = x
    OBVIOUS
  <2> QED BY <2>1 DEF Among
<1>4. ASSUME NEW q \in Seq(Callers), q # <<>>
      PROVE  q[1] \in Callers /\ Among(q, q[1]) /\ \A x : Among(q, x) => x \in Callers
  <2>1. DOMAIN q = 1..Len(q) /\ Len(q) \in Nat /\ Len(q) # 0 /\ q \in [1..Len(q) -> Callers]
    BY <1>4, LenProperties, EmptySeq
  <2>2. 1 \in DOMAIN q
    BY <2>1
  <2> QED BY <2>1, <2>2 DEF Among
<1>5. \A n \in Networks : Probe(n) \in [probe : Networks]
  BY DEF Probe
<1>6. \A x, y : <<x>> # <<>> /\ <<x>>[1] = x
  OBVIOUS
<1>7. CASE T[e].kind = "none"
  BY <1>1, <1>2, <1>7, Zenon DEF Shape, Waits
<1>8. CASE T[e].kind = "download"
  <2>1. T[e].callbacks \in Seq(Callers) /\ T[e].callbacks # <<>>
    BY <1>1, <1>8 DEF Shape
  <2>2. \A s \in Streams : s \notin Callers
    BY CallbacksApart
  <2> QED BY <1>4, <1>8, <2>1, <2>2 DEF Waits
<1>9. CASE T[e].kind = "request"
  <2>1. PICK n \in Networks : T[e].callbacks = <<Probe(n)>>
    BY <1>1, <1>9 DEF Shape
  <2>2. \A x \in Callers \cup Streams : x # Probe(n)
    BY <1>5, CallbacksApart
  <2> QED BY <1>3, <1>6, <1>9, <2>1, <2>2 DEF Waits
<1>10. CASE T[e].kind = "stream"
  <2>1. PICK s \in Streams : T[e].callbacks = <<s>>
    BY <1>1, <1>10 DEF Shape
  <2>2. \A c \in Callers : c # s
    BY CallbacksApart
  <2> QED BY <1>3, <1>6, <1>10, <2>1, <2>2 DEF Waits
<1> QED BY <1>7, <1>8, <1>9, <1>10

-----------------------------------------------------------------------------
(* Frames: what does not touch the callers, the probe or the streams *)

\* Nothing changes for those of X who wait for the end of a transfer.
SameWait(T, U, X) ==
    \A e \in Easy, x \in X : /\ Waits(U, e, x) <=> Waits(T, e, x)
                             /\ Waits(T, e, x) => U[e] = T[e]

LEMMA AskFrame ==
    ASSUME NEW T, NEW U, NEW Q, NEW R, NEW a, NEW W, AskInv(T, Q, a, W),
           SameWait(T, U, Callers), \A c \in Callers : SameCall(Q, R, Fail(c))
    PROVE  AskInv(U, R, a, W)
<1> SUFFICES ASSUME NEW c \in Callers PROVE AskOf(U, R, a, W, c)
  BY DEF AskInv
<1>1. AskOf(T, Q, a, W, c)
  BY DEF AskInv
<1>2. /\ Among(R, Fail(c)) <=> Among(Q, Fail(c))
      /\ Single(Q, Fail(c)) => Single(R, Fail(c))
  BY DEF SameCall
<1>3. \A e \in Easy : (Waits(U, e, c) <=> Waits(T, e, c)) /\ (Waits(T, e, c) => U[e] = T[e])
  BY DEF SameWait
<1> QED BY <1>1, <1>2, <1>3 DEF AskOf

LEMMA ProbeFrame ==
    ASSUME NEW T, NEW U, NEW Q, NEW R, NEW p \in BOOLEAN, ProbeInv(T, Q, p),
           \A e \in Easy : U[e].kind = "request" <=> T[e].kind = "request",
           \A n \in Networks : SameCall(Q, R, Respond(n))
    PROVE  ProbeInv(U, R, p)
BY DEF ProbeInv, SameCall

LEMMA StreamFrame ==
    ASSUME NEW T, NEW U, NEW Q, NEW R, NEW N, NEW ctl, NEW st, StreamInv(T, Q, N, ctl, st),
           SameWait(T, U, Streams),
           \A s \in Streams : SameCall(Q, R, Start(s)) /\ SameCall(Q, R, Cancel(s))
    PROVE  StreamInv(U, R, N, ctl, st)
<1> SUFFICES ASSUME NEW s \in Streams PROVE StreamOf(U, R, N, ctl, st, s)
  BY DEF StreamInv
<1>1. StreamOf(T, Q, N, ctl, st, s)
  BY DEF StreamInv
<1>2. /\ Among(R, Start(s)) <=> Among(Q, Start(s))
      /\ Single(Q, Start(s)) => Single(R, Start(s))
      /\ Among(R, Cancel(s)) <=> Among(Q, Cancel(s))
  BY DEF SameCall
<1>3. \A e \in Easy : (Waits(U, e, s) <=> Waits(T, e, s)) /\ (Waits(T, e, s) => U[e] = T[e])
  BY DEF SameWait
<1> QED BY <1>1, <1>2, <1>3 DEF StreamOf

\* The transfer e becomes t; neither before nor after does any of X wait for it.
LEMMA OtherSlot ==
    ASSUME NEW S, NEW T \in [Easy -> S], NEW e \in Easy, NEW t, NEW X,
           \A x \in X : ~Among(T[e].callbacks, x) /\ ~Among(t.callbacks, x)
    PROVE  SameWait(T, [T EXCEPT ![e] = t], X)
BY DEF SameWait, Waits

-----------------------------------------------------------------------------
(* A free handle *)

\* The transfers are no more than the callers, the streams and one probe; when one of
\* these has none, there is an easy handle for it.
LEMMA HandleIsFree ==
    ASSUME NEW h, NEW a, NEW W, NEW p, NEW ctl, NEW st, Books(h, a, W, p, ctl, st),
           \/ \E c \in Callers : \A e \in Easy : ~Waits(h.transfers, e, c)
           \/ \E s \in Streams : \A e \in Easy : ~Waits(h.transfers, e, s)
           \/ \A e \in Easy : h.transfers[e].kind # "request"
    PROVE  NewEasy(h) \in Easy /\ h.transfers[NewEasy(h)].kind = "none"
<1> DEFINE T == h.transfers
           Of(kind) == {e \in Easy : T[e].kind = kind}
           D == Of("download")
           R == Of("request")
           S == Of("stream")
           nc == Cardinality(Callers)
           ns == Cardinality(Streams)
<1>0. /\ h \in ClientType /\ Shaped(T) /\ StreamsAgree(T, h.byStream) /\ AskInv(T, h.deferred, a, W)
      /\ ProbeInv(T, h.deferred, p) /\ StreamInv(T, h.deferred, h.nextStream, ctl, st)
  BY DEF Books
<1>1. nc \in Nat /\ ns \in Nat /\ IsFiniteSet(Easy) /\ Cardinality(Easy) = nc + ns + 1
  <2> DEFINE m == nc + ns + 1
  <2>1. m \in Int /\ ~(1 > m) /\ m - 1 + 1 = m /\ Easy = 1 .. m
    BY Numbers
  <2> HIDE DEF m
  <2>2. Cardinality(1 .. m) = IF 1 > m THEN 0 ELSE m - 1 + 1
    BY <2>1, FS_Interval
  <2>3. Cardinality(Easy) = m
    BY <2>1, <2>2
  <2> QED BY <2>3, Numbers DEF m
<1>2. \A e \in Easy : T[e].kind \in {"none", "download", "request", "stream"}
  BY <1>0, ClientFields
<1>3. ASSUME NEW X, IsFiniteSet(X), NEW K, NEW Y \in SUBSET X,
             \A e \in Of(K) : T[e].callbacks[1] \in Y,
             \A e, f \in Of(K) : T[e].callbacks[1] = T[f].callbacks[1] => e = f
      PROVE  /\ Cardinality(Of(K)) \in Nat /\ Cardinality(X) \in Nat
             /\ Cardinality(Of(K)) <= Cardinality(X)
             /\ Y # X => Cardinality(Of(K)) < Cardinality(X)
  <2> DEFINE E == Of(K)
             f == [e \in E |-> T[e].callbacks[1]]
  <2>1. f \in Injection(E, Y)
    BY <1>3 DEF Injection, IsInjective
  <2>2. IsFiniteSet(Y) /\ Cardinality(Y) <= Cardinality(X) /\ (Cardinality(X) = Cardinality(Y) => X = Y)
    BY <1>3, FS_Subset
  <2>3. IsFiniteSet(E) /\ Cardinality(E) <= Cardinality(Y)
    <3> HIDE DEF f, E
    <3> QED BY <2>1, <2>2, FS_Injection
  <2> HIDE DEF E
  <2>4. Cardinality(E) \in Nat /\ Cardinality(Y) \in Nat /\ Cardinality(X) \in Nat
    BY <1>3, <2>2, <2>3, FS_CardinalityType
  <2>5. Cardinality(E) <= Cardinality(X) /\ (Y # X => Cardinality(E) < Cardinality(X))
    BY <2>2, <2>3, <2>4
  <2> QED BY <1>3, <2>4, <2>5 DEF E
<1>4. \A e \in D : T[e].callbacks[1] \in Callers /\ Waits(T, e, T[e].callbacks[1])
  BY <1>0, <1>2, Kinds
<1>5. \A e, f \in D : T[e].callbacks[1] = T[f].callbacks[1] => e = f
  BY <1>0, <1>4 DEF AskInv, AskOf
<1>6. \A e \in S : T[e].callbacks[1] \in Streams /\ Waits(T, e, T[e].callbacks[1])
  BY <1>0, <1>2, Kinds
<1>7. \A e, f \in S : T[e].callbacks[1] = T[f].callbacks[1] => e = f
  <2> SUFFICES ASSUME NEW e \in S, NEW f \in S, T[e].callbacks[1] = T[f].callbacks[1] PROVE e = f
    OBVIOUS
  <2> DEFINE s == T[e].callbacks[1]
  <2>1. s \in Streams /\ Waits(T, e, s) /\ Waits(T, f, s)
    BY <1>6
  <2>2. T[e].id = ctl[s].id /\ T[f].id = ctl[s].id
    BY <1>0, <2>1 DEF StreamInv, StreamOf
  <2>3. T[e].id \in StreamIds
    BY <1>0 DEF Shaped, Shape
  <2> QED BY <1>0, <2>2, <2>3 DEF StreamsAgree
<1>8. IsFiniteSet(Callers) /\ IsFiniteSet(Streams)
  BY HttpConstants
<1>9. /\ Cardinality(D) \in Nat /\ Cardinality(D) <= nc
      /\ (\E c \in Callers : \A e \in Easy : ~Waits(T, e, c)) => Cardinality(D) < nc
  <2>1. Cardinality(D) \in Nat /\ Cardinality(D) <= nc
    <3> DEFINE Y == Callers
    <3>1. Y \in SUBSET Callers /\ \A e \in D : T[e].callbacks[1] \in Y
      BY <1>4
    <3> HIDE DEF Y
    <3> QED BY <1>3, <1>5, <1>8, <3>1, Zenon
  <2>2. ASSUME NEW c \in Callers, \A e \in Easy : ~Waits(T, e, c)
        PROVE  Cardinality(D) < nc
    <3> DEFINE Y == Callers \ {c}
    <3>1. \A e \in D : T[e].callbacks[1] \in Y
      BY <1>4, <2>2
    <3>2. Y \in SUBSET Callers /\ Y # Callers
      OBVIOUS
    <3> HIDE DEF Y
    <3> QED BY <1>3, <1>5, <1>8, <3>1, <3>2, Zenon
  <2> QED BY <2>1, <2>2
<1>10. /\ Cardinality(S) \in Nat /\ Cardinality(S) <= ns
       /\ (\E s \in Streams : \A e \in Easy : ~Waits(T, e, s)) => Cardinality(S) < ns
  <2>1. Cardinality(S) \in Nat /\ Cardinality(S) <= ns
    <3> DEFINE Y == Streams
    <3>1. Y \in SUBSET Streams /\ \A e \in S : T[e].callbacks[1] \in Y
      BY <1>6
    <3> HIDE DEF Y
    <3> QED BY <1>3, <1>7, <1>8, <3>1, Zenon
  <2>2. ASSUME NEW s \in Streams, \A e \in Easy : ~Waits(T, e, s)
        PROVE  Cardinality(S) < ns
    <3> DEFINE Y == Streams \ {s}
    <3>1. \A e \in S : T[e].callbacks[1] \in Y
      BY <1>6, <2>2
    <3>2. Y \in SUBSET Streams /\ Y # Streams
      OBVIOUS
    <3> HIDE DEF Y
    <3> QED BY <1>3, <1>7, <1>8, <3>1, <3>2, Zenon
  <2> QED BY <2>1, <2>2
<1>11. /\ Cardinality(R) \in {0, 1}
       /\ (\A e \in Easy : T[e].kind # "request") => Cardinality(R) = 0
  <2>1. CASE R = {}
    BY <2>1, FS_EmptySet
  <2>2. CASE R # {}
    <3>1. PICK e \in R : TRUE
      BY <2>2
    <3>2. R = {e}
      BY <1>0, <3>1 DEF ProbeInv
    <3>3. Cardinality(R) = 1
      <4> HIDE DEF R
      <4> QED BY <3>2, FS_Singleton
    <3> QED BY <3>1, <3>3
  <2> QED BY <2>1, <2>2
<1>12. IsFiniteSet(D) /\ IsFiniteSet(R) /\ IsFiniteSet(S)
  BY <1>1, FS_Subset
<1>13. Active(h) = (D \cup R) \cup S
  BY <1>2 DEF Active
<1>14. Active(h) \in SUBSET Easy
  BY DEF Active
<1> HIDE DEF D, R, S, Of, nc, ns, T
<1>15. IsFiniteSet(Active(h)) /\ Cardinality(Active(h)) <= Cardinality(D) + Cardinality(R) + Cardinality(S)
  <2>1. /\ IsFiniteSet(D \cup R)
        /\ Cardinality(D \cup R) = Cardinality(D) + Cardinality(R) - Cardinality(D \cap R)
    BY <1>12, FS_Union
  <2>2. /\ IsFiniteSet((D \cup R) \cup S)
        /\ Cardinality((D \cup R) \cup S)
             = Cardinality(D \cup R) + Cardinality(S) - Cardinality((D \cup R) \cap S)
    BY <1>12, <2>1, FS_Union
  <2>3. Cardinality(D \cap R) \in Nat /\ Cardinality((D \cup R) \cap S) \in Nat
    <3>1. IsFiniteSet(D \cap R) /\ IsFiniteSet((D \cup R) \cap S)
      BY <1>12, FS_Intersection
    <3> QED BY <3>1, FS_CardinalityType
  <2>4. Cardinality(D \cup R) \in Nat
    BY <2>1, FS_CardinalityType
  <2>5. Cardinality((D \cup R) \cup S) <= Cardinality(D) + Cardinality(R) + Cardinality(S)
    BY <1>9, <1>10, <1>11, <2>1, <2>2, <2>3, <2>4
  <2> QED BY <1>13, <2>2, <2>5
<1>16. Cardinality(Active(h)) < nc + ns + 1
  <2>1. Cardinality(Active(h)) \in Nat
    BY <1>15, FS_CardinalityType
  <2>2. \/ Cardinality(D) < nc
        \/ Cardinality(S) < ns
        \/ Cardinality(R) = 0
    BY <1>9, <1>10, <1>11 DEF T
  <2> QED BY <1>1, <1>9, <1>10, <1>11, <1>15, <2>1, <2>2
<1>17. Easy \ Active(h) # {}
  <2> SUFFICES ASSUME Easy \ Active(h) = {} PROVE FALSE
    OBVIOUS
  <2>1. Active(h) = Easy
    BY <1>14
  <2> QED BY <1>1, <1>16, <2>1
<1> DEFINE F == Easy \ Active(h)
<1>18. F \in SUBSET Nat
  BY Numbers
<1>19. Min(F) \in F /\ \A f \in F : Min(F) <= f
  <2> HIDE DEF F
  <2>1. F # {}
    BY <1>17 DEF F
  <2> QED BY <1>18, <2>1, MinIsLeast
<1>20. NewEasy(h) \in F
  BY <1>19 DEF NewEasy
<1> QED BY <1>2, <1>20 DEF Active, T

-----------------------------------------------------------------------------
(* Downloads and their answers *)

TransferType == [kind : {"none", "download", "request", "stream"}, dest : Dests \cup {None},
                 id : StreamIds \cup {0}, callbacks : Seq(Callbacks)]

LEMMA LaterFields ==
    ASSUME NEW h \in ClientType, NEW call, NEW x, [call |-> call, callback |-> x] \in Calls,
           NEW d, d = Later(h, call, x)
    PROVE  /\ d \in ClientType
           /\ d.transfers = h.transfers /\ d.byDest = h.byDest /\ d.byStream = h.byStream
           /\ d.nextStream = h.nextStream
           /\ d.deferred = Append(h.deferred, [call |-> call, callback |-> x])
<1> DEFINE q == Append(h.deferred, [call |-> call, callback |-> x])
<1>1. q \in Seq(Calls)
  BY ClientFields, AppendProperties
<1>2. d = [h EXCEPT !.deferred = q]
  BY DEF Later
<1> HIDE DEF q
<1>3. /\ d \in ClientType
      /\ d.transfers = h.transfers /\ d.byDest = h.byDest /\ d.byStream = h.byStream
      /\ d.nextStream = h.nextStream /\ d.deferred = q
  BY <1>1, <1>2 DEF ClientType, HttpType
<1> QED BY <1>3 DEF q

LEMMA TakenFields ==
    ASSUME NEW h \in ClientType, h.deferred # <<>>, NEW d, d = [h EXCEPT !.deferred = Tail(@)]
    PROVE  /\ d \in ClientType
           /\ d.transfers = h.transfers /\ d.byDest = h.byDest /\ d.byStream = h.byStream
           /\ d.nextStream = h.nextStream /\ d.deferred = Tail(h.deferred)
<1> DEFINE q == Tail(h.deferred)
<1>1. q \in Seq(Calls)
  BY ClientFields, HeadTailProperties
<1>2. d = [h EXCEPT !.deferred = q]
  OBVIOUS
<1> HIDE DEF q
<1>3. /\ d \in ClientType
      /\ d.transfers = h.transfers /\ d.byDest = h.byDest /\ d.byStream = h.byStream
      /\ d.nextStream = h.nextStream /\ d.deferred = q
  BY <1>1, <1>2 DEF ClientType, HttpType
<1> QED BY <1>3 DEF q

\* Calls of different kinds, or for different callbacks, are different.
LEMMA CallsDiffer ==
    /\ \A c \in Callers : Fail(c) \in Calls /\ \A b : Fail(b) = Fail(c) => b = c
    /\ \A n \in Networks : Respond(n) \in Calls
    /\ \A s \in Streams : Start(s) \in Calls /\ Cancel(s) \in Calls /\ Close(s) \in Calls
    /\ \A x, y : /\ Fail(x) # Respond(y) /\ Fail(x) # Start(y) /\ Fail(x) # Cancel(y) /\ Fail(x) # Close(y)
                 /\ Respond(x) # Start(y) /\ Respond(x) # Cancel(y) /\ Respond(x) # Close(y)
                 /\ Start(x) # Cancel(y) /\ Start(x) # Close(y) /\ Cancel(x) # Close(y)
    /\ \A x, y : (Start(x) = Start(y) => x = y) /\ (Cancel(x) = Cancel(y) => x = y)
    /\ \A x, y : Respond(x) = Respond(y) => x = y
<1>1. /\ \A c \in Callers : Fail(c) \in Calls
      /\ \A n \in Networks : Respond(n) \in Calls
      /\ \A s \in Streams : Start(s) \in Calls /\ Cancel(s) \in Calls /\ Close(s) \in Calls
  BY DEF Calls, DownloadCall, ProbeCall, StreamCall, Fail, Respond, Start, Cancel, Close, Probe
<1>2. \A x, y : /\ Fail(x).call = "fail" /\ Respond(x).call = "respond" /\ Start(x).call = "start"
                /\ Cancel(x).call = "cancel" /\ Close(x).call = "close"
                /\ Fail(x).callback = x /\ Start(x).callback = x /\ Cancel(x).callback = x
                /\ Respond(x).callback.probe = x
  BY DEF Fail, Respond, Start, Cancel, Close, Probe
<1> QED BY <1>1, <1>2

\* A caller in hand is left with a deferred answer.
LEMMA Fails ==
    ASSUME NEW h, NEW a, NEW W, NEW p \in BOOLEAN, NEW ctl, NEW st, Books(h, a, W, p, ctl, st),
           NEW c \in Callers, c \in W
    PROVE  Books(Later(h, "fail", c), a, W \ {c}, p, ctl, st)
<1> DEFINE d == Later(h, "fail", c)
           T == h.transfers
           Q == h.deferred
           R == Append(Q, Fail(c))
<1>1. /\ h \in ClientType /\ Q \in Seq(Calls) /\ Fail(c) \in Calls
      /\ AskInv(T, Q, a, W) /\ ProbeInv(T, Q, p) /\ StreamInv(T, Q, h.nextStream, ctl, st)
  BY ClientFields, CallsDiffer DEF Books
<1>2. /\ d \in ClientType
      /\ d.transfers = h.transfers /\ d.byDest = h.byDest /\ d.byStream = h.byStream
      /\ d.nextStream = h.nextStream /\ d.deferred = R
  BY <1>1, LaterFields DEF Fail
<1> HIDE DEF d
<1>3. /\ \A r : r # Fail(c) => SameCall(Q, R, r)
      /\ Among(R, Fail(c)) /\ (~Among(Q, Fail(c)) => Single(R, Fail(c)))
  BY <1>1, Appended
<1> HIDE DEF T, Q, R
<1>4. AskInv(T, R, a, W \ {c})
  <2> SUFFICES ASSUME NEW b \in Callers PROVE AskOf(T, R, a, W \ {c}, b)
    BY DEF AskInv
  <2>1. AskOf(T, Q, a, W, b)
    BY <1>1 DEF AskInv
  <2>2. CASE b = c
    BY <1>3, <2>1, <2>2 DEF AskOf
  <2>3. CASE b # c
    <3>1. SameCall(Q, R, Fail(b))
      BY <1>3, <2>3, CallsDiffer
    <3> QED BY <2>1, <2>3, <3>1 DEF AskOf, SameCall
  <2> QED BY <2>2, <2>3
<1>5. SameWait(T, T, Streams)
  BY DEF SameWait
<1>6. ProbeInv(T, R, p)
  <2>1. \A n \in Networks : SameCall(Q, R, Respond(n))
    BY <1>3, CallsDiffer
  <2> QED BY <1>1, <2>1, ProbeFrame
<1>7. StreamInv(T, R, h.nextStream, ctl, st)
  <2>1. \A s \in Streams : SameCall(Q, R, Start(s)) /\ SameCall(Q, R, Cancel(s))
    BY <1>3, CallsDiffer
  <2> QED BY <1>1, <1>5, <2>1, StreamFrame
<1> QED BY <1>2, <1>4, <1>6, <1>7 DEF Books, d, T

\* A caller in hand joins the callbacks of a download.
LEMMA Joins ==
    ASSUME NEW S, NEW T \in [Easy -> S], NEW Q, NEW a, NEW W, AskInv(T, Q, a, W), NEW c \in Callers, c \in W,
           NEW e \in Easy, NEW t, T[e].callbacks \in Seq(Callbacks),
           t.callbacks = Append(T[e].callbacks, c)
    PROVE  /\ AskInv([T EXCEPT ![e] = t], Q, a, W \ {c})
           /\ \A x : Waits([T EXCEPT ![e] = t], e, x) <=> Waits(T, e, x) \/ x = c
<1> DEFINE U == [T EXCEPT ![e] = t]
           q == T[e].callbacks
<1>1. U[e] = t /\ \A f \in Easy : f # e => U[f] = T[f]
  OBVIOUS
<1>2. /\ \A x : Waits(U, e, x) <=> Waits(T, e, x) \/ x = c
      /\ ~Waits(T, e, c) => Single(U[e].callbacks, c)
      /\ \A x : Single(q, x) /\ ~Waits(T, e, c) => Single(U[e].callbacks, x)
  <2>1. c \in Callbacks
    BY DEF Callbacks
  <2>2. /\ Among(Append(q, c), c)
        /\ ~Among(q, c) => Single(Append(q, c), c)
        /\ \A x : Single(q, x) /\ ~Among(q, c) => Single(Append(q, c), x)
        /\ \A x : Among(Append(q, c), x) <=> Among(q, x) \/ x = c
    BY <2>1, Appended
  <2>3. U[e].callbacks = Append(q, c)
    BY <1>1
  <2> HIDE DEF U
  <2> QED BY <2>2, <2>3 DEF Waits
<1> HIDE DEF U
<1>3. ~Waits(T, e, c)
  BY DEF AskInv, AskOf
<1>4. \A f \in Easy : \A x : f # e => (Waits(U, f, x) <=> Waits(T, f, x))
  BY <1>1 DEF Waits
<1>5. AskInv(U, Q, a, W \ {c})
  <2> SUFFICES ASSUME NEW b \in Callers PROVE AskOf(U, Q, a, W \ {c}, b)
    BY DEF AskInv
  <2>1. AskOf(T, Q, a, W, b)
    BY DEF AskInv
  <2>2. CASE b = c
    <3>1. \A f \in Easy : Waits(U, f, c) => f = e
      BY <1>4, <2>1, <2>2 DEF AskOf
    <3> QED BY <1>2, <1>3, <2>1, <2>2, <3>1 DEF AskOf
  <2>3. CASE b # c
    <3>1. \A f \in Easy : Waits(U, f, b) <=> Waits(T, f, b)
      BY <1>2, <1>4, <2>3
    <3>2. \A f \in Easy : Waits(U, f, b) => Single(U[f].callbacks, b)
      <4> TAKE f \in Easy
      <4>1. CASE f = e
        BY <1>2, <1>3, <2>1, <3>1, <4>1 DEF AskOf
      <4>2. CASE f # e
        BY <1>1, <2>1, <3>1, <4>2 DEF AskOf
      <4> QED BY <4>1, <4>2
    <3> QED BY <2>1, <2>3, <3>1, <3>2 DEF AskOf
  <2> QED BY <2>2, <2>3
<1> QED BY <1>2, <1>5 DEF U

\* A download that is neither refused nor fails at once: c joins the transfer of its
\* destination, or has one of its own.
DownloadsTo(h, r, d, c, e, t) ==
    /\ h.byDest[d] = e \/ (h.transfers[e].kind = "none" /\ h.byDest[d] = 0)
    /\ t.kind = "download" /\ t.dest = d
    /\ t.callbacks = Append(h.transfers[e].callbacks, c)
    /\ r.transfers = [h.transfers EXCEPT ![e] = t]
    /\ r.byDest = [h.byDest EXCEPT ![d] = e]
    /\ r.byStream = h.byStream /\ r.nextStream = h.nextStream /\ r.deferred = h.deferred
    /\ r \in ClientType

LEMMA DownloadCases ==
    ASSUME NEW h, NEW a, NEW W, NEW p \in BOOLEAN, NEW ctl, NEW st, Books(h, a, W, p, ctl, st),
           NEW c \in Callers, c \in W, NEW d \in Dests, NEW starts \in BOOLEAN,
           NEW r, r = Download(h, d, c, starts)
    PROVE  \/ r = Later(h, "fail", c)
           \/ \E e \in Easy, t \in TransferType : DownloadsTo(h, r, d, c, e, t)
<1> DEFINE T == h.transfers
           B == h.byDest
<1>1. /\ h \in ClientType /\ Shaped(T) /\ DestsAgree(T, B)
      /\ T \in [Easy -> TransferType] /\ B \in [Dests -> Easy \cup {0}]
  BY DEF Books, ClientType, HttpType, TransferType
<1>2. ASSUME NEW e \in Easy, NEW t \in TransferType,
             r = [h EXCEPT !.transfers = [T EXCEPT ![e] = t], !.byDest = [B EXCEPT ![d] = e]]
      PROVE  /\ r.transfers = [T EXCEPT ![e] = t] /\ r.byDest = [B EXCEPT ![d] = e]
             /\ r.byStream = h.byStream /\ r.nextStream = h.nextStream /\ r.deferred = h.deferred
             /\ r \in ClientType
  <2> DEFINE U == [T EXCEPT ![e] = t]
             V == [B EXCEPT ![d] = e]
  <2>1. U \in [Easy -> TransferType] /\ V \in [Dests -> Easy \cup {0}]
    BY <1>1
  <2>2. r = [h EXCEPT !.transfers = U, !.byDest = V]
    BY <1>2
  <2> HIDE DEF U, V
  <2>3. /\ r.transfers = U /\ r.byDest = V
        /\ r.byStream = h.byStream /\ r.nextStream = h.nextStream /\ r.deferred = h.deferred
        /\ r \in ClientType
    BY <1>1, <2>1, <2>2 DEF ClientType, HttpType, TransferType
  <2> QED BY <2>3 DEF U, V
<1>3. c \in Callbacks
  BY DEF Callbacks
<1>4. CASE offline
  BY <1>4 DEF Download
<1>5. CASE ~offline /\ Joined(h, d)
  <2> DEFINE e == B[d]
             t == [T[e] EXCEPT !.callbacks = Append(T[e].callbacks, c)]
  <2>1. e \in Easy /\ T[e].kind = "download"
    BY <1>1, <1>5 DEF Joined
  <2>2. T[e].dest = d /\ T[e] \in TransferType /\ T[e].callbacks \in Seq(Callbacks)
    BY <1>1, <2>1 DEF DestsAgree, TransferType
  <2>3. Append(T[e].callbacks, c) \in Seq(Callbacks)
    BY <1>3, <2>2, AppendProperties
  <2>4. t \in TransferType /\ t.kind = "download" /\ t.dest = d /\ t.callbacks = Append(T[e].callbacks, c)
    BY <2>1, <2>2, <2>3 DEF TransferType
  <2>5. [B EXCEPT ![d] = e] = B
    BY <1>1
  <2>6. r = [h EXCEPT !.transfers = [T EXCEPT ![e] = t]]
    BY <1>5 DEF Download
  <2>7. h = [h EXCEPT !.byDest = B]
    BY <1>1 DEF ClientType, HttpType
  <2> HIDE DEF t, e
  <2>8. r = [h EXCEPT !.transfers = [T EXCEPT ![e] = t], !.byDest = [B EXCEPT ![d] = e]]
    BY <2>5, <2>6, <2>7
  <2>9. DownloadsTo(h, r, d, c, e, t)
    BY <1>2, <2>1, <2>4, <2>8 DEF DownloadsTo, e
  <2> QED BY <2>1, <2>4, <2>9
<1>6. CASE ~offline /\ ~Joined(h, d)
  <2>1. B[d] = 0
    BY <1>1, <1>6 DEF Joined, DestsAgree
  <2>2. CASE ~starts
    <3>1. [B EXCEPT ![d] = 0] = B
      BY <1>1, <2>1
    <3>2. [h EXCEPT !.byDest[d] = 0] = h
      BY <1>1, <3>1 DEF ClientType, HttpType
    <3> QED BY <1>6, <2>2, <3>2 DEF Download
  <2>3. CASE starts
    <3> DEFINE e == NewEasy(h)
               t == [kind |-> "download", dest |-> d, id |-> 0, callbacks |-> <<c>>]
    <3>1. \A f \in Easy : ~Waits(T, f, c)
      BY DEF Books, AskInv, AskOf
    <3>2. e \in Easy /\ T[e].kind = "none"
      BY <3>1, HandleIsFree
    <3>3. T[e].callbacks = <<>>
      BY <1>1, <3>2 DEF Shaped, Shape
    <3>4. Append(T[e].callbacks, c) = <<c>> /\ <<c>> \in Seq(Callbacks)
      BY <1>3, <3>3
    <3>5. t \in TransferType /\ t.kind = "download" /\ t.dest = d /\ t.callbacks = Append(T[e].callbacks, c)
      BY <3>4 DEF TransferType
    <3>6. r = [h EXCEPT !.transfers = [T EXCEPT ![e] = t], !.byDest = [B EXCEPT ![d] = e]]
      BY <1>6, <2>3 DEF Download
    <3> HIDE DEF t, e
    <3>7. DownloadsTo(h, r, d, c, e, t)
      BY <1>2, <2>1, <3>2, <3>5, <3>6 DEF DownloadsTo
    <3> QED BY <3>2, <3>5, <3>7
  <2> QED BY <2>2, <2>3
<1> QED BY <1>4, <1>5, <1>6

\* download(): the books balance again, with c no longer in hand.
LEMMA DownloadBooked ==
    ASSUME NEW h, NEW a, NEW W, NEW p \in BOOLEAN, NEW ctl, NEW st, Books(h, a, W, p, ctl, st),
           NEW c \in Callers, c \in W, NEW d \in Dests, NEW starts \in BOOLEAN
    PROVE  Books(Download(h, d, c, starts), a, W \ {c}, p, ctl, st)
<1> DEFINE r == Download(h, d, c, starts)
           T == h.transfers
           B == h.byDest
<1>1. CASE r = Later(h, "fail", c)
  BY <1>1, Fails
<1>2. ASSUME NEW e \in Easy, NEW t \in TransferType, DownloadsTo(h, r, d, c, e, t)
      PROVE  Books(r, a, W \ {c}, p, ctl, st)
  <2> HIDE DEF r
  <2> DEFINE U == [T EXCEPT ![e] = t]
  <2>1. /\ h \in ClientType /\ a \in AskType /\ Shaped(T) /\ DestsAgree(T, B)
        /\ StreamsAgree(T, h.byStream) /\ AskInv(T, h.deferred, a, W) /\ ProbeInv(T, h.deferred, p)
        /\ StreamInv(T, h.deferred, h.nextStream, ctl, st)
    BY DEF Books
  <2>2. T \in [Easy -> TransferType] /\ B \in [Dests -> Easy \cup {0}] /\ 0 \notin Easy
    BY <2>1, Numbers DEF ClientType, HttpType, TransferType
  <2>3. /\ \/ T[e].kind = "none" /\ B[d] = 0
           \/ T[e].kind = "download" /\ T[e].dest = d /\ B[d] = e
        /\ t.kind = "download" /\ t.dest = d /\ t.callbacks = Append(T[e].callbacks, c)
        /\ r.transfers = U /\ r.byDest = [B EXCEPT ![d] = e]
        /\ r.byStream = h.byStream /\ r.nextStream = h.nextStream /\ r.deferred = h.deferred
        /\ r \in ClientType
    <3>1. B[d] = e => T[e].kind = "download" /\ T[e].dest = d
      BY <2>1 DEF DestsAgree
    <3>2. r.transfers = [h.transfers EXCEPT ![e] = t] /\ r.byDest = [h.byDest EXCEPT ![d] = e]
      BY <1>2 DEF DownloadsTo
    <3>3. /\ t.kind = "download" /\ t.dest = d /\ t.callbacks = Append(h.transfers[e].callbacks, c)
          /\ r.byStream = h.byStream /\ r.nextStream = h.nextStream /\ r.deferred = h.deferred
          /\ r \in ClientType
          /\ h.byDest[d] = e \/ (h.transfers[e].kind = "none" /\ h.byDest[d] = 0)
      BY <1>2 DEF DownloadsTo
    <3> QED BY <3>1, <3>2, <3>3
  <2>4. U[e] = t /\ \A f \in Easy : f # e => U[f] = T[f]
    BY <2>2
  <2>5. /\ AskInv(U, h.deferred, a, W \ {c})
        /\ \A x : Waits(U, e, x) <=> Waits(T, e, x) \/ x = c
    <3>1. T[e].callbacks \in Seq(Callbacks)
      BY <2>2 DEF TransferType
    <3>2. AskInv(T, h.deferred, a, W) /\ T \in [Easy -> TransferType] /\ t.callbacks = Append(T[e].callbacks, c)
      BY <2>1, <2>2, <2>3
    <3> HIDE DEF T
    <3> QED BY <3>1, <3>2, Joins
  <2> HIDE DEF U
  <2>6. Shaped(U)
    <3>1. t.callbacks \in Seq(Callers) /\ t.callbacks # <<>>
      <4>1. T[e].callbacks \in Seq(Callers)
        <5>1. Shape(T[e]) /\ <<>> \in Seq(Callers)
          BY <2>1 DEF Shaped
        <5> QED BY <2>3, <5>1 DEF Shape
      <4> QED BY <2>3, <4>1, AppendProperties
    <3>2. Shape(t)
      BY <2>3, <3>1 DEF Shape
    <3> QED BY <2>1, <2>4, <3>2 DEF Shaped
  <2>7. DestsAgree(U, [B EXCEPT ![d] = e])
    <3> SUFFICES ASSUME NEW f \in Easy, NEW b \in Dests
                 PROVE  [B EXCEPT ![d] = e][b] = f <=> U[f].kind = "download" /\ U[f].dest = b
      BY DEF DestsAgree
    <3>1. B[b] = f <=> T[f].kind = "download" /\ T[f].dest = b
      BY <2>1 DEF DestsAgree
    <3>2. B[d] = f <=> T[f].kind = "download" /\ T[f].dest = d
      BY <2>1 DEF DestsAgree
    <3>3. [B EXCEPT ![d] = e][b] = IF b = d THEN e ELSE B[b]
      BY <2>2
    <3> QED BY <2>2, <2>3, <2>4, <3>1, <3>2, <3>3
  <2>8. StreamsAgree(U, h.byStream)
    BY <2>1, <2>3, <2>4 DEF StreamsAgree
  <2>9. ProbeInv(U, h.deferred, p)
    <3>1. \A f \in Easy : U[f].kind = "request" <=> T[f].kind = "request"
      BY <2>3, <2>4
    <3>2. \A n \in Networks : SameCall(h.deferred, h.deferred, Respond(n))
      BY DEF SameCall
    <3> QED BY <2>1, <3>1, <3>2, ProbeFrame
  <2>10. StreamInv(U, h.deferred, h.nextStream, ctl, st)
    <3>1. SameWait(T, U, Streams)
      <4> SUFFICES ASSUME NEW f \in Easy, NEW s \in Streams
                   PROVE  (Waits(U, f, s) <=> Waits(T, f, s)) /\ (Waits(T, f, s) => U[f] = T[f])
        BY DEF SameWait
      <4>1. CASE f = e
        <5>1. T[e].kind # "stream" /\ T[e].kind \in {"none", "download", "request", "stream"}
          BY <2>3
        <5>2. ~Waits(T, e, s)
          BY <2>1, <5>1, Kinds
        <5>3. s # c
          BY CallbacksApart
        <5> QED BY <2>5, <4>1, <5>2, <5>3
      <4>2. CASE f # e
        BY <2>4, <4>2 DEF Waits
      <4> QED BY <4>1, <4>2
    <3>2. \A s \in Streams : SameCall(h.deferred, h.deferred, Start(s)) /\ SameCall(h.deferred, h.deferred, Cancel(s))
      BY DEF SameCall
    <3> QED BY <2>1, <3>1, <3>2, StreamFrame
  <2> QED BY <2>1, <2>3, <2>5, <2>6, <2>7, <2>8, <2>9, <2>10 DEF Books
<1>3. r = Later(h, "fail", c) \/ \E e \in Easy, t \in TransferType : DownloadsTo(h, r, d, c, e, t)
  <2> HIDE DEF r
  <2>1. r = Download(h, d, c, starts)
    BY DEF r
  <2> QED BY <2>1, DownloadCases
<1> QED BY <1>1, <1>2, <1>3

\* The asks change, the client does not.
LEMMA OtherAsks ==
    ASSUME NEW h, NEW a, NEW W, NEW p \in BOOLEAN, NEW ctl, NEW st, Books(h, a, W, p, ctl, st),
           NEW b \in AskType, NEW V, AskInv(h.transfers, h.deferred, b, V)
    PROVE  Books(h, b, V, p, ctl, st)
BY DEF Books

LEMMA AskKinds ==
    ASSUME NEW a \in AskType, NEW c \in Callers, a[c] # NoAsk
    PROVE  /\ a[c].dest \in Dests /\ a[c].left \in 1 .. Candidates
           /\ a[c] = [dest |-> a[c].dest, left |-> a[c].left]
BY DEF AskType

LEMMA IsAnAsk ==
    ASSUME NEW d \in Dests, NEW n \in 1 .. Candidates
    PROVE  /\ [dest |-> d, left |-> n] \in [dest : Dests, left : 1 .. Candidates]
           /\ [dest |-> d, left |-> n] # NoAsk
<1>1. [dest |-> d, left |-> n].left = n /\ NoAsk.left = 0 /\ n # 0
  BY CallerConstants DEF NoAsk
<1> QED BY <1>1

\* A caller that asks is in hand.
LEMMA Asked ==
    ASSUME NEW h, NEW a, NEW p \in BOOLEAN, NEW ctl, NEW st, Books(h, a, {}, p, ctl, st),
           NEW c \in Callers, a[c] = NoAsk, NEW d \in Dests, NEW n \in 1 .. Candidates
    PROVE  Books(h, [a EXCEPT ![c] = [dest |-> d, left |-> n]], {c}, p, ctl, st)
<1> DEFINE k == [dest |-> d, left |-> n]
           b == [a EXCEPT ![c] = k]
<1>1. a \in AskType /\ AskInv(h.transfers, h.deferred, a, {})
  BY DEF Books
<1>2. k # NoAsk /\ k \in [dest : Dests, left : 1 .. Candidates]
  BY IsAnAsk
<1> HIDE DEF k
<1>3. b \in AskType /\ b[c] = k /\ \A x \in Callers : x # c => b[x] = a[x]
  BY <1>1, <1>2 DEF AskType
<1> HIDE DEF b
<1>4. AskInv(h.transfers, h.deferred, b, {c})
  BY <1>1, <1>2, <1>3 DEF AskInv, AskOf
<1> QED BY <1>3, <1>4, OtherAsks DEF b, k

AskState == [http : ClientType, asks : AskType]

\* The callback of a candidate: the caller in hand is done, or its next candidate is started.
LEMMA AnswerBooked ==
    ASSUME NEW x \in AskState, NEW W, NEW p \in BOOLEAN, NEW ctl, NEW st,
           Books(x.http, x.asks, W, p, ctl, st),
           NEW c \in Callers, c \in W, NEW ok \in BOOLEAN, NEW starts \in BOOLEAN,
           NEW r, r = DownloadAnswered(x, c, ok, starts)
    PROVE  r \in AskState /\ Books(r.http, r.asks, W \ {c}, p, ctl, st)
<1> DEFINE h == x.http
           a == x.asks
<1>1. /\ x = [http |-> h, asks |-> a] /\ h \in ClientType /\ a \in AskType
      /\ AskInv(h.transfers, h.deferred, a, W)
  BY DEF AskState, Books
<1>2. a[c] # NoAsk
  BY <1>1 DEF AskInv, AskOf
<1>3. a[c].dest \in Dests /\ a[c].left \in 1 .. Candidates
  BY <1>1, <1>2, AskKinds
<1>4. CASE ok \/ a[c].left = 1
  <2> DEFINE b == [a EXCEPT ![c] = NoAsk]
  <2>1. r = [http |-> h, asks |-> b]
    BY <1>1, <1>4 DEF DownloadAnswered
  <2>2. b \in AskType /\ b[c] = NoAsk /\ \A y \in Callers : y # c => b[y] = a[y]
    BY <1>1 DEF AskType
  <2> HIDE DEF b, a, h
  <2>3. AskInv(h.transfers, h.deferred, b, W \ {c})
    <3> SUFFICES ASSUME NEW y \in Callers PROVE AskOf(h.transfers, h.deferred, b, W \ {c}, y)
      BY DEF AskInv
    <3>1. AskOf(h.transfers, h.deferred, a, W, y)
      BY <1>1 DEF AskInv
    <3> QED BY <2>2, <3>1 DEF AskOf
  <2>4. Books(h, a, W, p, ctl, st)
    BY DEF h, a
  <2>5. Books(h, b, W \ {c}, p, ctl, st)
    BY <2>2, <2>3, <2>4, OtherAsks
  <2> QED BY <1>1, <2>1, <2>2, <2>5 DEF AskState
<1>5. CASE ~(ok \/ a[c].left = 1)
  <2> DEFINE k == [dest |-> a[c].dest, left |-> a[c].left - 1]
             b == [a EXCEPT ![c] = k]
             d == a[c].dest
  <2>1. [a EXCEPT ![c].left = @ - 1] = b
    <3>1. a[c] = [dest |-> a[c].dest, left |-> a[c].left]
      BY <1>1, <1>2, AskKinds
    <3>2. [a[c] EXCEPT !.left = @ - 1] = k
      BY <3>1
    <3> QED BY <3>2
  <2>2. r = [http |-> Download(h, d, c, starts), asks |-> b]
    BY <1>1, <1>5, <2>1 DEF DownloadAnswered
  <2>3. k # NoAsk /\ k \in [dest : Dests, left : 1 .. Candidates]
    <3>1. a[c].left - 1 \in 1 .. Candidates
      BY <1>3, <1>5, CallerConstants
    <3> QED BY <1>3, <3>1, IsAnAsk
  <2> HIDE DEF k
  <2>4. b \in AskType /\ b[c] = k /\ \A y \in Callers : y # c => b[y] = a[y]
    BY <1>1, <2>3 DEF AskType
  <2>5. d \in Dests
    BY <1>3
  <2>6. Books(h, a, W, p, ctl, st)
    OBVIOUS
  <2> HIDE DEF b, a, h, d
  <2>7. AskInv(h.transfers, h.deferred, b, W)
    <3> SUFFICES ASSUME NEW y \in Callers PROVE AskOf(h.transfers, h.deferred, b, W, y)
      BY DEF AskInv
    <3>1. AskOf(h.transfers, h.deferred, a, W, y)
      BY <1>1 DEF AskInv
    <3>2. b[y] = NoAsk <=> a[y] = NoAsk
      BY <1>2, <2>3, <2>4
    <3> QED BY <3>1, <3>2 DEF AskOf
  <2>8. Books(h, b, W, p, ctl, st)
    BY <2>4, <2>6, <2>7, OtherAsks
  <2>9. Books(Download(h, d, c, starts), b, W \ {c}, p, ctl, st)
    BY <2>5, <2>8, DownloadBooked
  <2>10. Download(h, d, c, starts) \in ClientType
    BY <2>9 DEF Books
  <2> QED BY <2>2, <2>4, <2>9, <2>10 DEF AskState
<1> QED BY <1>4, <1>5

Balanced(x, W, p, ctl, st) == x \in AskState /\ Books(x.http, x.asks, W, p, ctl, st)

LEMMA AnswerBalanced ==
    ASSUME NEW x, NEW W, NEW p \in BOOLEAN, NEW ctl, NEW st, Balanced(x, W, p, ctl, st),
           NEW c \in W, c \in Callers, NEW ok \in BOOLEAN, NEW starts \in BOOLEAN
    PROVE  Balanced(DownloadAnswered(x, c, ok, starts), W \ {c}, p, ctl, st)
<1> DEFINE r == DownloadAnswered(x, c, ok, starts)
<1>1. r = DownloadAnswered(x, c, ok, starts)
  OBVIOUS
<1> HIDE DEF r
<1>2. x \in AskState /\ Books(x.http, x.asks, W, p, ctl, st)
  BY DEF Balanced
<1>3. r \in AskState /\ Books(r.http, r.asks, W \ {c}, p, ctl, st)
  BY <1>1, <1>2, AnswerBooked
<1> QED BY <1>3 DEF Balanced, r

\* The callbacks of a transfer run one after the other.
LEMMA AnswerRun ==
    ASSUME NEW h, NEW callbacks, NEW ok, NEW starters, Len(callbacks) \in Nat
    PROVE  \E after :
              /\ after[0] = [http |-> h, asks |-> asks]
              /\ \A i \in 1..Len(callbacks) : after[i] = DownloadAnswered(after[i - 1], callbacks[i], ok, callbacks[i] \in starters)
              /\ AnswerAll(h, callbacks, ok, starters) = after[Len(callbacks)]
<1> DEFINE base == [http |-> h, asks |-> asks]
           n == Len(callbacks)
           Run(f, m) == f = [i \in 0..m |-> IF i = 0 THEN base ELSE DownloadAnswered(f[i - 1], callbacks[i], ok, callbacks[i] \in starters)]
           T == {m \in Nat : \E f : Run(f, m)}
<1>1. 0 \in T
  <2> DEFINE f == [i \in 0..0 |-> base]
  <2>1. Run(f, 0)
    OBVIOUS
  <2> QED BY <2>1
<1>2. \A m \in Nat : m \in T => m + 1 \in T
  <2> SUFFICES ASSUME NEW m \in Nat, m \in T PROVE m + 1 \in T
    OBVIOUS
  <2>1. PICK f : Run(f, m)
    OBVIOUS
  <2> DEFINE g == [i \in 0..(m + 1) |-> IF i = m + 1 THEN DownloadAnswered(f[m], callbacks[m + 1], ok, callbacks[m + 1] \in starters) ELSE f[i]]
  <2> HIDE DEF base
  <2>2. \A i \in 0..m : g[i] = f[i]
    OBVIOUS
  <2>3. ASSUME NEW i \in 0..(m + 1)
        PROVE  g[i] = IF i = 0 THEN base ELSE DownloadAnswered(g[i - 1], callbacks[i], ok, callbacks[i] \in starters)
    <3>1. CASE i = m + 1
      <4>1. g[i - 1] = f[m] /\ i # 0
        BY <2>2, <3>1
      <4> QED BY <3>1, <4>1
    <3>2. CASE i # m + 1
      <4>1. i \in 0..m /\ (i # 0 => i - 1 \in 0..m)
        BY <3>2
      <4>2. f[i] = IF i = 0 THEN base ELSE DownloadAnswered(f[i - 1], callbacks[i], ok, callbacks[i] \in starters)
        BY <2>1, <4>1
      <4> QED BY <2>2, <4>1, <4>2
    <3> QED BY <3>1, <3>2
  <2>4. Run(g, m + 1)
    BY <2>3
  <2> HIDE DEF Run, g
  <2>5. \E k : Run(k, m + 1)
    BY <2>4
  <2> QED BY <2>5
<1> HIDE DEF T
<1>3. n \in T
  BY <1>1, <1>2, Counting
<1> DEFINE after == CHOOSE f : Run(f, n)
<1>4. Run(after, n)
  <2>1. \E f : Run(f, n)
    BY <1>3 DEF T
  <2> HIDE DEF Run
  <2> QED BY <2>1
<1>5. AnswerAll(h, callbacks, ok, starters) = after[n]
  BY DEF AnswerAll
<1> HIDE DEF after, base
<1>6. after[0] = base /\ \A i \in 1..n : after[i] = DownloadAnswered(after[i - 1], callbacks[i], ok, callbacks[i] \in starters)
  <2>1. \A i \in 0..n : after[i] = IF i = 0 THEN base ELSE DownloadAnswered(after[i - 1], callbacks[i], ok, callbacks[i] \in starters)
    BY <1>4
  <2> QED BY <2>1
<1> QED BY <1>5, <1>6 DEF base

\* The callbacks of a transfer, all in hand at first, run one after the other.
LEMMA AllAnswered ==
    ASSUME NEW h \in ClientType, NEW q \in Seq(Callers), NEW p \in BOOLEAN, NEW ctl, NEW st,
           Books(h, asks, {q[i] : i \in 1..Len(q)}, p, ctl, st),
           \A i, j \in 1..Len(q) : q[i] = q[j] => i = j,
           NEW ok \in BOOLEAN, NEW starters \in SUBSET Callers,
           NEW r, r = AnswerAll(h, q, ok, starters)
    PROVE  r \in AskState /\ Books(r.http, r.asks, {}, p, ctl, st)
<1> DEFINE n == Len(q)
           Left(m) == {q[i] : i \in (m + 1)..n}
<1>1. n \in Nat /\ \A i \in 1..n : q[i] \in Callers
  BY LenProperties, ElementOfSeq
<1>2. PICK after :
        /\ after[0] = [http |-> h, asks |-> asks]
        /\ \A i \in 1..n : after[i] = DownloadAnswered(after[i - 1], q[i], ok, q[i] \in starters)
        /\ AnswerAll(h, q, ok, starters) = after[n]
  BY <1>1, AnswerRun
<1> DEFINE Fine(m) == Balanced(after[m], Left(m), p, ctl, st)
           M == {m \in 0..n : Fine(m)}
<1>3. 0 \in M
  <2>1. Left(0) = {q[i] : i \in 1..Len(q)}
    OBVIOUS
  <2>2. asks \in AskType
    BY DEF Books
  <2>3. after[0] \in AskState /\ after[0].http = h /\ after[0].asks = asks
    BY <1>2, <2>2 DEF AskState
  <2> HIDE DEF Left
  <2>4. Fine(0)
    BY <2>1, <2>3 DEF Balanced
  <2> QED BY <1>1, <2>4
<1>4. ASSUME NEW m \in 0..(n - 1), m \in M PROVE m + 1 \in M
  <2> DEFINE c == q[m + 1]
             y == after[m]
             z == after[m + 1]
  <2>1. m + 1 \in 1..n /\ m + 1 \in 0..n /\ m + 1 - 1 = m
    BY <1>1
  <2>2. c \in Callers /\ c \in Left(m)
    <3>1. m + 1 \in (m + 1)..n
      BY <2>1
    <3> QED BY <1>1, <2>1, <3>1
  <2>3. Left(m + 1) = Left(m) \ {c}
    <3>1. \A i : i \in (m + 1 + 1)..n <=> i \in (m + 1)..n /\ i # m + 1
      BY <1>1
    <3>2. \A i \in (m + 1)..n : i \in 1..n
      BY <1>1
    <3>3. \A i \in (m + 1)..n : q[i] = c => i = m + 1
      BY <2>1, <3>2
    <3> QED BY <3>1, <3>3
  <2>4. z = DownloadAnswered(y, c, ok, c \in starters)
    BY <1>2, <2>1
  <2>5. Balanced(y, Left(m), p, ctl, st)
    BY <1>4
  <2> DEFINE b == c \in starters
  <2>6. b \in BOOLEAN /\ z = DownloadAnswered(y, c, ok, b)
    BY <2>4
  <2> DEFINE W == Left(m)
  <2>7. Balanced(z, W \ {c}, p, ctl, st)
    <3>1. c \in Callers /\ c \in W
      BY <2>2
    <3>2. Balanced(y, W, p, ctl, st)
      BY <2>5
    <3> HIDE DEF Left, c, y, z, b, W, M, n, Fine
    <3>3. Balanced(DownloadAnswered(y, c, ok, b), W \ {c}, p, ctl, st)
      BY <2>6, <3>1, <3>2, AnswerBalanced
    <3> QED BY <2>6, <3>3
  <2>8. Fine(m + 1)
    <3> HIDE DEF Left, c
    <3> QED BY <2>3, <2>7
  <2> QED BY <2>1, <2>8
<1>5. n \in M
  <2> HIDE DEF M
  <2>1. \A m \in 0..n : m \in M
    BY <1>1, <1>3, <1>4, CountingTo
  <2> QED BY <1>1, <2>1
<1>6. Left(n) = {}
  BY <1>1
<1> HIDE DEF Left
<1> QED BY <1>2, <1>5, <1>6 DEF Balanced

\* A download comes to its end: its callbacks are in hand, each once.
LEMMA Finished ==
    ASSUME NEW h, NEW a, NEW p \in BOOLEAN, NEW ctl, NEW st, Books(h, a, {}, p, ctl, st),
           NEW e \in Easy, h.transfers[e].kind = "download",
           NEW q, q = h.transfers[e].callbacks
    PROVE  /\ q \in Seq(Callers) /\ \A i, j \in 1..Len(q) : q[i] = q[j] => i = j
           /\ FinishTransfer(h, e) \in ClientType
           /\ Books(FinishTransfer(h, e), a, {q[i] : i \in 1..Len(q)}, p, ctl, st)
<1> DEFINE r == FinishTransfer(h, e)
           T == h.transfers
           B == h.byDest
           d == T[e].dest
           U == [T EXCEPT ![e] = NoTransfer]
           V == [B EXCEPT ![d] = 0]
           W == {q[i] : i \in 1..Len(q)}
<1>1. /\ h \in ClientType /\ a \in AskType /\ Shaped(T) /\ DestsAgree(T, B)
      /\ StreamsAgree(T, h.byStream) /\ AskInv(T, h.deferred, a, {}) /\ ProbeInv(T, h.deferred, p)
      /\ StreamInv(T, h.deferred, h.nextStream, ctl, st)
  BY DEF Books
<1>2. T \in [Easy -> TransferType] /\ B \in [Dests -> Easy \cup {0}] /\ 0 \notin Easy
  BY <1>1, Numbers DEF ClientType, HttpType, TransferType
<1>3. d \in Dests /\ q \in Seq(Callers) /\ q # <<>>
  BY <1>1 DEF Shaped, Shape
<1>4. NoTransfer \in TransferType
  BY DEF NoTransfer, TransferType
<1>5. /\ r \in ClientType /\ r.transfers = U /\ r.byDest = V
      /\ r.byStream = h.byStream /\ r.nextStream = h.nextStream /\ r.deferred = h.deferred
  <2>1. U \in [Easy -> TransferType] /\ V \in [Dests -> Easy \cup {0}]
    BY <1>2, <1>4
  <2>2. r = [h EXCEPT !.transfers = U, !.byDest = V]
    BY DEF FinishTransfer
  <2> HIDE DEF U, V, r
  <2>3. /\ r \in ClientType /\ r.transfers = U /\ r.byDest = V
        /\ r.byStream = h.byStream /\ r.nextStream = h.nextStream /\ r.deferred = h.deferred
    BY <1>1, <2>1, <2>2 DEF ClientType, HttpType, TransferType
  <2> QED BY <2>3
<1> HIDE DEF r
<1>6. U[e] = NoTransfer /\ \A f \in Easy : f # e => U[f] = T[f]
  BY <1>2
<1>7. NoTransfer.kind = "none" /\ \A x : ~Among(NoTransfer.callbacks, x)
  BY DEF NoTransfer, Among
<1>8. Len(q) \in Nat /\ DOMAIN q = 1..Len(q) /\ \A i \in 1..Len(q) : q[i] \in Callers
  BY <1>3, LenProperties, ElementOfSeq
<1>9. \A c \in Callers : c \in W <=> Waits(T, e, c)
  BY <1>8 DEF Waits, Among
<1>10. \A i, j \in 1..Len(q) : q[i] = q[j] => i = j
  <2> SUFFICES ASSUME NEW i \in 1..Len(q), NEW j \in 1..Len(q), q[i] = q[j] PROVE i = j
    OBVIOUS
  <2> DEFINE c == q[i]
  <2>1. c \in Callers /\ Waits(T, e, c)
    BY <1>8 DEF Waits, Among
  <2>2. Single(q, c)
    BY <1>1, <2>1 DEF AskInv, AskOf
  <2> QED BY <1>8, <2>2 DEF Single
<1>11. \A f \in Easy : \A x : Waits(U, f, x) <=> f # e /\ Waits(T, f, x)
  BY <1>6, <1>7 DEF Waits
<1> HIDE DEF U, W
<1>12. AskInv(U, h.deferred, a, W)
  <2> SUFFICES ASSUME NEW c \in Callers PROVE AskOf(U, h.deferred, a, W, c)
    BY DEF AskInv
  <2>1. AskOf(T, h.deferred, a, {}, c)
    BY <1>1 DEF AskInv
  <2>2. \A f \in Easy : Waits(U, f, c) => U[f] = T[f] /\ Waits(T, f, c)
    BY <1>6, <1>11
  <2>3. c \in W <=> Waits(T, e, c)
    BY <1>9
  <2> QED BY <1>11, <2>1, <2>2, <2>3 DEF AskOf
<1>13. Shaped(U)
  <2>1. Shape(NoTransfer)
    BY DEF Shape, NoTransfer
  <2> QED BY <1>1, <1>6, <2>1 DEF Shaped
<1>14. DestsAgree(U, V)
  <2> SUFFICES ASSUME NEW f \in Easy, NEW b \in Dests
               PROVE  V[b] = f <=> U[f].kind = "download" /\ U[f].dest = b
    BY DEF DestsAgree
  <2>1. B[b] = f <=> T[f].kind = "download" /\ T[f].dest = b
    BY <1>1 DEF DestsAgree
  <2>2. B[d] = e
    BY <1>1, <1>3 DEF DestsAgree
  <2>3. V[b] = IF b = d THEN 0 ELSE B[b]
    BY <1>2
  <2> QED BY <1>2, <1>6, <1>7, <2>1, <2>2, <2>3
<1>15. StreamsAgree(U, h.byStream)
  BY <1>1, <1>6, <1>7 DEF StreamsAgree
<1>16. ProbeInv(U, h.deferred, p)
  <2>1. \A f \in Easy : U[f].kind = "request" <=> T[f].kind = "request"
    BY <1>6, <1>7
  <2>2. \A n \in Networks : SameCall(h.deferred, h.deferred, Respond(n))
    BY DEF SameCall
  <2> QED BY <1>1, <2>1, <2>2, ProbeFrame
<1>17. StreamInv(U, h.deferred, h.nextStream, ctl, st)
  <2>1. SameWait(T, U, Streams)
    <3>1. T[e].kind \in {"none", "download", "request", "stream"}
      OBVIOUS
    <3>2. \A s \in Streams : ~Waits(T, e, s)
      <4>1. \A s \in Streams : Waits(T, e, s) => T[e].kind = "stream"
        BY <1>1, <3>1, Kinds
      <4> QED BY <4>1
    <3> QED BY <1>6, <1>11, <3>2 DEF SameWait
  <2>2. \A s \in Streams : SameCall(h.deferred, h.deferred, Start(s)) /\ SameCall(h.deferred, h.deferred, Cancel(s))
    BY DEF SameCall
  <2> QED BY <1>1, <2>1, <2>2, StreamFrame
<1>18. Books(r, a, W, p, ctl, st)
  BY <1>1, <1>5, <1>12, <1>13, <1>14, <1>15, <1>16, <1>17 DEF Books
<1> QED BY <1>3, <1>5, <1>10, <1>18 DEF r, W

\* A deferred failure is taken from the queue: its caller is in hand.
LEMMA FailureTaken ==
    ASSUME NEW h, NEW a, NEW p \in BOOLEAN, NEW ctl, NEW st, Books(h, a, {}, p, ctl, st),
           h.deferred # <<>>, NEW c \in Callers, Head(h.deferred) = Fail(c),
           NEW d, d = [h EXCEPT !.deferred = Tail(@)]
    PROVE  d \in ClientType /\ Books(d, a, {c}, p, ctl, st)
<1> DEFINE T == h.transfers
           Q == h.deferred
           R == Tail(Q)
<1>1. /\ h \in ClientType /\ Q \in Seq(Calls)
      /\ AskInv(T, Q, a, {}) /\ ProbeInv(T, Q, p) /\ StreamInv(T, Q, h.nextStream, ctl, st)
  BY ClientFields DEF Books
<1>2. /\ d \in ClientType
      /\ d.transfers = h.transfers /\ d.byDest = h.byDest /\ d.byStream = h.byStream
      /\ d.nextStream = h.nextStream /\ d.deferred = R
  BY <1>1, TakenFields
<1>3. /\ \A r : r # Fail(c) => SameCall(Q, R, r)
      /\ Among(Q, Fail(c))
      /\ \A r : Single(Q, r) => Single(R, r)
      /\ Single(Q, Fail(c)) => ~Among(R, Fail(c))
  BY <1>1, Taken
<1> HIDE DEF T, Q, R
<1>4. AskInv(T, R, a, {c})
  <2> SUFFICES ASSUME NEW b \in Callers PROVE AskOf(T, R, a, {c}, b)
    BY DEF AskInv
  <2>1. AskOf(T, Q, a, {}, b)
    BY <1>1 DEF AskInv
  <2>2. CASE b = c
    BY <1>3, <2>1, <2>2 DEF AskOf
  <2>3. CASE b # c
    <3>1. SameCall(Q, R, Fail(b))
      BY <1>3, <2>3, CallsDiffer
    <3> QED BY <2>1, <2>3, <3>1 DEF AskOf, SameCall
  <2> QED BY <2>2, <2>3
<1>5. SameWait(T, T, Streams)
  BY DEF SameWait
<1>6. ProbeInv(T, R, p)
  <2>1. \A n \in Networks : SameCall(Q, R, Respond(n))
    BY <1>3, CallsDiffer
  <2> QED BY <1>1, <2>1, ProbeFrame
<1>7. StreamInv(T, R, h.nextStream, ctl, st)
  <2>1. \A s \in Streams : SameCall(Q, R, Start(s)) /\ SameCall(Q, R, Cancel(s))
    BY <1>3, CallsDiffer
  <2> QED BY <1>1, <1>5, <2>1, StreamFrame
<1> QED BY <1>2, <1>4, <1>6, <1>7 DEF Books, T

-----------------------------------------------------------------------------
(* The probe *)

\* Nothing about the callers is in R that is not in Q.
AskCalls(Q, R) == \A c \in Callers : SameCall(Q, R, Fail(c))
ProbeCalls(Q, R) == \A n \in Networks : SameCall(Q, R, Respond(n))
StreamCalls(Q, R) == \A s \in Streams : SameCall(Q, R, Start(s)) /\ SameCall(Q, R, Cancel(s))

\* A call of another kind is put into the queue, or taken from it.
LEMMA OtherCalls ==
    ASSUME NEW Q \in Seq(Calls), NEW x \in Calls, NEW R,
           \/ R = Append(Q, x)
           \/ Q # <<>> /\ Head(Q) = x /\ R = Tail(Q)
    PROVE  /\ (\A c \in Callers : x # Fail(c)) => AskCalls(Q, R)
           /\ (\A n \in Networks : x # Respond(n)) => ProbeCalls(Q, R)
           /\ (\A s \in Streams : x # Start(s) /\ x # Cancel(s)) => StreamCalls(Q, R)
<1>1. \A r : r # x => SameCall(Q, R, r)
  <2>1. CASE R = Append(Q, x)
    BY <2>1, Appended
  <2>2. CASE Q # <<>> /\ Head(Q) = x /\ R = Tail(Q)
    BY <2>2, Taken
  <2> QED BY <2>1, <2>2
<1> QED BY <1>1 DEF AskCalls, ProbeCalls, StreamCalls

LEMMA AskSame == \A Q : AskCalls(Q, Q) /\ ProbeCalls(Q, Q) /\ StreamCalls(Q, Q)
BY DEF AskCalls, ProbeCalls, StreamCalls, SameCall

LEMMA WaitSame == \A T, X : SameWait(T, T, X)
BY DEF SameWait

\* A request of the probe, when none is in flight: one is, or its answer is to come.
LEMMA Requested ==
    ASSUME NEW h, NEW a, NEW ctl, NEW st, Books(h, a, {}, FALSE, ctl, st),
           NEW n \in Networks, NEW starts \in BOOLEAN,
           NEW r, r = Request(h, Probe(n), starts)
    PROVE  Books(r, a, {}, TRUE, ctl, st)
<1> DEFINE T == h.transfers
           Q == h.deferred
<1>1. /\ h \in ClientType /\ a \in AskType /\ Shaped(T) /\ DestsAgree(T, h.byDest)
      /\ StreamsAgree(T, h.byStream) /\ AskInv(T, Q, a, {}) /\ ProbeInv(T, Q, FALSE)
      /\ StreamInv(T, Q, h.nextStream, ctl, st)
  BY DEF Books
<1>2. T \in [Easy -> TransferType] /\ Q \in Seq(Calls) /\ Respond(n) \in Calls
  BY <1>1, CallsDiffer DEF ClientType, HttpType, TransferType
<1>3. /\ \A e \in Easy : T[e].kind # "request"
      /\ \A m \in Networks : ~Among(Q, Respond(m)) /\ Single(Q, Respond(m))
  BY <1>1 DEF ProbeInv
<1>4. CASE offline \/ ~starts
  <2> DEFINE R == Append(Q, Respond(n))
  <2>1. r = Later(h, "respond", Probe(n))
    BY <1>4 DEF Request
  <2>2. /\ r \in ClientType
        /\ r.transfers = T /\ r.byDest = h.byDest /\ r.byStream = h.byStream
        /\ r.nextStream = h.nextStream /\ r.deferred = R
    BY <1>1, <1>2, <2>1, LaterFields DEF Respond
  <2>3. AskCalls(Q, R) /\ StreamCalls(Q, R)
    <3> DEFINE x == Respond(n)
    <3>1. /\ x \in Calls /\ (\A c \in Callers : x # Fail(c)) /\ (\A s \in Streams : x # Start(s) /\ x # Cancel(s))
          /\ R = Append(Q, x)
      BY <1>2, CallsDiffer
    <3> HIDE DEF x, R, Q
    <3> QED BY <1>2, <3>1, OtherCalls
  <2>4. /\ \A m \in Networks : m # n => SameCall(Q, R, Respond(m))
        /\ Among(R, Respond(n)) /\ Single(R, Respond(n))
    BY <1>2, <1>3, Appended, CallsDiffer
  <2> HIDE DEF T, Q, R
  <2>5. ProbeInv(T, R, TRUE)
    BY <1>3, <2>4 DEF ProbeInv, SameCall
  <2>6. AskInv(T, R, a, {})
    BY <1>1, <2>3, WaitSame, AskFrame DEF AskCalls
  <2>7. StreamInv(T, R, h.nextStream, ctl, st)
    BY <1>1, <2>3, WaitSame, StreamFrame DEF StreamCalls
  <2> QED BY <1>1, <2>2, <2>5, <2>6, <2>7 DEF Books
<1>5. CASE ~(offline \/ ~starts)
  <2> DEFINE e == NewEasy(h)
             t == [kind |-> "request", dest |-> None, id |-> 0, callbacks |-> <<Probe(n)>>]
             U == [T EXCEPT ![e] = t]
  <2>1. e \in Easy /\ T[e].kind = "none"
    BY <1>3, HandleIsFree
  <2>2. <<Probe(n)>> \in Seq(Callbacks) /\ Probe(n) \in [probe : Networks]
    BY DEF Callbacks, Probe
  <2>3. t \in TransferType
    BY <2>2 DEF TransferType
  <2>4. r = [h EXCEPT !.transfers = U]
    BY <1>5 DEF Request
  <2>5. t.kind = "request" /\ t.callbacks = <<Probe(n)>>
    OBVIOUS
  <2> HIDE DEF t, e
  <2>6. U \in [Easy -> TransferType] /\ U[e] = t /\ \A f \in Easy : f # e => U[f] = T[f]
    BY <1>2, <2>1, <2>3
  <2> HIDE DEF U
  <2>7. /\ r \in ClientType /\ r.transfers = U /\ r.byDest = h.byDest
        /\ r.byStream = h.byStream /\ r.nextStream = h.nextStream /\ r.deferred = Q
    BY <1>1, <2>4, <2>6 DEF ClientType, HttpType, TransferType
  <2>8. Shaped(U)
    <3>1. Shape(t)
      BY <2>5 DEF Shape
    <3> QED BY <1>1, <2>6, <3>1 DEF Shaped
  <2>9. DestsAgree(U, h.byDest) /\ StreamsAgree(U, h.byStream)
    BY <1>1, <2>1, <2>5, <2>6 DEF DestsAgree, StreamsAgree
  <2>10. \A x \in Callers \cup Streams : ~Waits(T, e, x) /\ ~Waits(U, e, x)
    <3>1. U[e].kind = "request" /\ T[e].kind = "none"
      BY <2>1, <2>5, <2>6
    <3>2. \A x \in Callers \cup Streams : ~Waits(U, e, x)
      <4>1. U[e].kind \in {"none", "download", "request", "stream"} /\ U[e].kind # "download" /\ U[e].kind # "stream"
        BY <3>1
      <4> QED BY <2>1, <2>8, <4>1, Kinds
    <3>3. \A x \in Callers \cup Streams : ~Waits(T, e, x)
      <4>1. T[e].kind \in {"none", "download", "request", "stream"}
        BY <3>1
      <4> QED BY <1>1, <2>1, <4>1, Kinds
    <3> QED BY <3>2, <3>3
  <2>11. SameWait(T, U, Callers) /\ SameWait(T, U, Streams)
    BY <2>6, <2>10 DEF SameWait, Waits
  <2>12. AskInv(U, Q, a, {})
    BY <1>1, <2>11, AskSame, AskFrame DEF AskCalls
  <2>13. StreamInv(U, Q, h.nextStream, ctl, st)
    BY <1>1, <2>11, AskSame, StreamFrame DEF StreamCalls
  <2>14. ProbeInv(U, Q, TRUE)
    BY <1>3, <2>1, <2>5, <2>6 DEF ProbeInv
  <2> QED BY <1>1, <2>7, <2>8, <2>9, <2>12, <2>13, <2>14 DEF Books
<1> QED BY <1>4, <1>5

\* The answer of the probe's request is taken from the queue.
LEMMA ResponseTaken ==
    ASSUME NEW h, NEW a, NEW p \in BOOLEAN, NEW ctl, NEW st, Books(h, a, {}, p, ctl, st),
           h.deferred # <<>>, NEW n \in Networks, Head(h.deferred) = Respond(n),
           NEW r, r = [h EXCEPT !.deferred = Tail(@)]
    PROVE  Books(r, a, {}, FALSE, ctl, st)
<1> DEFINE T == h.transfers
           Q == h.deferred
           R == Tail(Q)
<1>1. /\ h \in ClientType /\ a \in AskType /\ Shaped(T) /\ DestsAgree(T, h.byDest)
      /\ StreamsAgree(T, h.byStream) /\ AskInv(T, Q, a, {}) /\ ProbeInv(T, Q, p)
      /\ StreamInv(T, Q, h.nextStream, ctl, st)
  BY DEF Books
<1>2. Q \in Seq(Calls) /\ Respond(n) \in Calls
  BY <1>1, ClientFields, CallsDiffer
<1>3. /\ r \in ClientType
      /\ r.transfers = T /\ r.byDest = h.byDest /\ r.byStream = h.byStream
      /\ r.nextStream = h.nextStream /\ r.deferred = R
  BY <1>1, TakenFields
<1>4. AskCalls(Q, R) /\ StreamCalls(Q, R)
  <2> DEFINE x == Respond(n)
  <2>1. /\ x \in Calls /\ (\A c \in Callers : x # Fail(c)) /\ (\A s \in Streams : x # Start(s) /\ x # Cancel(s))
        /\ Q # <<>> /\ Head(Q) = x /\ R = Tail(Q)
    BY <1>2, CallsDiffer
  <2> HIDE DEF x, R, Q
  <2> QED BY <1>2, <2>1, OtherCalls
<1>5. /\ Among(Q, Respond(n))
      /\ \A x : Among(R, x) => Among(Q, x)
      /\ \A x : Single(Q, x) => Single(R, x)
      /\ Single(Q, Respond(n)) => ~Among(R, Respond(n))
  BY <1>2, Taken
<1> HIDE DEF T, Q, R
<1>6. ProbeInv(T, R, FALSE)
  BY <1>1, <1>5 DEF ProbeInv
<1>7. AskInv(T, R, a, {})
  BY <1>1, <1>4, WaitSame, AskFrame DEF AskCalls
<1>8. StreamInv(T, R, h.nextStream, ctl, st)
  BY <1>1, <1>4, WaitSame, StreamFrame DEF StreamCalls
<1> QED BY <1>1, <1>3, <1>6, <1>7, <1>8 DEF Books

\* The probe's request comes to its end.
LEMMA RequestFinished ==
    ASSUME NEW h, NEW a, NEW p \in BOOLEAN, NEW ctl, NEW st, Books(h, a, {}, p, ctl, st),
           NEW e \in Easy, h.transfers[e].kind = "request",
           NEW r, r = FinishRequestTransfer(h, e)
    PROVE  Books(r, a, {}, FALSE, ctl, st)
<1> DEFINE T == h.transfers
           Q == h.deferred
           U == [T EXCEPT ![e] = NoTransfer]
<1>1. /\ h \in ClientType /\ a \in AskType /\ Shaped(T) /\ DestsAgree(T, h.byDest)
      /\ StreamsAgree(T, h.byStream) /\ AskInv(T, Q, a, {}) /\ ProbeInv(T, Q, p)
      /\ StreamInv(T, Q, h.nextStream, ctl, st)
  BY DEF Books
<1>2. T \in [Easy -> TransferType] /\ NoTransfer \in TransferType
  BY <1>1 DEF ClientType, HttpType, TransferType, NoTransfer
<1>3. U \in [Easy -> TransferType] /\ U[e] = NoTransfer /\ \A f \in Easy : f # e => U[f] = T[f]
  BY <1>2
<1>4. r = [h EXCEPT !.transfers = U]
  BY DEF FinishRequestTransfer
<1> HIDE DEF U
<1>5. /\ r \in ClientType /\ r.transfers = U /\ r.byDest = h.byDest
      /\ r.byStream = h.byStream /\ r.nextStream = h.nextStream /\ r.deferred = Q
  BY <1>1, <1>3, <1>4 DEF ClientType, HttpType, TransferType
<1>6. NoTransfer.kind = "none" /\ Shape(NoTransfer) /\ \A x : ~Among(NoTransfer.callbacks, x)
  BY DEF NoTransfer, Among, Shape
<1>7. Shaped(U)
  BY <1>1, <1>3, <1>6 DEF Shaped
<1>8. DestsAgree(U, h.byDest) /\ StreamsAgree(U, h.byStream)
  BY <1>1, <1>3, <1>6 DEF DestsAgree, StreamsAgree
<1>9. SameWait(T, U, Callers) /\ SameWait(T, U, Streams)
  <2>1. T[e].kind \in {"none", "download", "request", "stream"} /\ T[e].kind # "download" /\ T[e].kind # "stream"
    OBVIOUS
  <2>2. \A x \in Callers \cup Streams : ~Waits(T, e, x)
    BY <1>1, <2>1, Kinds
  <2> QED BY <1>3, <1>6, <2>2 DEF SameWait, Waits
<1>10. AskInv(U, Q, a, {})
  BY <1>1, <1>9, AskSame, AskFrame DEF AskCalls
<1>11. StreamInv(U, Q, h.nextStream, ctl, st)
  BY <1>1, <1>9, AskSame, StreamFrame DEF StreamCalls
<1>12. ProbeInv(U, Q, FALSE)
  BY <1>1, <1>3, <1>6 DEF ProbeInv
<1> QED BY <1>1, <1>5, <1>7, <1>8, <1>10, <1>11, <1>12 DEF Books

-----------------------------------------------------------------------------
(* The streams *)

ControlType == [Streams -> [at : {"unused", "open", "closing", "closed", "stopping", "stopped"},
                            id : StreamIds \cup {0}]]

SetAt(ctl, s, x) == [ctl EXCEPT ![s].at = x]
SetId(ctl, s, n) == [ctl EXCEPT ![s].id = n]
NextTaken(h) == [h EXCEPT !.deferred = Tail(@)]

\* No transfer is the stream's, and its start has not been called yet.
InNoTransfer(h, s) == \A e \in Easy : ~Waits(h.transfers, e, s)
Startable(h, ctl, s) ==
    ~Among(h.deferred, Start(s)) /\ ctl[s].id = 0 /\ ctl[s].at # "unused" /\ InNoTransfer(h, s)

\* Fewer streams in transfers, fewer starts and more cancels to come.
LEMMA StreamLess ==
    ASSUME NEW T, NEW U, NEW Q, NEW R, NEW N, NEW ctl, NEW st, StreamInv(T, Q, N, ctl, st),
           \A e \in Easy, s \in Streams : Waits(U, e, s) => Waits(T, e, s) /\ U[e] = T[e],
           \A s \in Streams : /\ Among(R, Start(s)) => Among(Q, Start(s))
                              /\ Single(Q, Start(s)) => Single(R, Start(s))
                              /\ Among(Q, Cancel(s)) => Among(R, Cancel(s))
    PROVE  StreamInv(U, R, N, ctl, st)
<1> SUFFICES ASSUME NEW s \in Streams PROVE StreamOf(U, R, N, ctl, st, s)
  BY DEF StreamInv
<1>1. StreamOf(T, Q, N, ctl, st, s)
  BY DEF StreamInv
<1> QED BY <1>1 DEF StreamOf

\* The record of a stream changes, its id does not.
LEMMA ControlChanged ==
    ASSUME NEW h, NEW a, NEW W, NEW p \in BOOLEAN, NEW ctl \in ControlType, NEW st,
           Books(h, a, W, p, ctl, st), NEW s \in Streams,
           NEW x \in {"open", "closing", "closed", "stopping", "stopped"},
           x = "stopped" => Among(h.deferred, Cancel(s)),
           NEW new, new = SetAt(ctl, s, x)
    PROVE  new \in ControlType /\ Books(h, a, W, p, new, st)
<1>1. /\ new \in ControlType /\ new[s].at = x /\ new[s].id = ctl[s].id
      /\ \A b \in Streams : b # s => new[b] = ctl[b]
  BY DEF ControlType, SetAt
<1>2. Ids(new) = Ids(ctl)
  BY <1>1 DEF Ids
<1>3. StreamInv(h.transfers, h.deferred, h.nextStream, new, st)
  <2>1. StreamInv(h.transfers, h.deferred, h.nextStream, ctl, st)
    BY DEF Books
  <2>2. ASSUME NEW b \in Streams PROVE StreamOf(h.transfers, h.deferred, h.nextStream, new, st, b)
    <3>1. StreamOf(h.transfers, h.deferred, h.nextStream, ctl, st, b)
      BY <2>1 DEF StreamInv
    <3>2. CASE b = s
      BY <1>1, <3>1, <3>2 DEF StreamOf
    <3>3. CASE b # s
      BY <1>1, <3>1, <3>3 DEF StreamOf
    <3> QED BY <3>2, <3>3
  <2> QED BY <1>2, <2>1, <2>2 DEF StreamInv
<1> QED BY <1>1, <1>3 DEF Books

\* A start, a cancel or a close of a stream is deferred.
LEMMA StreamCalled ==
    ASSUME NEW h, NEW a, NEW W, NEW p \in BOOLEAN, NEW ctl \in ControlType, NEW st,
           Books(h, a, W, p, ctl, st), NEW s \in Streams, NEW call \in {"start", "cancel", "close"},
           call = "start" => Startable(h, ctl, s),
           NEW r, r = Later(h, call, s)
    PROVE  /\ Books(r, a, W, p, ctl, st)
           /\ r.transfers = h.transfers /\ r.nextStream = h.nextStream
           /\ call = "cancel" => Among(r.deferred, Cancel(s))
<1> DEFINE T == h.transfers
           Q == h.deferred
           x == [call |-> call, callback |-> s]
           R == Append(Q, x)
<1>1. /\ h \in ClientType /\ a \in AskType /\ Shaped(T) /\ DestsAgree(T, h.byDest)
      /\ StreamsAgree(T, h.byStream) /\ AskInv(T, Q, a, W) /\ ProbeInv(T, Q, p)
      /\ StreamInv(T, Q, h.nextStream, ctl, st)
  BY DEF Books
<1>2. /\ Q \in Seq(Calls) /\ x \in Calls
      /\ (call = "start" /\ x = Start(s)) \/ (call = "cancel" /\ x = Cancel(s)) \/ (call = "close" /\ x = Close(s))
  BY <1>1, ClientFields, CallsDiffer DEF Start, Cancel, Close
<1>3. /\ r \in ClientType
      /\ r.transfers = T /\ r.byDest = h.byDest /\ r.byStream = h.byStream
      /\ r.nextStream = h.nextStream /\ r.deferred = R
  BY <1>1, <1>2, LaterFields
<1> HIDE DEF x
<1>4. (\A c \in Callers : x # Fail(c)) /\ (\A n \in Networks : x # Respond(n))
  BY <1>2, CallsDiffer
<1>5. AskCalls(Q, R) /\ ProbeCalls(Q, R)
  <2>1. R = Append(Q, x)
    OBVIOUS
  <2> HIDE DEF R, Q
  <2> QED BY <1>2, <1>4, <2>1, OtherCalls
<1>6. /\ \A y : y # x => SameCall(Q, R, y)
      /\ Among(R, x)
      /\ ~Among(Q, x) => Single(R, x)
      /\ \A y : Among(R, y) <=> Among(Q, y) \/ y = x
  BY <1>2, Appended
<1> HIDE DEF T, Q, R
<1>7. AskInv(T, R, a, W)
  BY <1>1, <1>5, WaitSame, AskFrame DEF AskCalls
<1>8. ProbeInv(T, R, p)
  BY <1>1, <1>5, ProbeFrame DEF ProbeCalls
<1>9. StreamInv(T, R, h.nextStream, ctl, st)
  <2>1. CASE x = Start(s)
    <3> SUFFICES ASSUME NEW b \in Streams PROVE StreamOf(T, R, h.nextStream, ctl, st, b)
      BY <1>1 DEF StreamInv
    <3>1. StreamOf(T, Q, h.nextStream, ctl, st, b)
      BY <1>1 DEF StreamInv
    <3>2. Among(R, Cancel(b)) <=> Among(Q, Cancel(b))
      BY <1>6, <2>1, CallsDiffer
    <3>3. CASE b = s
      <4>1. Startable(h, ctl, s)
        BY <1>2, <2>1, CallsDiffer
      <4> QED BY <1>6, <2>1, <3>1, <3>3, <4>1 DEF Startable, InNoTransfer, StreamOf, Q, T
    <3>4. CASE b # s
      <4>1. SameCall(Q, R, Start(b))
        BY <1>6, <2>1, <3>4, CallsDiffer
      <4> QED BY <3>1, <3>2, <4>1 DEF StreamOf, SameCall
    <3> QED BY <3>3, <3>4
  <2>2. CASE x # Start(s)
    <3>1. \A b \in Streams : SameCall(Q, R, Start(b)) /\ (Among(Q, Cancel(b)) => Among(R, Cancel(b)))
      BY <1>2, <1>6, <2>2, CallsDiffer
    <3> QED BY <1>1, <3>1, StreamLess DEF SameCall
  <2> QED BY <2>1, <2>2
<1>10. call = "cancel" => Among(R, Cancel(s))
  BY <1>2, <1>6
<1> QED BY <1>1, <1>3, <1>7, <1>8, <1>9, <1>10 DEF Books, T

\* A call for a stream is taken from the queue, and excuses it if it was a cancel.
LEMMA StreamCallTaken ==
    ASSUME NEW h, NEW a, NEW p \in BOOLEAN, NEW ctl, Books(h, a, {}, p, ctl, None),
           h.deferred # <<>>, NEW s \in Streams,
           Head(h.deferred) \in {Start(s), Cancel(s), Close(s)},
           NEW r, r = NextTaken(h)
    PROVE  /\ Books(r, a, {}, p, ctl, IF Head(h.deferred) = Cancel(s) THEN s ELSE None)
           /\ r.nextStream = h.nextStream
           /\ Head(h.deferred) = Start(s) => Startable(r, ctl, s)
<1> DEFINE T == h.transfers
           Q == h.deferred
           R == Tail(Q)
           x == Head(Q)
           st == IF x = Cancel(s) THEN s ELSE None
<1>1. /\ h \in ClientType /\ a \in AskType /\ Shaped(T) /\ DestsAgree(T, h.byDest)
      /\ StreamsAgree(T, h.byStream) /\ AskInv(T, Q, a, {}) /\ ProbeInv(T, Q, p)
      /\ StreamInv(T, Q, h.nextStream, ctl, None)
  BY DEF Books
<1>2. Q \in Seq(Calls) /\ Q # <<>> /\ x \in Calls /\ x \in {Start(s), Cancel(s), Close(s)}
  BY <1>1, ClientFields, CallsDiffer
<1>3. /\ r \in ClientType
      /\ r.transfers = T /\ r.byDest = h.byDest /\ r.byStream = h.byStream
      /\ r.nextStream = h.nextStream /\ r.deferred = R
  BY <1>1, TakenFields DEF NextTaken
<1>4. (\A c \in Callers : x # Fail(c)) /\ (\A n \in Networks : x # Respond(n))
  BY <1>2, CallsDiffer
<1>5. AskCalls(Q, R) /\ ProbeCalls(Q, R)
  <2>1. R = Tail(Q) /\ Head(Q) = x
    OBVIOUS
  <2> HIDE DEF R, Q, x
  <2> QED BY <1>2, <1>4, <2>1, OtherCalls
<1>6. /\ \A y : y # x => SameCall(Q, R, y)
      /\ Among(Q, x)
      /\ \A y : Among(R, y) => Among(Q, y)
      /\ \A y : Single(Q, y) => Single(R, y)
      /\ Single(Q, x) => ~Among(R, x)
  BY <1>2, Taken
<1> HIDE DEF T, Q, R, x, st
<1>7. AskInv(T, R, a, {})
  BY <1>1, <1>5, WaitSame, AskFrame DEF AskCalls
<1>8. ProbeInv(T, R, p)
  BY <1>1, <1>5, ProbeFrame DEF ProbeCalls
<1>9. StreamInv(T, R, h.nextStream, ctl, st)
  <2> SUFFICES ASSUME NEW b \in Streams PROVE StreamOf(T, R, h.nextStream, ctl, st, b)
    BY <1>1 DEF StreamInv
  <2>1. StreamOf(T, Q, h.nextStream, ctl, None, b)
    BY <1>1 DEF StreamInv
  <2>2. b # None
    BY CallbacksApart
  <2>3. Among(Q, Cancel(b)) => Among(R, Cancel(b)) \/ st = b
    <3>1. CASE x = Cancel(b)
      BY <1>2, <3>1, CallsDiffer DEF st
    <3>2. CASE x # Cancel(b)
      BY <1>6, <3>2 DEF SameCall
    <3> QED BY <3>1, <3>2
  <2> QED BY <1>6, <2>1, <2>2, <2>3 DEF StreamOf
<1>10. x = Start(s) => Startable(r, ctl, s)
  BY <1>1, <1>3, <1>6 DEF StreamInv, StreamOf, Startable, InNoTransfer
<1> QED BY <1>1, <1>3, <1>7, <1>8, <1>9, <1>10 DEF Books, x, st, Q

\* Only a stream that is excused as the one that starts needs to be looked at when it no
\* longer is.
LEMMA Excused ==
    ASSUME NEW h, NEW a, NEW W, NEW p, NEW ctl, NEW s, Books(h, a, W, p, ctl, s),
           s \in Streams => ctl[s].at # "stopped" \/ InNoTransfer(h, s)
    PROVE  Books(h, a, W, p, ctl, None)
<1>1. StreamInv(h.transfers, h.deferred, h.nextStream, ctl, s)
  BY DEF Books
<1>2. StreamInv(h.transfers, h.deferred, h.nextStream, ctl, None)
  <2> SUFFICES ASSUME NEW b \in Streams PROVE StreamOf(h.transfers, h.deferred, h.nextStream, ctl, None, b)
    BY <1>1 DEF StreamInv
  <2>1. StreamOf(h.transfers, h.deferred, h.nextStream, ctl, s, b)
    BY <1>1 DEF StreamInv
  <2> QED BY <2>1 DEF StreamOf, InNoTransfer
<1> QED BY <1>2 DEF Books

\* No stream with the id i is in a transfer.
Absent(h, ctl, i) ==
    \A s \in Streams : ctl[s].id = i => \A e \in Easy : ~Waits(h.transfers, e, s)

\* The transfer of a stream goes, with its id.
Dropped(h, e, i) == [h EXCEPT !.transfers[e] = NoTransfer, !.byStream[i] = 0]

LEMMA StreamGone ==
    ASSUME NEW h, NEW a, NEW W, NEW p \in BOOLEAN, NEW ctl, NEW st, Books(h, a, W, p, ctl, st),
           NEW i \in StreamIds, NEW e \in Easy, h.byStream[i] = e,
           NEW r, r = Dropped(h, e, i)
    PROVE  /\ Books(r, a, W, p, ctl, st)
           /\ Absent(r, ctl, i)
<1> DEFINE T == h.transfers
           B == h.byStream
           Q == h.deferred
           U == [T EXCEPT ![e] = NoTransfer]
           V == [B EXCEPT ![i] = 0]
<1>1. /\ h \in ClientType /\ a \in AskType /\ Shaped(T) /\ DestsAgree(T, h.byDest)
      /\ StreamsAgree(T, B) /\ AskInv(T, Q, a, W) /\ ProbeInv(T, Q, p)
      /\ StreamInv(T, Q, h.nextStream, ctl, st)
  BY DEF Books
<1>2. /\ T \in [Easy -> TransferType] /\ NoTransfer \in TransferType
      /\ B \in [StreamIds -> Easy \cup {0}] /\ 0 \notin Easy
  BY <1>1, Numbers DEF ClientType, HttpType, TransferType, NoTransfer
<1>3. T[e].kind = "stream" /\ T[e].id = i
  BY <1>1 DEF StreamsAgree
<1>4. /\ U \in [Easy -> TransferType] /\ U[e] = NoTransfer /\ \A f \in Easy : f # e => U[f] = T[f]
      /\ V \in [StreamIds -> Easy \cup {0}] /\ V[i] = 0 /\ \A j \in StreamIds : j # i => V[j] = B[j]
  BY <1>2
<1>5. r = [h EXCEPT !.transfers = U, !.byStream = V]
  BY DEF Dropped
<1> HIDE DEF U, V
<1>6. /\ r \in ClientType /\ r.transfers = U /\ r.byDest = h.byDest
      /\ r.byStream = V /\ r.nextStream = h.nextStream /\ r.deferred = Q
  BY <1>1, <1>4, <1>5 DEF ClientType, HttpType, TransferType
<1>7. NoTransfer.kind = "none" /\ Shape(NoTransfer) /\ \A x : ~Among(NoTransfer.callbacks, x)
  BY DEF NoTransfer, Among, Shape
<1>8. Shaped(U)
  BY <1>1, <1>4, <1>7 DEF Shaped
<1>9. DestsAgree(U, h.byDest)
  BY <1>1, <1>3, <1>4, <1>7 DEF DestsAgree
<1>10. StreamsAgree(U, V)
  <2> SUFFICES ASSUME NEW f \in Easy, NEW j \in StreamIds
               PROVE  V[j] = f <=> U[f].kind = "stream" /\ U[f].id = j
    BY DEF StreamsAgree
  <2>1. B[j] = f <=> T[f].kind = "stream" /\ T[f].id = j
    BY <1>1 DEF StreamsAgree
  <2> QED BY <1>2, <1>3, <1>4, <1>7, <2>1
<1>11. \A f \in Easy : \A x : Waits(U, f, x) => f # e /\ Waits(T, f, x)
  BY <1>4, <1>7 DEF Waits
<1>12. SameWait(T, U, Callers)
  <2>1. T[e].kind \in {"none", "download", "request", "stream"}
    BY <1>3
  <2>2. \A c \in Callers : ~Waits(T, e, c)
    <3>1. \A c \in Callers : Waits(T, e, c) => T[e].kind = "download"
      BY <1>1, <2>1, Kinds
    <3> QED BY <1>3, <3>1
  <2> QED BY <1>4, <1>7, <2>2 DEF SameWait, Waits
<1>13. AskInv(U, Q, a, W)
  BY <1>1, <1>12, AskSame, AskFrame DEF AskCalls
<1>14. ProbeInv(U, Q, p)
  <2>1. \A f \in Easy : U[f].kind = "request" <=> T[f].kind = "request"
    BY <1>3, <1>4, <1>7
  <2> QED BY <1>1, <2>1, AskSame, ProbeFrame DEF ProbeCalls
<1>15. StreamInv(U, Q, h.nextStream, ctl, st)
  <2>1. \A f \in Easy, s \in Streams : Waits(U, f, s) => Waits(T, f, s) /\ U[f] = T[f]
    BY <1>4, <1>11
  <2> QED BY <1>1, <2>1, StreamLess
<1>16. ASSUME NEW s \in Streams, ctl[s].id = i, NEW f \in Easy, Waits(U, f, s) PROVE FALSE
  <2>1. f # e /\ Waits(T, f, s)
    BY <1>11, <1>16
  <2>2. T[f].id = i
    BY <1>1, <1>16, <2>1 DEF StreamInv, StreamOf
  <2>3. T[f].kind = "stream"
    <3>1. T[f].kind \in {"none", "download", "request", "stream"}
      BY <1>2 DEF TransferType
    <3> QED BY <1>1, <2>1, <3>1, Kinds
  <2> QED BY <1>1, <2>1, <2>2, <2>3 DEF StreamsAgree
<1> QED BY <1>1, <1>6, <1>8, <1>9, <1>10, <1>13, <1>14, <1>15, <1>16 DEF Books, Absent

\* cancelStream() with the id of a stream leaves it in no transfer.
LEMMA StreamCancelled ==
    ASSUME NEW h, NEW a, NEW W, NEW p \in BOOLEAN, NEW ctl \in ControlType, NEW st,
           Books(h, a, W, p, ctl, st), NEW s \in Streams,
           NEW r, r = CancelStream(h, ctl[s].id)
    PROVE  Books(r, a, W, p, ctl, st) /\ InNoTransfer(r, s)
<1> DEFINE i == ctl[s].id
           T == h.transfers
           B == h.byStream
<1>1. /\ h \in ClientType /\ Shaped(T) /\ StreamsAgree(T, B)
      /\ StreamInv(T, h.deferred, h.nextStream, ctl, st)
  BY DEF Books
<1>2. T \in [Easy -> TransferType] /\ B \in [StreamIds -> Easy \cup {0}] /\ 0 \notin Easy /\ 0 \notin StreamIds
  BY <1>1, Numbers DEF ClientType, HttpType, TransferType
<1>3. i \in StreamIds \cup {0}
  BY DEF ControlType
<1>4. ASSUME NEW e \in Easy, Waits(T, e, s) PROVE i \in StreamIds /\ B[i] = e
  <2>1. T[e].kind = "stream"
    <3>1. T[e].kind \in {"none", "download", "request", "stream"}
      BY <1>2 DEF TransferType
    <3> QED BY <1>1, <1>4, <3>1, Kinds
  <2>2. T[e].id \in StreamIds
    BY <1>1, <2>1 DEF Shaped, Shape
  <2>3. T[e].id = i
    BY <1>1, <1>4 DEF StreamInv, StreamOf
  <2> QED BY <1>1, <2>1, <2>2, <2>3 DEF StreamsAgree
<1>5. CASE i = 0 \/ B[i] = 0
  <2>1. r = h
    BY <1>5 DEF CancelStream
  <2> QED BY <1>2, <1>4, <1>5, <2>1 DEF InNoTransfer
<1>6. CASE ~(i = 0 \/ B[i] = 0)
  <2> DEFINE e == B[i]
  <2>1. i \in StreamIds /\ e \in Easy
    BY <1>2, <1>3, <1>6
  <2>2. r = Dropped(h, e, i)
    BY <1>6 DEF CancelStream, Dropped
  <2>3. h.byStream[i] = e
    OBVIOUS
  <2> HIDE DEF e, B
  <2>4. Books(r, a, W, p, ctl, st) /\ Absent(r, ctl, i)
    <3> HIDE DEF i, T
    <3> QED BY <2>1, <2>2, <2>3, StreamGone
  <2> QED BY <2>4 DEF Absent, InNoTransfer
<1> QED BY <1>5, <1>6

\* The stream that starts is excused.
LEMMA Excuse ==
    ASSUME NEW h, NEW a, NEW W, NEW p, NEW ctl, NEW s, Books(h, a, W, p, ctl, None)
    PROVE  Books(h, a, W, p, ctl, s)
<1>1. StreamInv(h.transfers, h.deferred, h.nextStream, ctl, None)
  BY DEF Books
<1>2. StreamInv(h.transfers, h.deferred, h.nextStream, ctl, s)
  <2> SUFFICES ASSUME NEW b \in Streams PROVE StreamOf(h.transfers, h.deferred, h.nextStream, ctl, s, b)
    BY <1>1 DEF StreamInv
  <2>1. StreamOf(h.transfers, h.deferred, h.nextStream, ctl, None, b)
    BY <1>1 DEF StreamInv
  <2>2. b # None
    BY CallbacksApart
  <2> QED BY <2>1, <2>2 DEF StreamOf
<1> QED BY <1>2 DEF Books

\* There is an id left for a stream that has none.
LEMMA IdIsFree ==
    ASSUME NEW ctl \in ControlType, NEW N, N = 1 + Cardinality(Ids(ctl)),
           NEW s \in Streams, ctl[s].id = 0,
           NEW new, new = SetId(ctl, s, N)
    PROVE  /\ N \in StreamIds /\ N # 0 /\ N + 1 \in 1 .. (Cardinality(Streams) + 1)
           /\ new \in ControlType /\ new[s].id = N /\ new[s].at = ctl[s].at
           /\ \A b \in Streams : b # s => new[b] = ctl[b]
           /\ N + 1 = 1 + Cardinality(Ids(new))
<1>1. IsFiniteSet(Streams) /\ IsFiniteSet(Ids(ctl)) /\ Ids(ctl) \in SUBSET Streams
  BY HttpConstants, FS_Subset DEF Ids
<1>2. s \in Streams \ Ids(ctl)
  BY DEF Ids
<1>3. Cardinality(Ids(ctl)) <= Cardinality(Streams) /\ Cardinality(Ids(ctl)) # Cardinality(Streams)
  BY <1>1, <1>2, FS_Subset
<1>4. Cardinality(Ids(ctl)) \in Nat /\ Cardinality(Streams) \in Nat
  BY <1>1, FS_CardinalityType
<1>5. N \in StreamIds /\ N # 0 /\ N + 1 \in 1 .. (Cardinality(Streams) + 1) /\ N \in Nat
  BY <1>3, <1>4, Numbers
<1>6. /\ new \in ControlType /\ new[s].id = N /\ new[s].at = ctl[s].at
      /\ \A b \in Streams : b # s => new[b] = ctl[b]
  BY <1>5 DEF ControlType, SetId
<1>7. Ids(new) = Ids(ctl) \cup {s}
  BY <1>5, <1>6 DEF Ids
<1>8. Cardinality(Ids(ctl) \cup {s}) = Cardinality(Ids(ctl)) + 1
  BY <1>1, <1>2, FS_AddElement
<1>9. N + 1 = 1 + Cardinality(Ids(new))
  <2> HIDE DEF Ids
  <2>1. Cardinality(Ids(new)) = Cardinality(Ids(ctl)) + 1
    BY <1>7, <1>8
  <2> QED BY <1>4, <2>1
<1> QED BY <1>5, <1>6, <1>9

\* The start of a stream, up to the id that is stored.
LEMMA StreamStarted ==
    ASSUME NEW h, NEW a, NEW p \in BOOLEAN, NEW ctl \in ControlType, Books(h, a, {}, p, ctl, None),
           NEW s \in Streams, Startable(h, ctl, s), ctl[s].at # "stopped",
           NEW starts \in BOOLEAN, NEW r, r = StartStream(h, s, starts),
           NEW before, before.nextStream = h.nextStream,
           NEW new, new = SetId(ctl, s, StreamIdOf(before, r))
    PROVE  new \in ControlType /\ Books(r, a, {}, p, new, s)
<1> DEFINE T == h.transfers
           Q == h.deferred
           N == h.nextStream
<1>1. /\ h \in ClientType /\ a \in AskType /\ Shaped(T) /\ DestsAgree(T, h.byDest)
      /\ StreamsAgree(T, h.byStream) /\ AskInv(T, Q, a, {}) /\ ProbeInv(T, Q, p)
      /\ StreamInv(T, Q, N, ctl, None)
      /\ ~Among(Q, Start(s)) /\ ctl[s].id = 0 /\ ctl[s].at # "unused"
      /\ \A f \in Easy : ~Waits(T, f, s)
  BY DEF Books, Startable, InNoTransfer
<1>2. CASE offline \/ ~starts
  <2>1. r = Later(h, "close", s)
    BY <1>2 DEF StartStream
  <2>2. Books(r, a, {}, p, ctl, None) /\ r.nextStream = N
    <3>1. "close" \in {"start", "cancel", "close"} /\ "close" # "start"
      OBVIOUS
    <3> QED BY <2>1, <3>1, StreamCalled
  <2>3. new = ctl
    <3>1. StreamIdOf(before, r) = 0
      BY <2>2 DEF StreamIdOf
    <3> QED BY <1>1, <3>1 DEF ControlType, SetId
  <2> QED BY <2>2, <2>3, Excuse
<1>3. CASE ~(offline \/ ~starts)
  <2> DEFINE e == NewEasy(h)
             t == [kind |-> "stream", dest |-> None, id |-> N, callbacks |-> <<s>>]
             U == [T EXCEPT ![e] = t]
             V == [h.byStream EXCEPT ![N] = e]
             M == N + 1
  <2>1. e \in Easy /\ T[e].kind = "none"
    BY <1>1, HandleIsFree
  <2>2. N = 1 + Cardinality(Ids(ctl)) /\ N \in 1 .. (Cardinality(Streams) + 1)
    BY <1>1, ClientFields DEF StreamInv
  <2>3. N \in StreamIds /\ N # 0 /\ M \in 1 .. (Cardinality(Streams) + 1) /\ M # N
    <3> DEFINE x == SetId(ctl, s, N)
    <3>1. x = SetId(ctl, s, N)
      OBVIOUS
    <3> HIDE DEF x
    <3>2. N \in StreamIds /\ N # 0 /\ N + 1 \in 1 .. (Cardinality(Streams) + 1)
      BY <1>1, <2>2, <3>1, IdIsFree
    <3> QED BY <2>2, <3>2
  <2>4. r = [h EXCEPT !.transfers = U, !.byStream = V, !.nextStream = M]
    BY <1>3 DEF StartStream
  <2>5. /\ T \in [Easy -> TransferType] /\ h.byStream \in [StreamIds -> Easy \cup {0}] /\ 0 \notin Easy
    BY <1>1, Numbers DEF ClientType, HttpType, TransferType
  <2>6. t \in TransferType /\ t.kind = "stream" /\ t.id = N /\ t.callbacks = <<s>>
    BY <2>3 DEF TransferType, Callbacks
  <2> HIDE DEF t, e
  <2>7. /\ U \in [Easy -> TransferType] /\ U[e] = t /\ \A f \in Easy : f # e => U[f] = T[f]
        /\ V \in [StreamIds -> Easy \cup {0}] /\ V[N] = e /\ \A i \in StreamIds : i # N => V[i] = h.byStream[i]
    BY <2>1, <2>3, <2>5, <2>6
  <2> HIDE DEF U, V
  <2>8. /\ r \in ClientType /\ r.transfers = U /\ r.byDest = h.byDest
        /\ r.byStream = V /\ r.nextStream = M /\ r.deferred = Q
    <3> HIDE DEF M
    <3> QED BY <1>1, <2>3, <2>4, <2>7 DEF ClientType, HttpType, TransferType
  <2>9. /\ new \in ControlType /\ new[s].id = N /\ new[s].at = ctl[s].at
        /\ \A b \in Streams : b # s => new[b] = ctl[b]
        /\ M = 1 + Cardinality(Ids(new))
    <3>1. StreamIdOf(before, r) = N
      BY <2>3, <2>8 DEF StreamIdOf
    <3> DEFINE x == SetId(ctl, s, N)
    <3>2. new = x /\ x = SetId(ctl, s, N)
      BY <3>1 DEF SetId
    <3> HIDE DEF N, x
    <3>3. N = 1 + Cardinality(Ids(ctl)) /\ x = SetId(ctl, s, N)
      BY <2>2, <3>2
    <3>4. /\ x \in ControlType /\ x[s].id = N /\ x[s].at = ctl[s].at
          /\ \A b \in Streams : b # s => x[b] = ctl[b]
          /\ N + 1 = 1 + Cardinality(Ids(x))
      BY <1>1, <3>3, IdIsFree
    <3> QED BY <3>2, <3>4
  <2>10. Shaped(U)
    <3>1. Shape(t)
      BY <2>3, <2>6 DEF Shape
    <3> QED BY <1>1, <2>7, <3>1 DEF Shaped
  <2>11. DestsAgree(U, h.byDest)
    BY <1>1, <2>1, <2>6, <2>7 DEF DestsAgree
  <2>12. \A f \in Easy : T[f].kind = "stream" => T[f].id # N
    <3> SUFFICES ASSUME NEW f \in Easy, T[f].kind = "stream" PROVE T[f].id # N
      OBVIOUS
    <3>1. T[f].kind \in {"none", "download", "request", "stream"}
      OBVIOUS
    <3>2. PICK b \in Streams : Waits(T, f, b)
      BY <1>1, <3>1, Kinds
    <3>3. T[f].id < N
      BY <1>1, <3>2 DEF StreamInv, StreamOf
    <3>4. T[f].id \in StreamIds
      BY <1>1 DEF Shaped, Shape
    <3> QED BY <2>2, <3>3, <3>4, Numbers
  <2>13. StreamsAgree(U, V)
    <3> SUFFICES ASSUME NEW f \in Easy, NEW i \in StreamIds
                 PROVE  V[i] = f <=> U[f].kind = "stream" /\ U[f].id = i
      BY DEF StreamsAgree
    <3>1. h.byStream[i] = f <=> T[f].kind = "stream" /\ T[f].id = i
      BY <1>1 DEF StreamsAgree
    <3>2. h.byStream[i] # e
      BY <1>1, <2>1 DEF StreamsAgree
    <3>3. CASE i = N
      BY <2>6, <2>7, <2>12, <3>1, <3>3
    <3>4. CASE i # N
      BY <2>6, <2>7, <3>1, <3>2, <3>4
    <3> QED BY <3>3, <3>4
  <2>14. /\ \A x \in Callers \cup Streams : ~Waits(T, e, x)
         /\ \A f \in Easy : \A x : f # e => (Waits(U, f, x) <=> Waits(T, f, x))
         /\ \A c \in Callers : ~Waits(U, e, c)
         /\ \A b \in Streams : Waits(U, e, b) => b = s
    <3>1. T[e].kind \in {"none", "download", "request", "stream"} /\ U[e].kind \in {"none", "download", "request", "stream"}
          /\ U[e].kind = "stream" /\ U[e].callbacks = <<s>>
      BY <2>1, <2>6, <2>7
    <3>2. \A x \in Callers \cup Streams : ~Waits(T, e, x)
      BY <1>1, <2>1, <3>1, Kinds
    <3>3. \A c \in Callers : ~Waits(U, e, c)
      <4>1. \A c \in Callers : Waits(U, e, c) => U[e].kind = "download"
        BY <2>1, <2>10, <3>1, Kinds
      <4> QED BY <3>1, <4>1
    <3>4. \A b \in Streams : Waits(U, e, b) => b = s
      <4>1. \A b \in Streams : Waits(U, e, b) => U[e].callbacks = <<b>>
        BY <2>1, <2>10, <3>1, Kinds
      <4> QED BY <3>1, <4>1
    <3> QED BY <2>7, <3>2, <3>3, <3>4 DEF Waits
  <2>15. AskInv(U, Q, a, {})
    <3>1. SameWait(T, U, Callers)
      BY <2>7, <2>14 DEF SameWait
    <3> QED BY <1>1, <3>1, AskSame, AskFrame DEF AskCalls
  <2>16. ProbeInv(U, Q, p)
    <3>1. \A f \in Easy : U[f].kind = "request" <=> T[f].kind = "request"
      BY <2>1, <2>6, <2>7
    <3> QED BY <1>1, <3>1, AskSame, ProbeFrame DEF ProbeCalls
  <2>17. StreamInv(U, Q, M, new, s)
    <3> SUFFICES ASSUME NEW b \in Streams PROVE StreamOf(U, Q, M, new, s, b)
      BY <2>9 DEF StreamInv
    <3>1. StreamOf(T, Q, N, ctl, None, b)
      BY <1>1 DEF StreamInv
    <3>2. CASE b = s
      <4>1. ASSUME NEW f \in Easy, Waits(U, f, s) PROVE f = e
        BY <1>1, <2>14, <4>1
      <4>2. U[e].id = N /\ N < M
        BY <2>2, <2>6, <2>7
      <4> HIDE DEF M, N, Q
      <4> QED BY <1>1, <2>9, <3>1, <3>2, <4>1, <4>2 DEF StreamOf, Q
    <3>3. CASE b # s
      <4>1. ASSUME NEW f \in Easy, Waits(U, f, b)
            PROVE  f # e /\ Waits(T, f, b) /\ U[f] = T[f] /\ T[f].id < M
        <5>1. f # e /\ Waits(T, f, b) /\ U[f] = T[f]
          BY <2>7, <2>14, <3>3, <4>1
        <5>2. T[f].id < N /\ T[f].id \in StreamIds \cup {0}
          BY <1>1, <3>1, <5>1, ClientFields DEF StreamOf
        <5> QED BY <2>2, <5>1, <5>2, Numbers
      <4>2. b # None
        BY CallbacksApart
      <4> HIDE DEF M, N, Q, T
      <4> QED BY <2>9, <3>1, <3>3, <4>1, <4>2 DEF StreamOf
    <3> QED BY <3>2, <3>3
  <2> QED BY <1>1, <2>8, <2>9, <2>10, <2>11, <2>13, <2>15, <2>16, <2>17 DEF Books
<1> QED BY <1>2, <1>3

-----------------------------------------------------------------------------
(* The steps *)

Rest ==
    /\ offline \in BOOLEAN
    /\ ExternalIpTypeOK
    /\ starting \in Streams \cup {None}
    /\ events \in 0 .. MaxEvents

LEMMA Split ==
    ASSUME Inv
    PROVE  /\ Rest /\ control \in ControlType /\ service.inFlight \in BOOLEAN
           /\ Books(http, asks, {}, service.inFlight, control, starting)
BY DEF Inv, TypeOK, Rest, ControlType, ExternalIpTypeOK, ServiceType

LEMMA Combined ==
    ASSUME Rest', control' \in ControlType,
           Books(http', asks', {}, service'.inFlight, control', starting')
    PROVE  Inv'
<1>1. http' \in ClientType /\ asks' \in AskType
  BY DEF Books
<1>2. TypeOK'
  BY <1>1 DEF TypeOK, Rest, ControlType, ClientType, AskType, Callbacks, Calls
<1> QED BY <1>2 DEF Inv

\* A deferred call is one of a download, of the probe or of a stream.
LEMMA HeadCalls ==
    ASSUME NEW q \in Seq(Calls), q # <<>>
    PROVE  /\ Head(q).call = "fail" => \E c \in Callers : Head(q) = Fail(c) /\ Head(q).callback = c
           /\ Head(q).call = "respond" =>
                 \E n \in Networks : Head(q) = Respond(n) /\ Head(q).callback = Probe(n)
           /\ Head(q).call = "start" => \E s \in Streams : Head(q) = Start(s) /\ Head(q).callback = s
           /\ Head(q).call = "cancel" => \E s \in Streams : Head(q) = Cancel(s) /\ Head(q).callback = s
           /\ Head(q).call = "close" => \E s \in Streams : Head(q) = Close(s) /\ Head(q).callback = s
<1>1. Head(q) \in Calls
  BY HeadTailProperties
<1> QED BY <1>1 DEF Calls, DownloadCall, ProbeCall, StreamCall, Fail, Respond, Start, Cancel, Close, Probe

\* The address service keeps its type; only a probe and its answer change its flag.
LEMMA ServiceSteps ==
    ASSUME NEW s \in ServiceType, NEW n \in Networks \cup {NoNetwork}, NEW on \in BOOLEAN
    PROVE  /\ Sync(s, n, on) \in ServiceType /\ Sync(s, n, on).inFlight = s.inFlight
           /\ Older(s) \in ServiceType /\ Older(s).inFlight = s.inFlight
<1>1. Older(s) \in ServiceType /\ Older(s).inFlight = s.inFlight
  BY DEF Older, ServiceType
<1>2. ASSUME NEW x \in ServiceType
      PROVE  /\ MaybeScheduleProbe(x, n) \in ServiceType
             /\ MaybeScheduleProbe(x, n).inFlight = x.inFlight
  BY <1>2 DEF MaybeScheduleProbe, ServiceType
<1>3. /\ [s EXCEPT !.ip = NoKey] \in ServiceType /\ [s EXCEPT !.ip = NoKey].inFlight = s.inFlight
      /\ [s EXCEPT !.timer = FALSE, !.ip = NoKey] \in ServiceType
      /\ [s EXCEPT !.timer = FALSE, !.ip = NoKey].inFlight = s.inFlight
      /\ [s EXCEPT !.ip = NoKey, !.age = "old"] \in ServiceType
      /\ [s EXCEPT !.ip = NoKey, !.age = "old"].inFlight = s.inFlight
  BY DEF ServiceType
<1>4. Sync(s, n, on) \in ServiceType /\ Sync(s, n, on).inFlight = s.inFlight
  <2>1. CASE ~on
    BY <1>3, <2>1 DEF Sync
  <2>2. CASE on /\ n = NoNetwork
    BY <1>3, <2>2 DEF Sync
  <2>3. CASE on /\ n # NoNetwork /\ n # s.key
    BY <1>2, <1>3, <2>3 DEF Sync
  <2>4. CASE on /\ n # NoNetwork /\ n = s.key
    BY <1>2, <2>4 DEF Sync
  <2> QED BY <2>1, <2>2, <2>3, <2>4
<1> QED BY <1>1, <1>4

LEMMA ServiceAnswers ==
    ASSUME NEW s \in ServiceType, NEW n \in Networks, NEW ok \in BOOLEAN, NEW on \in BOOLEAN
    PROVE  ProbeAnswered(s, n, ok, on) \in ServiceType /\ ~ProbeAnswered(s, n, ok, on).inFlight
BY DEF ProbeAnswered, ServiceType

LEMMA AskStep ==
    ASSUME Inv, NEW c \in Callers, AskDownload(c)
    PROVE  Inv'
<1>1. PICK d \in Dests, n \in 1 .. Candidates, starts \in BOOLEAN :
         /\ asks' = [asks EXCEPT ![c] = [dest |-> d, left |-> n]]
         /\ http' = Download(http, d, c, starts)
  BY DEF AskDownload
<1>2. asks[c] = NoAsk /\ UNCHANGED <<offline, network, setting, service, control, starting, events>>
  BY DEF AskDownload
<1>3. Books(http, asks', {c}, service.inFlight, control, starting)
  BY <1>1, <1>2, Split, Asked
<1>4. Books(http', asks', {c} \ {c}, service.inFlight, control, starting)
  BY <1>1, <1>3, Split, DownloadBooked
<1>5. {c} \ {c} = {}
  OBVIOUS
<1>6. Rest'
  BY <1>2, Split DEF Rest, ExternalIpTypeOK
<1> QED BY <1>2, <1>4, <1>5, <1>6, Split, Combined

LEMMA FailureStep ==
    ASSUME Inv, RunFailure
    PROVE  Inv'
<1>1. /\ Idle /\ http.deferred # <<>> /\ Head(http.deferred).call = "fail"
      /\ UNCHANGED <<offline, network, setting, service, control, starting, events>>
  BY DEF RunFailure, NextCall
<1>2. /\ Rest /\ control \in ControlType /\ service.inFlight \in BOOLEAN /\ http \in ClientType
      /\ Books(http, asks, {}, service.inFlight, control, starting) /\ asks \in AskType
      /\ http.deferred \in Seq(Calls)
  BY Split, ClientFields DEF Books
<1>3. PICK c \in Callers : Head(http.deferred) = Fail(c) /\ Head(http.deferred).callback = c
  BY <1>1, <1>2, HeadCalls
<1>4. PICK starts \in BOOLEAN :
         /\ http' = DownloadAnswered([http |-> Called, asks |-> asks], c, FALSE, starts).http
         /\ asks' = DownloadAnswered([http |-> Called, asks |-> asks], c, FALSE, starts).asks
  BY <1>3 DEF RunFailure, Callback
<1>5. Called \in ClientType /\ Books(Called, asks, {c}, service.inFlight, control, starting)
  BY <1>1, <1>2, <1>3, FailureTaken DEF Called
<1> DEFINE x == [http |-> Called, asks |-> asks]
<1>6. Balanced(x, {c}, service.inFlight, control, starting)
  BY <1>2, <1>5 DEF Balanced, AskState
<1> HIDE DEF x
<1>7. Balanced(DownloadAnswered(x, c, FALSE, starts), {c} \ {c}, service.inFlight, control, starting)
  <2>1. c \in {c}
    OBVIOUS
  <2> QED BY <1>2, <1>6, <2>1, AnswerBalanced
<1>8. {c} \ {c} = {}
  OBVIOUS
<1>9. Books(http', asks', {}, service.inFlight, control, starting)
  BY <1>4, <1>7, <1>8 DEF Balanced, x
<1>10. Rest'
  BY <1>1, <1>2 DEF Rest, ExternalIpTypeOK
<1> QED BY <1>1, <1>2, <1>9, <1>10, Combined

LEMMA ResponseStep ==
    ASSUME Inv, RunResponse
    PROVE  Inv'
<1>1. /\ Idle /\ http.deferred # <<>> /\ Head(http.deferred).call = "respond" /\ http' = Called
      /\ service' = ProbeAnswered(service, Callback.probe, FALSE, Enabled)
      /\ UNCHANGED <<offline, network, setting, asks, control, starting, events>>
  BY DEF RunResponse, NextCall
<1>2. /\ Rest /\ control \in ControlType /\ service.inFlight \in BOOLEAN
      /\ Books(http, asks, {}, service.inFlight, control, starting)
      /\ http.deferred \in Seq(Calls)
  BY Split, ClientFields DEF Books
<1>3. PICK n \in Networks : Head(http.deferred) = Respond(n) /\ Head(http.deferred).callback = Probe(n)
  BY <1>1, <1>2, HeadCalls
<1>4. Callback.probe = n /\ service \in ServiceType /\ Enabled \in BOOLEAN
  BY <1>2, <1>3 DEF Callback, Probe, Rest, ExternalIpTypeOK, Enabled
<1>5. service' \in ServiceType /\ ~service'.inFlight
  BY <1>1, <1>4, ServiceAnswers
<1>6. Books(http', asks, {}, FALSE, control, starting)
  BY <1>1, <1>2, <1>3, ResponseTaken DEF Called
<1>7. service'.inFlight = FALSE
  BY <1>5 DEF ServiceType
<1>8. Rest'
  BY <1>1, <1>2, <1>5 DEF Rest, ExternalIpTypeOK
<1> QED BY <1>1, <1>2, <1>6, <1>7, <1>8, Combined

LEMMA OpenStep ==
    ASSUME Inv, NEW s \in Streams, StartHttpStream(s)
    PROVE  Inv'
<1>1. /\ control[s].at = "unused" /\ control' = [control EXCEPT ![s].at = "open"]
      /\ http' = Later(http, "start", s)
      /\ UNCHANGED <<offline, network, setting, service, asks, starting, events>>
  BY DEF StartHttpStream
<1>2. /\ Rest /\ control \in ControlType /\ service.inFlight \in BOOLEAN
      /\ Books(http, asks, {}, service.inFlight, control, starting)
  BY Split
<1>3. control[s].id = 0 /\ ~Among(http.deferred, Start(s)) /\ InNoTransfer(http, s)
  <2>1. StreamOf(http.transfers, http.deferred, http.nextStream, control, starting, s)
    BY <1>2 DEF Books, StreamInv
  <2> QED BY <1>1, <2>1 DEF StreamOf, InNoTransfer
<1>4. control' \in ControlType /\ Books(http, asks, {}, service.inFlight, control', starting)
  <2>1. "open" \in {"open", "closing", "closed", "stopping", "stopped"} /\ "open" # "stopped"
    OBVIOUS
  <2>2. control' = SetAt(control, s, "open")
    BY <1>1 DEF SetAt
  <2> QED BY <1>2, <2>1, <2>2, ControlChanged
<1>5. Startable(http, control', s)
  BY <1>1, <1>2, <1>3 DEF ControlType, Startable
<1>6. Books(http', asks, {}, service.inFlight, control', starting)
  <2>1. "start" \in {"start", "cancel", "close"}
    OBVIOUS
  <2> QED BY <1>1, <1>2, <1>4, <1>5, <2>1, StreamCalled
<1>7. Rest'
  BY <1>1, <1>2 DEF Rest, ExternalIpTypeOK
<1> QED BY <1>1, <1>4, <1>6, <1>7, Combined

\* stop() sets the flag; the close callback ends an open stream.
LEMMA FlagStep ==
    ASSUME Inv, NEW s \in Streams, StopHttpStream(s) \/ CallHttpStreamCloseCallback(s)
    PROVE  Inv'
<1>1. PICK x \in {"closed", "stopping"} : control' = [control EXCEPT ![s].at = x]
  BY DEF StopHttpStream, CallHttpStreamCloseCallback
<1>2. UNCHANGED <<http, offline, network, setting, service, asks, starting, events>>
  BY DEF StopHttpStream, CallHttpStreamCloseCallback
<1>3. /\ Rest /\ control \in ControlType /\ service.inFlight \in BOOLEAN
      /\ Books(http, asks, {}, service.inFlight, control, starting)
  BY Split
<1>4. control' \in ControlType /\ Books(http, asks, {}, service.inFlight, control', starting)
  <2>1. x \in {"open", "closing", "closed", "stopping", "stopped"} /\ x # "stopped"
    BY <1>1
  <2>2. control' = SetAt(control, s, x)
    BY <1>1 DEF SetAt
  <2> QED BY <1>3, <2>1, <2>2, ControlChanged
<1>5. Rest'
  BY <1>2, <1>3 DEF Rest, ExternalIpTypeOK
<1> QED BY <1>2, <1>4, <1>5, Combined

LEMMA StopStep ==
    ASSUME Inv, NEW s \in Streams, StopCallsLater(s)
    PROVE  Inv'
<1>1. /\ control' = [control EXCEPT ![s].at = "stopped"] /\ http' = Later(http, "cancel", s)
      /\ UNCHANGED <<offline, network, setting, service, asks, starting, events>>
  BY DEF StopCallsLater
<1>2. /\ Rest /\ control \in ControlType /\ service.inFlight \in BOOLEAN
      /\ Books(http, asks, {}, service.inFlight, control, starting)
  BY Split
<1>3. Books(http', asks, {}, service.inFlight, control, starting) /\ Among(http'.deferred, Cancel(s))
  <2>1. "cancel" \in {"start", "cancel", "close"} /\ "cancel" # "start"
    OBVIOUS
  <2> QED BY <1>1, <1>2, <2>1, StreamCalled
<1>4. control' \in ControlType /\ Books(http', asks, {}, service.inFlight, control', starting)
  <2>1. "stopped" \in {"open", "closing", "closed", "stopping", "stopped"}
    OBVIOUS
  <2>2. control' = SetAt(control, s, "stopped")
    BY <1>1 DEF SetAt
  <2> QED BY <1>2, <1>3, <2>1, <2>2, ControlChanged
<1>5. Rest'
  BY <1>1, <1>2 DEF Rest, ExternalIpTypeOK
<1> QED BY <1>1, <1>4, <1>5, Combined

LEMMA StartStep ==
    ASSUME Inv, RunStart
    PROVE  Inv'
<1>1. /\ starting = None /\ http.deferred # <<>> /\ Head(http.deferred).call = "start"
      /\ UNCHANGED <<offline, network, setting, service, asks, events>>
  BY DEF RunStart, NextCall, Idle
<1>2. /\ Rest /\ control \in ControlType /\ service.inFlight \in BOOLEAN
      /\ Books(http, asks, {}, service.inFlight, control, None)
      /\ http.deferred \in Seq(Calls)
  BY <1>1, Split, ClientFields DEF Books
<1>3. PICK s \in Streams : Head(http.deferred) = Start(s) /\ Callback = s
  BY <1>1, <1>2, HeadCalls DEF Callback
<1>4. /\ Books(Called, asks, {}, service.inFlight, control, None) /\ Called.nextStream = http.nextStream
      /\ Startable(Called, control, s)
  <2>1. Start(s) # Cancel(s) /\ Head(http.deferred) \in {Start(s), Cancel(s), Close(s)}
    BY <1>3, CallsDiffer
  <2> DEFINE r == Called
  <2>2. r = NextTaken(http)
    BY DEF Called, NextTaken
  <2> HIDE DEF r
  <2>3. /\ Books(r, asks, {}, service.inFlight, control, IF Head(http.deferred) = Cancel(s) THEN s ELSE None)
        /\ r.nextStream = http.nextStream
        /\ Head(http.deferred) = Start(s) => Startable(r, control, s)
    BY <1>1, <1>2, <2>1, <2>2, StreamCallTaken
  <2> QED BY <1>3, <2>1, <2>3 DEF r
<1>5. CASE Cancelled(s)
  <2>1. http' = Called /\ UNCHANGED <<control, starting>>
    BY <1>3, <1>5 DEF RunStart
  <2>2. Rest'
    BY <1>1, <1>2, <2>1 DEF Rest, ExternalIpTypeOK
  <2> QED BY <1>1, <1>2, <1>4, <2>1, <2>2, Combined
<1>6. CASE ~Cancelled(s)
  <2>1. PICK starts \in BOOLEAN :
          /\ http' = StartStream(Called, s, starts)
          /\ control' = [control EXCEPT ![s].id = StreamIdOf(http, http')]
          /\ starting' = s
    BY <1>3, <1>6 DEF RunStart
  <2>2. control[s].at # "stopped"
    BY <1>6 DEF Cancelled
  <2>3. control' \in ControlType /\ Books(http', asks, {}, service.inFlight, control', s)
    <3>1. http.nextStream = Called.nextStream
      BY <1>4
    <3>2. control' = SetId(control, s, StreamIdOf(http, http'))
      BY <2>1 DEF SetId
    <3> DEFINE h == Called
    <3>3. /\ Books(h, asks, {}, service.inFlight, control, None) /\ Startable(h, control, s)
          /\ http' = StartStream(h, s, starts) /\ http.nextStream = h.nextStream
      BY <1>4, <2>1
    <3> HIDE DEF h
    <3> QED BY <1>2, <2>2, <3>2, <3>3, StreamStarted
  <2>4. Rest'
    BY <1>1, <1>2, <2>1 DEF Rest, ExternalIpTypeOK
  <2> QED BY <1>1, <2>1, <2>3, <2>4, Combined
<1> QED BY <1>5, <1>6

LEMMA CheckStep ==
    ASSUME Inv, CheckStarted
    PROVE  Inv'
<1>1. /\ starting # None /\ starting' = None
      /\ http' = IF Cancelled(starting) THEN CancelStream(http, control[starting].id) ELSE http
      /\ UNCHANGED <<offline, network, setting, service, asks, control, events>>
  BY DEF CheckStarted
<1>2. /\ Rest /\ control \in ControlType /\ service.inFlight \in BOOLEAN
      /\ Books(http, asks, {}, service.inFlight, control, starting)
  BY Split
<1>3. starting \in Streams
  BY <1>1, <1>2 DEF Rest
<1>4. Books(http', asks, {}, service.inFlight, control, None)
  <2>1. CASE Cancelled(starting)
    <3>1. http' = CancelStream(http, control[starting].id)
      BY <1>1, <2>1
    <3>2. /\ Books(http', asks, {}, service.inFlight, control, starting)
          /\ InNoTransfer(http', starting)
      BY <1>2, <1>3, <3>1, StreamCancelled
    <3> QED BY <3>2, Excused
  <2>2. CASE ~Cancelled(starting)
    <3>1. http' = http /\ control[starting].at # "stopped"
      BY <1>1, <2>2 DEF Cancelled
    <3> QED BY <1>2, <3>1, Excused
  <2> QED BY <2>1, <2>2
<1>5. Rest'
  BY <1>1, <1>2 DEF Rest, ExternalIpTypeOK
<1> QED BY <1>1, <1>2, <1>4, <1>5, Combined

LEMMA CancelStep ==
    ASSUME Inv, RunCancel
    PROVE  Inv'
<1>1. /\ starting = None /\ http.deferred # <<>> /\ Head(http.deferred).call = "cancel"
      /\ http' = CancelStream(Called, control[Callback].id)
      /\ UNCHANGED <<offline, network, setting, service, asks, control, starting, events>>
  BY DEF RunCancel, NextCall, Idle
<1>2. /\ Rest /\ control \in ControlType /\ service.inFlight \in BOOLEAN
      /\ Books(http, asks, {}, service.inFlight, control, None)
      /\ http.deferred \in Seq(Calls)
  BY <1>1, Split, ClientFields DEF Books
<1>3. PICK s \in Streams : Head(http.deferred) = Cancel(s) /\ Callback = s
  BY <1>1, <1>2, HeadCalls DEF Callback
<1>4. Books(Called, asks, {}, service.inFlight, control, s)
  <2>1. Head(http.deferred) \in {Start(s), Cancel(s), Close(s)}
    BY <1>3
  <2> DEFINE r == Called
  <2>2. r = NextTaken(http)
    BY DEF Called, NextTaken
  <2> HIDE DEF r
  <2>3. Books(r, asks, {}, service.inFlight, control, IF Head(http.deferred) = Cancel(s) THEN s ELSE None)
    BY <1>1, <1>2, <2>1, <2>2, StreamCallTaken
  <2> QED BY <1>3, <2>3 DEF r
<1>5. /\ Books(http', asks, {}, service.inFlight, control, s)
      /\ InNoTransfer(http', s)
  <2> DEFINE h == Called
  <2>1. Books(h, asks, {}, service.inFlight, control, s) /\ http' = CancelStream(h, control[s].id)
    BY <1>1, <1>3, <1>4
  <2> HIDE DEF h
  <2>2. control \in ControlType /\ service.inFlight \in BOOLEAN
    BY <1>2
  <2> QED BY <2>1, <2>2, StreamCancelled
<1>6. Books(http', asks, {}, service.inFlight, control, None)
  BY <1>5, Excused
<1>7. Rest'
  BY <1>1, <1>2 DEF Rest, ExternalIpTypeOK
<1> QED BY <1>1, <1>2, <1>6, <1>7, Combined

\* A stream ends, by a local error or by its last message.
LEMMA Closed ==
    ASSUME NEW h, NEW s \in Streams, control \in ControlType, service.inFlight \in BOOLEAN,
           NEW st, Books(h, asks, {}, service.inFlight, control, st)
    PROVE  OnClose(s) \in ControlType /\ Books(h, asks, {}, service.inFlight, OnClose(s), st)
<1>1. CASE Cancelled(s)
  BY <1>1 DEF OnClose
<1>2. CASE ~Cancelled(s)
  <2> DEFINE new == [control EXCEPT ![s].at = "closing"]
  <2>1. OnClose(s) = new
    BY <1>2 DEF OnClose
  <2>2. "closing" \in {"open", "closing", "closed", "stopping", "stopped"} /\ "closing" # "stopped"
    OBVIOUS
  <2>3. new = SetAt(control, s, "closing")
    BY DEF SetAt
  <2> HIDE DEF new
  <2>4. new \in ControlType /\ Books(h, asks, {}, service.inFlight, new, st)
    BY <2>2, <2>3, ControlChanged
  <2> QED BY <2>1, <2>4
<1> QED BY <1>1, <1>2

LEMMA CloseStep ==
    ASSUME Inv, RunClose
    PROVE  Inv'
<1>1. /\ starting = None /\ http.deferred # <<>> /\ Head(http.deferred).call = "close"
      /\ http' = Called /\ control' = OnClose(Callback)
      /\ UNCHANGED <<offline, network, setting, service, asks, starting, events>>
  BY DEF RunClose, NextCall, Idle
<1>2. /\ Rest /\ control \in ControlType /\ service.inFlight \in BOOLEAN
      /\ Books(http, asks, {}, service.inFlight, control, None)
      /\ http.deferred \in Seq(Calls)
  BY <1>1, Split, ClientFields DEF Books
<1>3. PICK s \in Streams : Head(http.deferred) = Close(s) /\ Callback = s
  BY <1>1, <1>2, HeadCalls DEF Callback
<1>4. Books(Called, asks, {}, service.inFlight, control, None)
  <2>1. Head(http.deferred) \in {Start(s), Cancel(s), Close(s)} /\ Close(s) # Cancel(s)
    BY <1>3, CallsDiffer
  <2> DEFINE r == Called
  <2>2. r = NextTaken(http)
    BY DEF Called, NextTaken
  <2> HIDE DEF r
  <2>3. Books(r, asks, {}, service.inFlight, control, IF Head(http.deferred) = Cancel(s) THEN s ELSE None)
    BY <1>1, <1>2, <2>1, <2>2, StreamCallTaken
  <2> QED BY <1>3, <2>1, <2>3 DEF r
<1>5. control' \in ControlType /\ Books(http', asks, {}, service.inFlight, control', None)
  BY <1>1, <1>2, <1>3, <1>4, Closed
<1>6. Rest'
  BY <1>1, <1>2 DEF Rest, ExternalIpTypeOK
<1> QED BY <1>1, <1>5, <1>6, Combined

LEMMA DownloadEnds ==
    ASSUME Inv, NEW e \in Easy, ReadDownload(e)
    PROVE  Inv'
<1>1. /\ http.transfers[e].kind = "download"
      /\ UNCHANGED <<offline, network, setting, service, control, starting, events>>
  BY DEF ReadDownload
<1>2. /\ Rest /\ control \in ControlType /\ service.inFlight \in BOOLEAN
      /\ Books(http, asks, {}, service.inFlight, control, starting)
  BY Split
<1> DEFINE q == http.transfers[e].callbacks
           h == FinishTransfer(http, e)
<1>3. PICK ok \in BOOLEAN, starters \in SUBSET Callers :
         http' = AnswerAll(h, q, ok, starters).http /\ asks' = AnswerAll(h, q, ok, starters).asks
  BY DEF ReadDownload
<1>4. /\ q \in Seq(Callers) /\ \A i, j \in 1..Len(q) : q[i] = q[j] => i = j
      /\ h \in ClientType
      /\ Books(h, asks, {q[i] : i \in 1..Len(q)}, service.inFlight, control, starting)
  BY <1>1, <1>2, Finished
<1> DEFINE r == AnswerAll(h, q, ok, starters)
<1>5. r = AnswerAll(h, q, ok, starters) /\ http' = r.http /\ asks' = r.asks
  BY <1>3
<1> HIDE DEF r, q, h
<1>6. Books(r.http, r.asks, {}, service.inFlight, control, starting)
  BY <1>2, <1>4, <1>5, AllAnswered
<1>7. Rest'
  BY <1>1, <1>2 DEF Rest, ExternalIpTypeOK
<1> QED BY <1>1, <1>2, <1>5, <1>6, <1>7, Combined

LEMMA RequestEnds ==
    ASSUME Inv, NEW e \in Easy, ReadRequest(e)
    PROVE  Inv'
<1>1. /\ http.transfers[e].kind = "request" /\ http' = FinishRequestTransfer(http, e)
      /\ UNCHANGED <<offline, network, setting, asks, control, starting, events>>
  BY DEF ReadRequest
<1>2. /\ Rest /\ control \in ControlType /\ service.inFlight \in BOOLEAN
      /\ Books(http, asks, {}, service.inFlight, control, starting) /\ Shaped(http.transfers)
  BY Split DEF Books
<1>3. PICK ok \in BOOLEAN :
         service' = ProbeAnswered(service, http.transfers[e].callbacks[1].probe, ok, Enabled)
  BY DEF ReadRequest
<1>4. PICK n \in Networks : http.transfers[e].callbacks[1] = Probe(n)
  <2>1. http.transfers[e].kind \in {"none", "download", "request", "stream"}
    BY <1>1
  <2> QED BY <1>1, <1>2, <2>1, Kinds
<1>5. http.transfers[e].callbacks[1].probe = n /\ service \in ServiceType /\ Enabled \in BOOLEAN
  BY <1>2, <1>4 DEF Probe, Rest, ExternalIpTypeOK, Enabled
<1>6. service' \in ServiceType /\ ~service'.inFlight
  BY <1>3, <1>5, ServiceAnswers
<1>7. service'.inFlight = FALSE
  BY <1>6 DEF ServiceType
<1>8. Books(http', asks, {}, FALSE, control, starting)
  BY <1>1, <1>2, RequestFinished
<1>9. Rest'
  BY <1>1, <1>2, <1>6 DEF Rest, ExternalIpTypeOK
<1> QED BY <1>1, <1>2, <1>7, <1>8, <1>9, Combined

LEMMA StreamEnds ==
    ASSUME Inv, NEW e \in Easy, ReadStream(e)
    PROVE  Inv'
<1>1. /\ http.transfers[e].kind = "stream" /\ http' = FinishStreamTransfer(http, e)
      /\ control' = OnClose(http.transfers[e].callbacks[1])
      /\ UNCHANGED <<offline, network, setting, service, asks, starting, events>>
  BY DEF ReadStream
<1>2. /\ Rest /\ control \in ControlType /\ service.inFlight \in BOOLEAN
      /\ Books(http, asks, {}, service.inFlight, control, starting)
      /\ Shaped(http.transfers) /\ StreamsAgree(http.transfers, http.byStream)
  BY Split DEF Books
<1>3. PICK s \in Streams : http.transfers[e].callbacks[1] = s
  <2>1. http.transfers[e].kind \in {"none", "download", "request", "stream"}
    BY <1>1
  <2> QED BY <1>1, <1>2, <2>1, Kinds
<1> DEFINE i == http.transfers[e].id
<1>4. i \in StreamIds /\ http.byStream[i] = e /\ http' = Dropped(http, e, i)
  BY <1>1, <1>2 DEF Shaped, Shape, StreamsAgree, FinishStreamTransfer, Dropped
<1> HIDE DEF i
<1>5. Books(http', asks, {}, service.inFlight, control, starting)
  BY <1>2, <1>4, StreamGone
<1>6. control' \in ControlType /\ Books(http', asks, {}, service.inFlight, control', starting)
  BY <1>1, <1>2, <1>3, <1>5, Closed
<1>7. Rest'
  BY <1>1, <1>2 DEF Rest, ExternalIpTypeOK
<1> QED BY <1>1, <1>6, <1>7, Combined

\* A change of the network, of the configuration or of the time does not reach the client.
LEMMA OutsideStep ==
    ASSUME Inv, NetworkChanged \/ ConfigReload \/ TimePasses
    PROVE  Inv'
<1>1. /\ Rest /\ control \in ControlType /\ service.inFlight \in BOOLEAN
      /\ Books(http, asks, {}, service.inFlight, control, starting)
  BY Split
<1>2. UNCHANGED <<http, asks, control, starting>>
  BY DEF NetworkChanged, ConfigReload, TimePasses
<1>3. service \in ServiceType /\ network \in Networks \cup {NoNetwork} /\ Enabled \in BOOLEAN
  BY <1>1 DEF Rest, ExternalIpTypeOK, Enabled
<1>4. events' \in 0 .. MaxEvents
  <2>1. CASE NetworkChanged \/ ConfigReload
    BY <1>1, <2>1, CallerConstants DEF Rest, NetworkChanged, ConfigReload
  <2>2. CASE TimePasses
    BY <1>1, <2>2 DEF Rest, TimePasses
  <2> QED BY <2>1, <2>2
<1>5. /\ service' \in ServiceType /\ service'.inFlight = service.inFlight
      /\ offline' \in BOOLEAN /\ setting' \in BOOLEAN /\ network' \in Networks \cup {NoNetwork}
  <2>1. CASE NetworkChanged
    <3>1. PICK net \in Networks \cup {NoNetwork} :
             network' = net /\ service' = Sync(service, net, Enabled)
      BY <2>1 DEF NetworkChanged
    <3>2. offline' = offline /\ setting' = setting
      BY <2>1 DEF NetworkChanged
    <3> QED BY <1>1, <1>3, <3>1, <3>2, ServiceSteps DEF Rest, ExternalIpTypeOK
  <2>2. CASE ConfigReload
    <3>1. setting' \in BOOLEAN /\ offline' \in BOOLEAN /\ network' = network
          /\ service' = Sync(service, network, Enabled')
      BY <2>2 DEF ConfigReload, SetOfflineMode
    <3>2. Enabled' \in BOOLEAN
      BY <3>1 DEF Enabled
    <3> QED BY <1>3, <3>1, <3>2, ServiceSteps
  <2>3. CASE TimePasses
    <3>1. service' = Older(service) /\ UNCHANGED <<offline, network, setting>>
      BY <2>3 DEF TimePasses
    <3> QED BY <1>1, <1>3, <3>1, ServiceSteps DEF Rest, ExternalIpTypeOK
  <2> QED BY <2>1, <2>2, <2>3
<1>6. Rest'
  BY <1>1, <1>2, <1>4, <1>5 DEF Rest, ExternalIpTypeOK
<1> QED BY <1>1, <1>2, <1>5, <1>6, Combined

LEMMA ProbeStep ==
    ASSUME Inv, ProbeNow
    PROVE  Inv'
<1>1. /\ Rest /\ control \in ControlType /\ service.inFlight \in BOOLEAN
      /\ Books(http, asks, {}, service.inFlight, control, starting)
      /\ service \in ServiceType /\ network \in Networks \cup {NoNetwork}
  BY Split DEF Rest, ExternalIpTypeOK
<1>2. UNCHANGED <<offline, network, setting, asks, control, starting, events>>
  BY DEF ProbeNow
<1>3. CASE Probes(service, network, Enabled)
  <2>1. /\ service' = [service EXCEPT !.timer = FALSE, !.inFlight = TRUE]
        /\ \E starts \in BOOLEAN : http' = Request(http, Probe(network), starts)
    BY <1>3 DEF ProbeNow
  <2>2. service.inFlight = FALSE /\ network \in Networks
    BY <1>1, <1>3 DEF Probes
  <2>3. service' \in ServiceType /\ service'.inFlight = TRUE
    BY <1>1, <2>1 DEF ServiceType
  <2>4. PICK starts \in BOOLEAN : http' = Request(http, Probe(network), starts)
    BY <2>1
  <2>5. Books(http, asks, {}, FALSE, control, starting)
    BY <1>1, <2>2
  <2>6. Books(http', asks, {}, TRUE, control, starting)
    BY <2>2, <2>4, <2>5, Requested
  <2>7. Rest'
    BY <1>1, <1>2, <2>3 DEF Rest, ExternalIpTypeOK
  <2> QED BY <1>1, <1>2, <2>3, <2>6, <2>7, Combined
<1>4. CASE ~Probes(service, network, Enabled)
  <2>1. http' = http /\ service' = [service EXCEPT !.timer = FALSE]
    BY <1>4 DEF ProbeNow
  <2>2. service' \in ServiceType /\ service'.inFlight = service.inFlight
    BY <1>1, <2>1 DEF ServiceType
  <2>3. Rest'
    BY <1>1, <1>2, <2>2 DEF Rest, ExternalIpTypeOK
  <2> QED BY <1>1, <1>2, <2>1, <2>2, <2>3, Combined
<1> QED BY <1>3, <1>4

LEMMA InitInv ==
    ASSUME Init
    PROVE  Inv
<1> DEFINE T == [e \in Easy |-> NoTransfer]
<1>1. /\ http.transfers = T /\ http.byDest = [d \in Dests |-> 0]
      /\ http.byStream = [i \in StreamIds |-> 0] /\ http.nextStream = 1 /\ http.deferred = <<>>
      /\ http \in ClientType
  <2>1. NoTransfer \in TransferType
    BY DEF NoTransfer, TransferType
  <2>2. T \in [Easy -> TransferType]
    BY <2>1
  <2> HIDE DEF T
  <2>3. http = [transfers |-> T, byDest |-> [d \in Dests |-> 0],
               byStream |-> [i \in StreamIds |-> 0],
               nextStream |-> 1, deferred |-> <<>>]
    BY DEF Init, HttpInit, T
  <2>4. 1 \in 1 .. (Cardinality(Streams) + 1)
    BY Numbers
  <2> QED BY <2>2, <2>3, <2>4 DEF ClientType, HttpType, TransferType
<1>2. /\ asks = [c \in Callers |-> NoAsk] /\ control = [s \in Streams |-> [at |-> "unused", id |-> 0]]
      /\ starting = None /\ events = 0 /\ offline = FALSE
  BY DEF Init, HttpInit
<1>3. \A e \in Easy : T[e].kind = "none" /\ T[e].callbacks = <<>>
  BY DEF NoTransfer
<1>4. \A e \in Easy : \A x : ~Waits(T, e, x)
  BY <1>3 DEF Waits, Among
<1>5. \A x : ~Among(<<>>, x) /\ Single(<<>>, x)
  BY DEF Among, Single
<1> HIDE DEF T
<1>6. service \in ServiceType /\ service.inFlight = FALSE
      /\ network \in Networks \cup {NoNetwork} /\ setting \in BOOLEAN
  <2> DEFINE s == [ip |-> NoKey, key |-> NoKey, confirmed |-> NoKey, age |-> "old",
                   inFlight |-> FALSE, timer |-> FALSE]
  <2>1. s \in ServiceType /\ s.inFlight = FALSE
    BY DEF ServiceType
  <2>2. service = Sync(s, network, TRUE) /\ network \in Networks \cup {NoNetwork} /\ setting \in BOOLEAN
    BY DEF Init, ExternalIpInit
  <2> HIDE DEF s
  <2> QED BY <2>1, <2>2, ServiceSteps
<1>7. Shaped(T)
  BY <1>3 DEF Shaped, Shape
<1>8. DestsAgree(T, http.byDest) /\ StreamsAgree(T, http.byStream)
  BY <1>1, <1>3, Numbers DEF DestsAgree, StreamsAgree
<1>9. AskInv(T, <<>>, asks, {})
  BY <1>2, <1>4, <1>5 DEF AskInv, AskOf
<1>10. ProbeInv(T, <<>>, FALSE)
  BY <1>3, <1>5 DEF ProbeInv
<1>11. StreamInv(T, <<>>, 1, control, None)
  <2>1. Ids(control) = {}
    BY <1>2 DEF Ids
  <2>2. 1 = 1 + Cardinality(Ids(control))
    BY <2>1, FS_EmptySet
  <2>3. \A s \in Streams : StreamOf(T, <<>>, 1, control, None, s)
    BY <1>2, <1>4, <1>5 DEF StreamOf
  <2> QED BY <2>2, <2>3 DEF StreamInv
<1>12. asks \in AskType /\ control \in ControlType
  BY <1>2 DEF AskType, ControlType
<1>13. Books(http, asks, {}, service.inFlight, control, starting)
  BY <1>1, <1>2, <1>6, <1>7, <1>8, <1>9, <1>10, <1>11, <1>12 DEF Books
<1>14. events \in 0 .. MaxEvents
  BY <1>2, CallerConstants
<1>15. TypeOK
  BY <1>1, <1>2, <1>6, <1>12, <1>14
     DEF TypeOK, ExternalIpTypeOK, ControlType, AskType, ClientType, Callbacks, Calls
<1> QED BY <1>13, <1>15 DEF Inv

LEMMA NextInv == Inv /\ [Next]_vars => Inv'
<1> SUFFICES ASSUME Inv, [Next]_vars PROVE Inv'
  OBVIOUS
<1>1. CASE \E c \in Callers : AskDownload(c)
  BY <1>1, AskStep
<1>2. CASE \E s \in Streams : \/ StartHttpStream(s) \/ StopHttpStream(s) \/ StopCallsLater(s)
                              \/ CallHttpStreamCloseCallback(s)
  BY <1>2, OpenStep, FlagStep, StopStep
<1>3. CASE RunFailure \/ RunResponse \/ RunStart \/ RunCancel \/ RunClose
  BY <1>3, FailureStep, ResponseStep, StartStep, CancelStep, CloseStep
<1>4. CASE CheckStarted
  BY <1>4, CheckStep
<1>5. CASE \E e \in Easy : ReadDownload(e) \/ ReadRequest(e) \/ ReadStream(e)
  BY <1>5, DownloadEnds, RequestEnds, StreamEnds
<1>6. CASE NetworkChanged \/ ConfigReload \/ TimePasses
  BY <1>6, OutsideStep
<1>7. CASE ProbeNow
  BY <1>7, ProbeStep
<1>8. CASE UNCHANGED vars
  <2>1. UNCHANGED <<http, offline, network, setting, service, asks, control, starting, events>>
    BY <1>8 DEF vars
  <2>2. Rest'
    BY <2>1, Split DEF Rest, ExternalIpTypeOK
  <2> QED BY <2>1, <2>2, Split, Combined
<1> QED BY <1>1, <1>2, <1>3, <1>4, <1>5, <1>6, <1>7, <1>8 DEF Next

\* The books of the client are kept in every state: the shapes of the transfers, the two
\* indexes, and one place for each callback, probe and stream that is owed something.
THEOREM Invariance == Spec => []Inv
BY InitInv, NextInv, PTL DEF Spec

-----------------------------------------------------------------------------
(* What follows from the invariant *)

\* A set with no two different members.
LEMMA OneOrNone ==
    ASSUME NEW A, \A u, v \in A : u = v
    PROVE  Cardinality(A) = IF A = {} THEN 0 ELSE 1
<1>1. CASE A = {}
  BY <1>1, FS_EmptySet
<1>2. CASE A # {}
  <2>1. PICK u \in A : TRUE
    BY <1>2
  <2>2. A = {u}
    BY <2>1
  <2> QED BY <1>2, <2>2, FS_Singleton
<1> QED BY <1>1, <1>2

InTransfers(x) ==
    UNION {{<<e, i>> : i \in {j \in DOMAIN http.transfers[e].callbacks :
                                  http.transfers[e].callbacks[j] = x}} : e \in Active(http)}
InCalls(x, calls) ==
    {i \in DOMAIN http.deferred : /\ http.deferred[i].call \in calls
                                  /\ http.deferred[i].callback = x}

\* What is owed to a callback is counted in the transfers and in the deferred calls.
LEMMA OwedParts ==
    ASSUME Inv, NEW x, NEW calls
    PROVE  /\ Owed(x, calls) = Cardinality(InTransfers(x)) + Cardinality(InCalls(x, calls))
           /\ InTransfers(x) # {} <=> \E e \in Easy : Waits(http.transfers, e, x)
           /\ (\A e, f \in Easy : Waits(http.transfers, e, x) /\ Waits(http.transfers, f, x) =>
                                     e = f /\ Single(http.transfers[e].callbacks, x)) =>
                 \A u, v \in InTransfers(x) : u = v
<1>1. Owed(x, calls) = Cardinality(InTransfers(x)) + Cardinality(InCalls(x, calls))
  BY DEF Owed, InTransfers, InCalls
<1>2. \A u : u \in InTransfers(x) <=>
         \E e \in Easy : \E i \in DOMAIN http.transfers[e].callbacks :
             /\ http.transfers[e].kind # "none" /\ u = <<e, i>>
             /\ http.transfers[e].callbacks[i] = x
  BY DEF InTransfers, Active
<1>3. \A e \in Easy : Waits(http.transfers, e, x) => http.transfers[e].kind # "none"
  <2> SUFFICES ASSUME NEW e \in Easy, Waits(http.transfers, e, x), http.transfers[e].kind = "none"
               PROVE  FALSE
    OBVIOUS
  <2>1. Shaped(http.transfers) /\ http.transfers[e].kind \in {"none", "download", "request", "stream"}
    BY DEF Inv, Books
  <2> QED BY <2>1, Kinds
<1>4. InTransfers(x) # {} <=> \E e \in Easy : Waits(http.transfers, e, x)
  BY <1>2, <1>3 DEF Waits, Among
<1>5. ASSUME \A e, f \in Easy : Waits(http.transfers, e, x) /\ Waits(http.transfers, f, x) =>
                                     e = f /\ Single(http.transfers[e].callbacks, x),
             NEW u \in InTransfers(x), NEW v \in InTransfers(x)
      PROVE  u = v
  <2>1. PICK e \in Easy : \E i \in DOMAIN http.transfers[e].callbacks :
              u = <<e, i>> /\ http.transfers[e].callbacks[i] = x
    BY <1>2
  <2>2. PICK i \in DOMAIN http.transfers[e].callbacks :
            u = <<e, i>> /\ http.transfers[e].callbacks[i] = x
    BY <2>1
  <2>3. PICK f \in Easy : \E j \in DOMAIN http.transfers[f].callbacks :
              v = <<f, j>> /\ http.transfers[f].callbacks[j] = x
    BY <1>2
  <2>4. PICK j \in DOMAIN http.transfers[f].callbacks :
            v = <<f, j>> /\ http.transfers[f].callbacks[j] = x
    BY <2>3
  <2>5. Waits(http.transfers, e, x) /\ Waits(http.transfers, f, x)
    BY <2>2, <2>4 DEF Waits, Among
  <2>6. e = f /\ Single(http.transfers[e].callbacks, x)
    BY <1>5, <2>5
  <2>7. i = j
    BY <2>2, <2>4, <2>6 DEF Single
  <2> QED BY <2>2, <2>4, <2>6, <2>7
<1> QED BY <1>1, <1>4, <1>5

\* A deferred call of a caller or of the probe is told by its name and its callback.
LEMMA CallsOf ==
    ASSUME Inv, NEW x, NEW name \in {"fail", "respond"}, NEW r, r = [call |-> name, callback |-> x]
    PROVE  /\ InCalls(x, {name}) # {} <=> Among(http.deferred, r)
           /\ Single(http.deferred, r) => \A u, v \in InCalls(x, {name}) : u = v
<1>1. http.deferred \in Seq(Calls)
  BY ClientFields DEF Inv, Books
<1>2. \A i \in DOMAIN http.deferred :
         http.deferred[i].call = name /\ http.deferred[i].callback = x <=> http.deferred[i] = r
  <2> SUFFICES ASSUME NEW i \in DOMAIN http.deferred
               PROVE  http.deferred[i].call = name /\ http.deferred[i].callback = x <=> http.deferred[i] = r
    OBVIOUS
  <2>1. http.deferred[i] \in Calls
    BY <1>1
  <2> QED BY <2>1 DEF Calls, DownloadCall, ProbeCall, StreamCall
<1>3. \A i : i \in InCalls(x, {name}) <=> i \in DOMAIN http.deferred /\ http.deferred[i] = r
  BY <1>2 DEF InCalls
<1> QED BY <1>3 DEF Among, Single

\* Both of the client's indexes name exactly the transfers there are (m_activeByDest and
\* m_streamsById in src/src/net/http_client.cpp), although handles are recycled.
THEOREM IndexesAlwaysAgree == Spec => []IndexesAgree
<1>1. Inv => IndexesAgree
  BY DEF Inv, Books, DestsAgree, StreamsAgree, IndexesAgree
<1> QED BY <1>1, Invariance, PTL

LEMMA AskersOwed ==
    ASSUME Inv, NEW c \in Callers
    PROVE  Owed(c, {"fail"}) = IF asks[c] = NoAsk THEN 0 ELSE 1
<1> DEFINE A == InTransfers(c)
           B == InCalls(c, {"fail"})
<1>1. AskOf(http.transfers, http.deferred, asks, {}, c)
  BY DEF Inv, Books, AskInv
<1>2. /\ Owed(c, {"fail"}) = Cardinality(A) + Cardinality(B)
      /\ A # {} <=> \E e \in Easy : Waits(http.transfers, e, c)
      /\ \A u, v \in A : u = v
  <2>1. \A e, f \in Easy : Waits(http.transfers, e, c) /\ Waits(http.transfers, f, c) =>
                              e = f /\ Single(http.transfers[e].callbacks, c)
    BY <1>1 DEF AskOf
  <2> QED BY <2>1, OwedParts
<1>3. (B # {} <=> Among(http.deferred, Fail(c))) /\ \A u, v \in B : u = v
  <2>1. "fail" \in {"fail", "respond"} /\ Fail(c) = [call |-> "fail", callback |-> c]
    BY DEF Fail
  <2>2. Single(http.deferred, Fail(c))
    BY <1>1 DEF AskOf
  <2> QED BY <2>1, <2>2, CallsOf
<1>4. asks[c] # NoAsk <=> A # {} \/ B # {}
  BY <1>1, <1>2, <1>3 DEF AskOf
<1>5. A = {} \/ B = {}
  BY <1>1, <1>2, <1>3 DEF AskOf
<1> HIDE DEF A, B
<1>6. Cardinality(A) = IF A = {} THEN 0 ELSE 1
  BY <1>2, OneOrNone
<1>7. Cardinality(B) = IF B = {} THEN 0 ELSE 1
  BY <1>3, OneOrNone
<1>8. CASE asks[c] = NoAsk
  <2>1. Cardinality(A) = 0 /\ Cardinality(B) = 0
    BY <1>4, <1>6, <1>7, <1>8
  <2> QED BY <1>2, <1>8, <2>1
<1>9. CASE asks[c] # NoAsk
  <2>1. (Cardinality(A) = 0 /\ Cardinality(B) = 1) \/ (Cardinality(A) = 1 /\ Cardinality(B) = 0)
    BY <1>4, <1>5, <1>6, <1>7, <1>9
  <2>2. Cardinality(A) + Cardinality(B) = 1
    BY <2>1
  <2> QED BY <1>2, <1>9, <2>2
<1> QED BY <1>8, <1>9

\* A probe is owed an answer when its request is in a transfer or its answer deferred,
\* and no more than one.
LEMMA ProbeOwed ==
    ASSUME Inv, NEW n \in Networks
    PROVE  /\ Owed(Probe(n), {"respond"}) # 0 <=>
                 \/ Among(http.deferred, Respond(n))
                 \/ \E e \in Easy : http.transfers[e].kind = "request" /\ http.transfers[e].callbacks = <<Probe(n)>>
           /\ Owed(Probe(n), {"respond"}) <= 1
<1> DEFINE x == Probe(n)
           T == http.transfers
           A == InTransfers(x)
           B == InCalls(x, {"respond"})
<1>1. ProbeInv(T, http.deferred, service.inFlight) /\ Shaped(T) /\ http \in ClientType
  BY DEF Inv, Books
<1>2. x \in [probe : Networks] /\ x \notin Callers /\ x \notin Streams
  BY CallbacksApart DEF Probe
<1> HIDE DEF x
<1>3. ASSUME NEW e \in Easy
      PROVE  Waits(T, e, x) <=> T[e].kind = "request" /\ T[e].callbacks = <<x>>
  <2>1. Shape(T[e]) /\ T[e].kind \in {"none", "download", "request", "stream"}
    BY <1>1, ClientFields DEF Shaped
  <2>2. CASE T[e].kind = "none"
    BY <2>1, <2>2 DEF Shape, Waits, Among
  <2>3. CASE T[e].kind = "download"
    <3>1. T[e].callbacks \in Seq(Callers)
      BY <2>1, <2>3 DEF Shape
    <3>2. \A i \in DOMAIN T[e].callbacks : T[e].callbacks[i] \in Callers
      BY <3>1
    <3> QED BY <1>2, <2>3, <3>2 DEF Waits, Among
  <2>4. CASE T[e].kind = "stream"
    <3>1. PICK s \in Streams : T[e].callbacks = <<s>>
      BY <2>1, <2>4 DEF Shape
    <3> QED BY <1>2, <2>4, <3>1 DEF Waits, Among
  <2>5. CASE T[e].kind = "request"
    <3>1. PICK m \in Networks : T[e].callbacks = <<Probe(m)>>
      BY <2>1, <2>5 DEF Shape
    <3> DEFINE y == Probe(m)
    <3> HIDE DEF y
    <3>2. T[e].callbacks = <<y>>
      BY <3>1 DEF y
    <3>3. Waits(T, e, x) <=> x = y
      BY <3>2 DEF Waits, Among
    <3> QED BY <2>5, <3>2, <3>3
  <2> QED BY <2>1, <2>2, <2>3, <2>4, <2>5
<1>4. /\ Owed(x, {"respond"}) = Cardinality(A) + Cardinality(B)
      /\ A # {} <=> \E e \in Easy : Waits(T, e, x)
      /\ \A u, v \in A : u = v
  <2>1. \A e, f \in Easy : Waits(T, e, x) /\ Waits(T, f, x) => e = f /\ Single(T[e].callbacks, x)
    BY <1>1, <1>3 DEF ProbeInv, Single
  <2> QED BY <2>1, OwedParts
<1>5. (B # {} <=> Among(http.deferred, Respond(n))) /\ \A u, v \in B : u = v
  <2>1. "respond" \in {"fail", "respond"} /\ Respond(n) = [call |-> "respond", callback |-> x]
    BY DEF Respond, x
  <2>2. Single(http.deferred, Respond(n))
    BY <1>1 DEF ProbeInv
  <2> QED BY <2>1, <2>2, CallsOf
<1>11. A = {} \/ B = {}
  BY <1>1, <1>3, <1>4, <1>5 DEF ProbeInv
<1> HIDE DEF A, B
<1>6. Cardinality(A) = IF A = {} THEN 0 ELSE 1
  BY <1>4, OneOrNone
<1>7. Cardinality(B) = IF B = {} THEN 0 ELSE 1
  BY <1>5, OneOrNone
<1>8. Cardinality(A) \in {0, 1} /\ Cardinality(B) \in {0, 1}
  BY <1>6, <1>7
<1>9. Cardinality(A) + Cardinality(B) # 0 <=> Cardinality(A) # 0 \/ Cardinality(B) # 0
  BY <1>8
<1>10. Owed(x, {"respond"}) # 0 <=> A # {} \/ B # {}
  BY <1>4, <1>6, <1>7, <1>9
<1>12. Cardinality(A) + Cardinality(B) <= 1
  BY <1>6, <1>7, <1>11
<1> QED BY <1>3, <1>4, <1>5, <1>10, <1>12 DEF x

\* Nobody is answered twice and nobody is forgotten: a caller of HttpClient::download()
\* that waits is owed exactly one callback, and m_fetchInFlight of the address service
\* stands for exactly one answer to come.
THEOREM EveryoneOwedOnce == Spec => []OwedOnce
<1>1. ASSUME Inv PROVE OwedOnce
  <2> DEFINE N == {n \in Networks : Owed(Probe(n), {"respond"}) # 0}
             T == http.transfers
             Q == http.deferred
  <2>1. ProbeInv(T, Q, service.inFlight) /\ Shaped(T)
    BY <1>1 DEF Inv, Books
  <2>2. \A n \in N : \/ Among(Q, Respond(n))
                     \/ \E e \in Easy : T[e].kind = "request" /\ T[e].callbacks = <<Probe(n)>>
    BY <1>1, ProbeOwed
  <2>3. ASSUME NEW n \in N, NEW m \in N PROVE n = m
    <3>1. CASE Among(Q, Respond(n))
      BY <2>1, <2>2, <3>1 DEF ProbeInv
    <3>2. CASE \E e \in Easy : T[e].kind = "request" /\ T[e].callbacks = <<Probe(n)>>
      <4>1. PICK e \in Easy : T[e].kind = "request" /\ T[e].callbacks = <<Probe(n)>>
        BY <3>2
      <4>2. ~Among(Q, Respond(m))
        BY <2>1, <4>1 DEF ProbeInv
      <4>3. PICK f \in Easy : T[f].kind = "request" /\ T[f].callbacks = <<Probe(m)>>
        BY <2>2, <4>2
      <4>4. e = f
        BY <2>1, <4>1, <4>3 DEF ProbeInv
      <4>5. <<Probe(n)>> = <<Probe(m)>>
        BY <4>1, <4>3, <4>4
      <4>6. Probe(n) = Probe(m)
        BY <4>5
      <4> QED BY <4>6 DEF Probe
    <3> QED BY <2>2, <3>1, <3>2
  <2>4. N # {} <=> service.inFlight
    <3>1. ASSUME NEW n \in N PROVE service.inFlight
      BY <2>1, <2>2 DEF ProbeInv
    <3>2. ASSUME service.inFlight PROVE N # {}
      <4>1. CASE \E n \in Networks : Among(Q, Respond(n))
        BY <1>1, <4>1, ProbeOwed
      <4>2. CASE \E e \in Easy : T[e].kind = "request"
        <5>1. PICK e \in Easy : T[e].kind = "request"
          BY <4>2
        <5>2. PICK n \in Networks : T[e].callbacks = <<Probe(n)>>
          BY <2>1, <5>1 DEF Shaped, Shape
        <5> QED BY <1>1, <5>1, <5>2, ProbeOwed
      <4> QED BY <2>1, <3>2, <4>1, <4>2 DEF ProbeInv
    <3> QED BY <3>1, <3>2
  <2> HIDE DEF N
  <2>5. Cardinality(N) = IF N = {} THEN 0 ELSE 1
    BY <2>3, OneOrNone
  <2>6. Cardinality(N) = IF service.inFlight THEN 1 ELSE 0
    <3>1. CASE service.inFlight
      BY <2>4, <2>5, <3>1
    <3>2. CASE ~service.inFlight
      BY <2>4, <2>5, <3>2
    <3> QED BY <3>1, <3>2
  <2>7. \A c \in Callers : Owed(c, {"fail"}) = IF asks[c] = NoAsk THEN 0 ELSE 1
    BY <1>1, AskersOwed
  <2>8. \A n \in Networks : Owed(Probe(n), {"respond"}) <= 1
    BY <1>1, ProbeOwed
  <2> QED BY <2>6, <2>7, <2>8 DEF OwedOnce, N
<1> QED BY <1>1, Invariance, PTL

\* A stream that stopHttpStream() or stopAllHttpStreams() (src/src/scripting/luau_host.cpp)
\* has stopped is not left running, also when the stop overtakes its start.
THEOREM StoppedStreamsEnd == Spec => []StoppedIsCancelled
<1>1. ASSUME Inv PROVE StoppedIsCancelled
  <2> SUFFICES ASSUME NEW s \in Streams, Cancelled(s), Owed(s, {}) # 0
               PROVE  \/ control[s].at = "stopping" \/ starting = s
                      \/ \E i \in DOMAIN http.deferred :
                             http.deferred[i] = [call |-> "cancel", callback |-> s]
    BY DEF StoppedIsCancelled
  <2>1. InCalls(s, {}) = {}
    BY DEF InCalls
  <2>2. InTransfers(s) # {}
    <3> SUFFICES ASSUME InTransfers(s) = {} PROVE FALSE
      OBVIOUS
    <3>1. Cardinality(InTransfers(s)) = 0 /\ Cardinality(InCalls(s, {})) = 0
      BY <2>1, FS_EmptySet
    <3>2. Owed(s, {}) = Cardinality(InTransfers(s)) + Cardinality(InCalls(s, {}))
      BY <1>1, OwedParts
    <3> QED BY <3>1, <3>2
  <2>3. PICK e \in Easy : Waits(http.transfers, e, s)
    BY <1>1, <2>2, OwedParts
  <2>4. StreamOf(http.transfers, http.deferred, http.nextStream, control, starting, s)
    BY <1>1 DEF Inv, Books, StreamInv
  <2>5. control[s].at \in {"stopping", "stopped"}
    BY DEF Cancelled
  <2> QED BY <2>3, <2>4, <2>5 DEF StreamOf, Among, Cancel
<1> QED BY <1>1, Invariance, PTL

\* Every field of the client, of its callers and of the queue of deferred calls keeps its
\* type: no handle or id runs out, and no callback of one kind is taken for another.
THEOREM TypeInvariant == Spec => []TypeOK
<1>1. Inv => TypeOK
  BY DEF Inv
<1> QED BY <1>1, Invariance, PTL
=============================================================================
