--------------------- MODULE FileDialogThumbnailsProofs ---------------------
(***************************************************************************)
(* Proofs about FileDialogThumbnails: that no texture is leaked or shown   *)
(* for another file, that a key is decoded once at a time, and that a      *)
(* result is noticed.                                                      *)
(***************************************************************************)
EXTENDS FileDialogThumbnails, DataLemmas

-----------------------------------------------------------------------------
(* The cache *)

\* A handle names a texture of the context in use, of an owned key that is not being
\* decoded; no two handles name the same one, and there is no texture without.
Textured(c) ==
    /\ c.generation # 0
    /\ \A k \in Keys : c.handle[k] # NoHandle =>
          /\ c.refs[k] > 0 /\ c.manager /\ k \notin c.inFlight
          /\ c.handle[k].id \in c.textures
          /\ c.handle[k].generation = c.generation
    /\ \A j, k \in Keys : c.handle[j] # NoHandle /\ c.handle[j].id = c.handle[k].id => j = k
    /\ \A i \in c.textures : \E k \in Keys : c.handle[k] # NoHandle /\ c.handle[k].id = i

\* The owners of a key are the slots of H[k].
Counted(c, H) == \A k \in Keys : c.refs[k] = Cardinality(H[k])

\* What is in flight is queued once, or one of the keys K that are with the workers
\* or waiting for their upload.
Placed(c, K) ==
    /\ \A i, j \in 1..Len(c.queue) : c.queue[i] = c.queue[j] => i = j
    /\ \A i \in 1..Len(c.queue) : c.queue[i] \in c.inFlight /\ c.queue[i] \notin K
    /\ \A k \in c.inFlight : k \in K \/ \E i \in 1..Len(c.queue) : c.queue[i] = k
    /\ K \subseteq c.inFlight

Sound(c, H, K) == c \in CacheType /\ Textured(c) /\ Counted(c, H) /\ Placed(c, K)

\* What has a texture in c has it in d.
Keeps(c, d) == \A k \in Keys : c.handle[k] # NoHandle => d.handle[k] = c.handle[k]

LEMMA Fields ==
    ASSUME NEW c \in CacheType
    PROVE  /\ c.refs \in [Keys -> Nat] /\ c.handle \in [Keys -> Handle]
           /\ c.failed \in [Keys -> BOOLEAN]
           /\ c.inFlight \in SUBSET Keys /\ c.canceled \in SUBSET Keys
           /\ c.queue \in Seq(Keys) /\ c.manager \in BOOLEAN
           /\ c.textures \in SUBSET TextureIds /\ c.generation \in Nat
BY DEF CacheType

\* Steps that leave owners, handles and textures alone.
LEMMA SameTextures ==
    ASSUME NEW c, NEW d, Textured(c), d.refs = c.refs, d.handle = c.handle,
           d.textures = c.textures, d.generation = c.generation, d.manager = c.manager,
           \A k \in Keys : k \in d.inFlight => k \in c.inFlight \/ c.handle[k] = NoHandle
    PROVE  Textured(d)
BY DEF Textured

-----------------------------------------------------------------------------
(* acquire() and release() *)

LEMMA HolderGone ==
    ASSUME NEW c \in CacheType, NEW d, NEW H \in [Keys -> SUBSET Slots], Counted(c, H),
           NEW k \in Keys, NEW s \in H[k], d.refs = [c.refs EXCEPT ![k] = @ - 1]
    PROVE  /\ [H EXCEPT ![k] = @ \ {s}] \in [Keys -> SUBSET Slots]
           /\ Counted(d, [H EXCEPT ![k] = @ \ {s}])
           /\ c.refs[k] > 0
<1> DEFINE G == [H EXCEPT ![k] = @ \ {s}]
<1>1. G \in [Keys -> SUBSET Slots] /\ G[k] = H[k] \ {s} /\ \A j \in Keys : j # k => G[j] = H[j]
  OBVIOUS
<1> HIDE DEF G
<1>2. IsFiniteSet(H[k])
  BY DialogConstants, FS_Subset
<1>3. Cardinality(H[k]) \in Nat /\ Cardinality(H[k]) # 0
  BY <1>2, FS_CardinalityType, FS_EmptySet
<1>4. Cardinality(H[k] \ {s}) = Cardinality(H[k]) - 1
  BY <1>2, FS_RemoveElement
<1>5. d.refs[k] = c.refs[k] - 1 /\ \A j \in Keys : j # k => d.refs[j] = c.refs[j]
  BY Fields
<1>6. Counted(d, G)
  BY <1>1, <1>4, <1>5 DEF Counted
<1>7. c.refs[k] > 0
  BY <1>3 DEF Counted
<1> QED BY <1>1, <1>6, <1>7 DEF G

LEMMA HolderCame ==
    ASSUME NEW c \in CacheType, NEW d, NEW H \in [Keys -> SUBSET Slots], Counted(c, H),
           NEW k \in Keys, NEW s \in Slots, s \notin H[k], d.refs = [c.refs EXCEPT ![k] = @ + 1]
    PROVE  /\ [H EXCEPT ![k] = @ \cup {s}] \in [Keys -> SUBSET Slots]
           /\ Counted(d, [H EXCEPT ![k] = @ \cup {s}])
<1> DEFINE G == [H EXCEPT ![k] = @ \cup {s}]
<1>1. G \in [Keys -> SUBSET Slots] /\ G[k] = H[k] \cup {s} /\ \A j \in Keys : j # k => G[j] = H[j]
  OBVIOUS
<1> HIDE DEF G
<1>2. IsFiniteSet(H[k])
  BY DialogConstants, FS_Subset
<1>3. Cardinality(H[k] \cup {s}) = Cardinality(H[k]) + 1
  BY <1>2, FS_AddElement
<1>4. d.refs[k] = c.refs[k] + 1 /\ \A j \in Keys : j # k => d.refs[j] = c.refs[j]
  BY Fields
<1>5. Counted(d, G)
  BY <1>1, <1>3, <1>4 DEF Counted
<1> QED BY <1>1, <1>5 DEF G

\* The handle of a key and its texture go.
LEMMA TextureGone ==
    ASSUME NEW c \in CacheType, Textured(c), NEW k \in Keys, NEW d,
           d.handle = [c.handle EXCEPT ![k] = NoHandle],
           d.textures = IF c.handle[k] # NoHandle THEN c.textures \ {c.handle[k].id} ELSE c.textures,
           \A j \in Keys : j # k => d.refs[j] = c.refs[j],
           d.generation = c.generation, d.manager = c.manager, d.inFlight = c.inFlight
    PROVE  Textured(d)
<1>1. c.handle \in [Keys -> Handle] /\ NoHandle \in Handle
  BY Fields DEF Handle, NoHandle
<1>2. d.handle[k] = NoHandle /\ \A j \in Keys : j # k => d.handle[j] = c.handle[j]
  BY <1>1
<1>3. ASSUME NEW j \in Keys, d.handle[j] # NoHandle
      PROVE  /\ d.refs[j] > 0 /\ d.manager /\ j \notin d.inFlight
             /\ d.handle[j].id \in d.textures /\ d.handle[j].generation = d.generation
  <2>1. j # k /\ c.handle[j] # NoHandle /\ d.handle[j] = c.handle[j]
    BY <1>2, <1>3
  <2>2. c.handle[k] # NoHandle => c.handle[j].id # c.handle[k].id
    BY <2>1 DEF Textured
  <2> QED BY <2>1, <2>2 DEF Textured
<1>4. ASSUME NEW j \in Keys, NEW i \in Keys, d.handle[j] # NoHandle, d.handle[j].id = d.handle[i].id
      PROVE  j = i
  <2>1. j # k /\ c.handle[j] # NoHandle /\ d.handle[j] = c.handle[j]
    BY <1>2, <1>4
  <2>2. CASE i = k
    <3>1. d.handle[i].id = 0
      BY <1>2, <2>2 DEF NoHandle
    <3>2. c.handle[j].id \in TextureIds
      BY <2>1, Fields DEF Textured
    <3>3. 0 \notin TextureIds
      BY DEF TextureIds
    <3> QED BY <1>4, <2>1, <3>1, <3>2, <3>3
  <2>3. CASE i # k
    BY <1>2, <1>4, <2>1, <2>3 DEF Textured
  <2> QED BY <2>2, <2>3
<1>5. ASSUME NEW i \in d.textures
      PROVE  \E j \in Keys : d.handle[j] # NoHandle /\ d.handle[j].id = i
  <2>1. i \in c.textures /\ (c.handle[k] # NoHandle => i # c.handle[k].id)
    BY <1>5
  <2>2. PICK j \in Keys : c.handle[j] # NoHandle /\ c.handle[j].id = i
    BY <2>1 DEF Textured
  <2>3. j # k
    BY <2>1, <2>2
  <2> QED BY <1>2, <2>2, <2>3
<1>6. d.generation # 0
  BY DEF Textured
<1> QED BY <1>3, <1>4, <1>5, <1>6 DEF Textured

\* release() of a key by a slot that owns it.
LEMMA ReleaseSound ==
    ASSUME NEW c, NEW K, NEW H \in [Keys -> SUBSET Slots], Sound(c, H, K),
           NEW k \in Keys, NEW s \in H[k]
    PROVE  /\ Sound(Release(c, k), [H EXCEPT ![k] = @ \ {s}], K)
           /\ [H EXCEPT ![k] = @ \ {s}] \in [Keys -> SUBSET Slots]
           /\ \A j \in Keys : j # k \/ H[k] # {s} => Release(c, k).handle[j] = c.handle[j]
           /\ Release(c, k).queue = c.queue /\ Release(c, k).inFlight = c.inFlight
<1> DEFINE d == Release(c, k)
           G == [H EXCEPT ![k] = @ \ {s}]
<1>0. c \in CacheType /\ Textured(c) /\ Counted(c, H) /\ Placed(c, K)
  BY DEF Sound
<1>1. c.refs[k] > 0 /\ c.refs[k] \in Nat
  <2>1. [c EXCEPT !.refs = [c.refs EXCEPT ![k] = @ - 1]].refs = [c.refs EXCEPT ![k] = @ - 1]
    BY <1>0 DEF CacheType
  <2>2. c.refs[k] > 0
    BY <1>0, <2>1, HolderGone
  <2> QED BY <1>0, <2>2, Fields
<1>2. CASE c.refs[k] > 1
  <2>1. d = [c EXCEPT !.refs[k] = @ - 1]
    BY <1>1, <1>2 DEF Release
  <2>2. /\ d \in CacheType /\ d.refs = [c.refs EXCEPT ![k] = @ - 1] /\ d.handle = c.handle
        /\ d.textures = c.textures /\ d.generation = c.generation /\ d.manager = c.manager
        /\ d.inFlight = c.inFlight /\ d.queue = c.queue
    <3> DEFINE r == [c.refs EXCEPT ![k] = @ - 1]
    <3>1. r \in [Keys -> Nat]
      BY <1>0, <1>1, <1>2, Fields
    <3>2. d = [c EXCEPT !.refs = r]
      BY <2>1
    <3> HIDE DEF r, d
    <3>3. /\ d \in CacheType /\ d.refs = r /\ d.handle = c.handle
          /\ d.textures = c.textures /\ d.generation = c.generation /\ d.manager = c.manager
          /\ d.inFlight = c.inFlight /\ d.queue = c.queue
      BY <1>0, <3>1, <3>2 DEF CacheType
    <3> QED BY <3>3 DEF r
  <2> HIDE DEF d
  <2>3. \A j \in Keys : c.handle[j] # NoHandle => d.refs[j] > 0
    <3>1. d.refs[k] > 0 /\ \A j \in Keys : j # k => d.refs[j] = c.refs[j]
      BY <1>0, <1>1, <1>2, <2>2, Fields
    <3> QED BY <1>0, <3>1 DEF Textured
  <2>4. Textured(d)
    BY <1>0, <2>2, <2>3 DEF Textured
  <2>5. Placed(d, K)
    BY <1>0, <2>2 DEF Placed
  <2>6. Counted(d, G) /\ G \in [Keys -> SUBSET Slots]
    BY <1>0, <2>2, HolderGone
  <2> QED BY <2>2, <2>4, <2>5, <2>6 DEF Sound, d
<1>3. CASE c.refs[k] = 1
  <2>1. H[k] = {s}
    <3>1. IsFiniteSet(H[k]) /\ Cardinality(H[k]) = 1
      BY <1>0, <1>3, DialogConstants, FS_Subset DEF Counted
    <3>2. PICK x : H[k] = {x}
      BY <3>1, FS_Singleton
    <3> QED BY <3>2
  <2>2. c.handle[k] # NoHandle => c.manager /\ c.handle[k].generation = c.generation
    BY <1>0 DEF Textured
  <2>3. c.handle[k] = NoHandle => c.handle[k].generation # c.generation
    BY <1>0 DEF Textured, NoHandle
  <2> DEFINE u == IF c.manager THEN Unload(c, k) ELSE c
  <2>4. /\ u \in CacheType /\ u.refs = c.refs /\ u.failed = c.failed
        /\ u.handle = [c.handle EXCEPT ![k] = NoHandle]
        /\ u.textures = IF c.handle[k] # NoHandle THEN c.textures \ {c.handle[k].id} ELSE c.textures
        /\ u.generation = c.generation /\ u.manager = c.manager
        /\ u.inFlight = c.inFlight /\ u.queue = c.queue /\ u.canceled = c.canceled
    <3>1. c.handle \in [Keys -> Handle] /\ NoHandle \in Handle
      BY <1>0, Fields DEF Handle, NoHandle
    <3>2. CASE c.manager
      <4>1. u = [c EXCEPT !.textures = IF c.handle[k].generation = c.generation
                                       THEN @ \ {c.handle[k].id} ELSE @,
                          !.handle[k] = NoHandle]
        BY <3>2 DEF Unload
      <4>2. (IF c.handle[k].generation = c.generation THEN c.textures \ {c.handle[k].id} ELSE c.textures)
              = IF c.handle[k] # NoHandle THEN c.textures \ {c.handle[k].id} ELSE c.textures
        BY <2>2, <2>3
      <4> HIDE DEF u
      <4> QED BY <1>0, <3>1, <4>1, <4>2 DEF CacheType
    <3>3. CASE ~c.manager
      <4>1. c.handle[k] = NoHandle
        BY <2>2, <3>3
      <4>2. [c.handle EXCEPT ![k] = NoHandle] = c.handle
        BY <3>1, <4>1
      <4>3. u = c
        BY <3>3
      <4> HIDE DEF u
      <4> QED BY <1>0, <4>1, <4>2, <4>3
    <3> QED BY <3>2, <3>3
  <2>5. d = [u EXCEPT !.refs[k] = 0, !.handle[k] = NoHandle, !.failed[k] = FALSE,
                      !.canceled = IF k \in c.inFlight THEN @ \cup {k} ELSE @]
    BY <1>1, <1>3 DEF Release
  <2> HIDE DEF u
  <2>6. /\ d \in CacheType
        /\ d.refs = [c.refs EXCEPT ![k] = 0] /\ d.handle = [c.handle EXCEPT ![k] = NoHandle]
        /\ d.textures = u.textures /\ d.generation = c.generation /\ d.manager = c.manager
        /\ d.inFlight = c.inFlight /\ d.queue = c.queue
    <3>1. NoHandle \in Handle
      BY DEF Handle, NoHandle
    <3>2. [u.handle EXCEPT ![k] = NoHandle] = [c.handle EXCEPT ![k] = NoHandle]
      BY <1>0, <2>4, Fields
    <3> DEFINE r == [c.refs EXCEPT ![k] = 0]
               h == [c.handle EXCEPT ![k] = NoHandle]
               f == [u.failed EXCEPT ![k] = FALSE]
               x == IF k \in c.inFlight THEN u.canceled \cup {k} ELSE u.canceled
    <3>3. r \in [Keys -> Nat] /\ h \in [Keys -> Handle] /\ f \in [Keys -> BOOLEAN] /\ x \in SUBSET Keys
      BY <1>0, <2>4, <3>1, Fields
    <3>4. d = [u EXCEPT !.refs = r, !.handle = h, !.failed = f, !.canceled = x]
      BY <2>4, <2>5, <3>2
    <3> HIDE DEF r, h, f, x, d
    <3>5. /\ d \in CacheType /\ d.refs = r /\ d.handle = h
          /\ d.textures = u.textures /\ d.generation = u.generation /\ d.manager = u.manager
          /\ d.inFlight = u.inFlight /\ d.queue = u.queue
      BY <2>4, <3>3, <3>4 DEF CacheType
    <3> QED BY <2>4, <3>5 DEF r, h
  <2> HIDE DEF d
  <2>7. d.refs = [c.refs EXCEPT ![k] = @ - 1]
    BY <1>3, <2>6
  <2>8. \A j \in Keys : j # k => d.refs[j] = c.refs[j] /\ d.handle[j] = c.handle[j]
    BY <1>0, <2>6, Fields
  <2>9. Textured(d)
    <3>1. d.textures = IF c.handle[k] # NoHandle THEN c.textures \ {c.handle[k].id} ELSE c.textures
      BY <2>4, <2>6
    <3>2. \A j \in Keys : j # k => d.refs[j] = c.refs[j]
      BY <2>8
    <3> QED BY <1>0, <2>6, <3>1, <3>2, TextureGone
  <2>10. Placed(d, K)
    BY <1>0, <2>6 DEF Placed
  <2>11. Counted(d, G) /\ G \in [Keys -> SUBSET Slots]
    BY <1>0, <2>7, HolderGone
  <2> QED BY <2>1, <2>6, <2>8, <2>9, <2>10, <2>11 DEF Sound, d
<1> QED BY <1>1, <1>2, <1>3

\* acquire() of a key by a slot that does not own it.
LEMMA AcquireSound ==
    ASSUME NEW c, NEW K, NEW H \in [Keys -> SUBSET Slots], Sound(c, H, K),
           NEW k \in Keys, NEW s \in Slots, s \notin H[k]
    PROVE  /\ Sound(Acquire(c, k), [H EXCEPT ![k] = @ \cup {s}], K)
           /\ [H EXCEPT ![k] = @ \cup {s}] \in [Keys -> SUBSET Slots]
           /\ Acquire(c, k).handle = c.handle
<1> DEFINE d == Acquire(c, k)
           G == [H EXCEPT ![k] = @ \cup {s}]
           o == [c EXCEPT !.refs[k] = @ + 1]
<1>0. c \in CacheType /\ Textured(c) /\ Counted(c, H) /\ Placed(c, K)
  BY DEF Sound
<1>1. c.refs \in [Keys -> Nat] /\ c.refs[k] \in Nat
  BY <1>0, Fields
<1>2. /\ o \in CacheType /\ o.refs = [c.refs EXCEPT ![k] = @ + 1] /\ o.handle = c.handle
      /\ o.textures = c.textures /\ o.generation = c.generation /\ o.manager = c.manager
      /\ o.inFlight = c.inFlight /\ o.queue = c.queue /\ o.canceled = c.canceled
  <2> DEFINE r == [c.refs EXCEPT ![k] = @ + 1]
  <2>1. r \in [Keys -> Nat]
    BY <1>1
  <2>2. o = [c EXCEPT !.refs = r]
    OBVIOUS
  <2> HIDE DEF r, o
  <2>3. /\ o \in CacheType /\ o.refs = r /\ o.handle = c.handle
        /\ o.textures = c.textures /\ o.generation = c.generation /\ o.manager = c.manager
        /\ o.inFlight = c.inFlight /\ o.queue = c.queue /\ o.canceled = c.canceled
    BY <1>0, <2>1, <2>2 DEF CacheType
  <2> QED BY <2>3 DEF r
<1> HIDE DEF o
<1>3. Textured(o)
  <2>1. \A j \in Keys : c.refs[j] > 0 => o.refs[j] > 0
    BY <1>1, <1>2
  <2> QED BY <1>0, <1>2, <2>1 DEF Textured
<1>4. Placed(o, K)
  BY <1>0, <1>2 DEF Placed
<1>5. Counted(o, G) /\ G \in [Keys -> SUBSET Slots]
  BY <1>0, <1>2, HolderCame
<1>6. Sound(o, G, K)
  BY <1>2, <1>3, <1>4, <1>5 DEF Sound
<1>7. CASE c.handle[k] # NoHandle \/ c.failed[k]
  <2>1. d = o
    BY <1>7 DEF Acquire, o
  <2> HIDE DEF d, G
  <2> QED BY <1>2, <1>5, <1>6, <2>1 DEF d, G
<1>8. CASE ~(c.handle[k] # NoHandle \/ c.failed[k])
  <2>1. d = [o EXCEPT !.canceled = @ \ {k}, !.inFlight = @ \cup {k},
                      !.queue = IF k \in o.inFlight THEN @ ELSE Append(@, k)]
    BY <1>8 DEF Acquire, EnqueueDecodeIfNeeded, o
  <2>2. /\ d.refs = o.refs /\ d.handle = c.handle /\ d.textures = o.textures
        /\ d.generation = o.generation /\ d.manager = o.manager
        /\ d.inFlight = c.inFlight \cup {k}
        /\ d.queue = IF k \in c.inFlight THEN c.queue ELSE Append(c.queue, k)
        /\ d \in CacheType
    <3>1. o.queue \in Seq(Keys) /\ Append(o.queue, k) \in Seq(Keys)
      BY <1>2, Fields, AppendProperties
    <3> DEFINE q == IF k \in o.inFlight THEN o.queue ELSE Append(o.queue, k)
               f == c.inFlight \cup {k}
               x == c.canceled \ {k}
    <3>2. q \in Seq(Keys) /\ f \in SUBSET Keys /\ x \in SUBSET Keys
      BY <1>0, <3>1, Fields
    <3>3. d = [o EXCEPT !.canceled = x, !.inFlight = f, !.queue = q]
      BY <1>2, <2>1
    <3>4. q = IF k \in c.inFlight THEN c.queue ELSE Append(c.queue, k)
      BY <1>2
    <3> HIDE DEF q, f, x, d
    <3>5. /\ d \in CacheType /\ d.refs = o.refs /\ d.handle = o.handle
          /\ d.textures = o.textures /\ d.generation = o.generation /\ d.manager = o.manager
          /\ d.inFlight = f /\ d.queue = q
      BY <1>2, <3>2, <3>3 DEF CacheType
    <3> QED BY <1>2, <3>4, <3>5 DEF f
  <2> HIDE DEF d
  <2>3. Textured(d)
    BY <1>2, <1>3, <1>8, <2>2, SameTextures
  <2>4. Counted(d, G)
    BY <1>5, <2>2 DEF Counted
  <2>5. Placed(d, K)
    <3>1. CASE k \in c.inFlight
      <4>1. d.inFlight = c.inFlight /\ d.queue = c.queue
        BY <2>2, <3>1
      <4> QED BY <1>0, <4>1 DEF Placed
    <3>2. CASE k \notin c.inFlight
      <4> DEFINE q == c.queue
                 n == Len(q)
      <4>1. /\ n \in Nat /\ Len(d.queue) = n + 1
            /\ \A i \in 1..n : d.queue[i] = q[i]
            /\ d.queue[n + 1] = k
        BY <1>0, <2>2, <3>2, Fields, AppendProperties, LenProperties
      <4>2. \A i \in 1..n : q[i] # k
        BY <1>0, <3>2 DEF Placed
      <4>3. k \notin K
        BY <1>0, <3>2 DEF Placed
      <4>4. \A i \in 1..Len(d.queue) : i \in 1..n \/ i = n + 1
        BY <4>1
      <4>5. n + 1 \in 1..Len(d.queue) /\ \A i \in 1..n : i \in 1..Len(d.queue)
        BY <4>1
      <4>6. d.inFlight = c.inFlight \cup {k}
        BY <2>2
      <4>7. /\ \A i, j \in 1..n : q[i] = q[j] => i = j
            /\ \A i \in 1..n : q[i] \in c.inFlight /\ q[i] \notin K
            /\ \A j \in c.inFlight : j \in K \/ \E i \in 1..n : q[i] = j
            /\ K \subseteq c.inFlight
        BY <1>0 DEF Placed
      <4> HIDE DEF q, n
      <4>8. \A i, j \in 1..Len(d.queue) : d.queue[i] = d.queue[j] => i = j
        BY <4>1, <4>2, <4>4, <4>7
      <4>9. \A i \in 1..Len(d.queue) : d.queue[i] \in d.inFlight /\ d.queue[i] \notin K
        BY <4>1, <4>3, <4>4, <4>6, <4>7
      <4>10. \A j \in d.inFlight : j \in K \/ \E i \in 1..Len(d.queue) : d.queue[i] = j
        BY <4>1, <4>5, <4>6, <4>7
      <4> QED BY <4>6, <4>7, <4>8, <4>9, <4>10 DEF Placed
    <3> QED BY <3>1, <3>2
  <2> QED BY <1>5, <2>2, <2>3, <2>4, <2>5 DEF Sound, d
<1> QED BY <1>7, <1>8

-----------------------------------------------------------------------------
(* uploadPending() *)

\* The textures are no more than the keys, so there is one more number.
LEMMA TextureIsFree ==
    ASSUME NEW c \in CacheType, Textured(c)
    PROVE  FreeTexture(c) \in TextureIds \ c.textures
<1> DEFINE S == TextureIds \ c.textures
           n == Cardinality(Keys)
<1>1. n \in Nat /\ IsFiniteSet(Keys)
  BY ThumbnailConstants, FS_CardinalityType
<1>2. IsFiniteSet(TextureIds) /\ Cardinality(TextureIds) = n + 1
  <2> DEFINE m == n + 1
  <2>1. m \in Int /\ 1 \in Int /\ ~(1 > m) /\ m - 1 + 1 = m
    BY <1>1
  <2>2. TextureIds = 1..m
    BY DEF TextureIds
  <2> HIDE DEF m
  <2>3. IsFiniteSet(1..m) /\ Cardinality(1..m) = IF 1 > m THEN 0 ELSE m - 1 + 1
    BY <2>1, FS_Interval
  <2>4. IsFiniteSet(1..m) /\ Cardinality(1..m) = m
    BY <2>1, <2>3
  <2> QED BY <2>2, <2>4 DEF m
<1>3. c.textures \in SUBSET TextureIds
  BY Fields
<1>4. Cardinality(c.textures) <= n
  <2> DEFINE g == [i \in c.textures |-> CHOOSE k \in Keys : c.handle[k] # NoHandle /\ c.handle[k].id = i]
  <2>1. \A i \in c.textures : g[i] \in Keys /\ c.handle[g[i]].id = i
    <3>1. \A i \in c.textures : \E k \in Keys : c.handle[k] # NoHandle /\ c.handle[k].id = i
      BY DEF Textured
    <3> QED BY <3>1
  <2>2. g \in [c.textures -> Keys]
    BY <2>1
  <2> HIDE DEF g
  <2>3. \A i, j \in c.textures : g[i] = g[j] => i = j
    BY <2>1
  <2>4. g \in Injection(c.textures, Keys)
    BY <2>2, <2>3 DEF Injection, IsInjective
  <2> QED BY <1>1, <2>4, FS_Injection
<1>5. S # {}
  <2> SUFFICES ASSUME S = {} PROVE FALSE
    OBVIOUS
  <2>1. c.textures = TextureIds
    BY <1>3
  <2> QED BY <1>1, <1>2, <1>4, <2>1
<1>6. S \in SUBSET Nat
  BY <1>1 DEF TextureIds
<1> HIDE DEF S
<1>7. \E i \in S : \A j \in S : i <= j
  BY <1>5, <1>6, MinIsLeast
<1>8. FreeTexture(c) \in S
  BY <1>7 DEF FreeTexture, S
<1> QED BY <1>8 DEF S

\* The texture i is given to a key that has none.
LEMMA TextureCame ==
    ASSUME NEW c \in CacheType, NEW d, Textured(c), NEW k \in Keys, NEW i \in TextureIds \ c.textures,
           c.handle[k] = NoHandle, c.refs[k] > 0, d.manager, k \notin d.inFlight,
           d.refs = c.refs, d.generation = c.generation, c.manager,
           d.inFlight \subseteq c.inFlight,
           d.textures = c.textures \cup {i},
           d.handle = [c.handle EXCEPT ![k] = [id |-> i, generation |-> c.generation]]
    PROVE  Textured(d)
<1> DEFINE h == [id |-> i, generation |-> c.generation]
<1>1. h # NoHandle /\ h.id = i /\ h.generation = c.generation
  BY DEF NoHandle, Textured
<1>2. c.handle \in [Keys -> Handle] /\ 0 \notin TextureIds
  BY Fields DEF TextureIds
<1>3. d.handle[k] = h /\ \A j \in Keys : j # k => d.handle[j] = c.handle[j]
  BY <1>2
<1> HIDE DEF h
<1>4. ASSUME NEW j \in Keys, d.handle[j] # NoHandle
      PROVE  /\ d.refs[j] > 0 /\ d.manager /\ j \notin d.inFlight
             /\ d.handle[j].id \in d.textures /\ d.handle[j].generation = d.generation
  <2>1. CASE j = k
    BY <1>1, <1>3, <2>1
  <2>2. CASE j # k
    BY <1>3, <1>4, <2>2 DEF Textured
  <2> QED BY <2>1, <2>2
<1>5. ASSUME NEW j \in Keys, NEW l \in Keys, d.handle[j] # NoHandle, d.handle[j].id = d.handle[l].id
      PROVE  j = l
  <2>1. \A m \in Keys : m # k => d.handle[m].id # i
    <3> TAKE m \in Keys
    <3> HAVE m # k
    <3>1. CASE c.handle[m] = NoHandle
      <4>1. c.handle[m].id = 0
        BY <3>1 DEF NoHandle
      <4> QED BY <1>2, <1>3, <4>1
    <3>2. CASE c.handle[m] # NoHandle
      BY <1>3, <3>2 DEF Textured
    <3> QED BY <3>1, <3>2
  <2>2. CASE j = k
    BY <1>1, <1>3, <1>5, <2>1, <2>2
  <2>3. CASE j # k /\ l = k
    BY <1>1, <1>3, <1>5, <2>1, <2>3
  <2>4. CASE j # k /\ l # k
    BY <1>3, <1>5, <2>4 DEF Textured
  <2> QED BY <2>2, <2>3, <2>4
<1>6. ASSUME NEW m \in d.textures
      PROVE  \E j \in Keys : d.handle[j] # NoHandle /\ d.handle[j].id = m
  <2>1. CASE m = i
    BY <1>1, <1>3, <2>1
  <2>2. CASE m \in c.textures
    <3>1. PICK j \in Keys : c.handle[j] # NoHandle /\ c.handle[j].id = m
      BY <2>2 DEF Textured
    <3>2. j # k
      BY <3>1
    <3> QED BY <1>3, <3>1, <3>2
  <2> QED BY <2>1, <2>2
<1>7. d.generation # 0
  BY DEF Textured
<1> QED BY <1>4, <1>5, <1>6, <1>7 DEF Textured

\* A result comes to its end: the key is not in flight any more.
LEMMA LandedSound ==
    ASSUME NEW c, NEW K, NEW H, Sound(c, H, K), NEW k \in K, k \in Keys
    PROVE  /\ Sound(Landed(c, k), H, K \ {k})
           /\ Landed(c, k).handle = c.handle /\ Landed(c, k).refs = c.refs
           /\ Landed(c, k).manager = c.manager /\ k \notin Landed(c, k).inFlight
           /\ c.handle[k] = NoHandle
<1> DEFINE d == Landed(c, k)
           f == c.inFlight \ {k}
           x == c.canceled \ {k}
<1>0. c \in CacheType /\ Textured(c) /\ Counted(c, H) /\ Placed(c, K)
  BY DEF Sound
<1>1. d = [c EXCEPT !.inFlight = f, !.canceled = x]
  BY DEF Landed
<1>2. f \in SUBSET Keys /\ x \in SUBSET Keys
  BY <1>0, Fields
<1>f. f = c.inFlight \ {k}
  OBVIOUS
<1> HIDE DEF d, f, x
<1>3. /\ d \in CacheType /\ d.refs = c.refs /\ d.handle = c.handle
      /\ d.textures = c.textures /\ d.generation = c.generation /\ d.manager = c.manager
      /\ d.inFlight = f /\ d.queue = c.queue
  BY <1>0, <1>1, <1>2 DEF CacheType
<1>4. Textured(d)
  BY <1>0, <1>3, <1>f, SameTextures
<1>5. Placed(d, K \ {k})
  BY <1>0, <1>3, <1>f DEF Placed
<1>6. Counted(d, H)
  BY <1>0, <1>3 DEF Counted
<1>7. c.handle[k] = NoHandle
  BY <1>0 DEF Textured, Placed
<1> QED BY <1>3, <1>4, <1>5, <1>6, <1>7, <1>f DEF Sound, d

\* One result: only its key may get a texture, and had none.
LEMMA UploadOneSound ==
    ASSUME NEW up, NEW K, NEW H, Sound(up.cache, H, K), up.cache.manager, up.changed \in BOOLEAN,
           NEW job \in DecodedJob, job.key \in K, NEW refused,
           NEW r, r = UploadOne(up, job, refused)
    PROVE  /\ Sound(r.cache, H, K \ {job.key})
           /\ r.cache.manager /\ r.changed \in BOOLEAN
           /\ Keeps(up.cache, r.cache)
<1> DEFINE k == job.key
           l == Landed(up.cache, k)
<1>1. k \in Keys
  BY DEF DecodedJob
<1>2. /\ Sound(l, H, K \ {k})
      /\ l.handle = up.cache.handle /\ l.refs = up.cache.refs
      /\ l.manager = up.cache.manager /\ k \notin l.inFlight
      /\ up.cache.handle[k] = NoHandle
  BY <1>1, LandedSound
<1>3. l \in CacheType /\ Textured(l) /\ Counted(l, H) /\ Placed(l, K \ {k})
  BY <1>2 DEF Sound
<1>4. CASE Dropped(up.cache, k)
  <2>1. r = [up EXCEPT !.cache = l]
    BY <1>4 DEF UploadOne
  <2>2. r.cache = l /\ r.changed = up.changed
    BY <1>4 DEF UploadOne
  <2> HIDE DEF l
  <2> QED BY <1>2, <2>2 DEF Keeps
<1>5. CASE ~Dropped(up.cache, k) /\ (~job.ok \/ k \in refused)
  <2> DEFINE f == [l.failed EXCEPT ![k] = TRUE]
             d == [l EXCEPT !.failed = f]
  <2>1. r.cache = d /\ r.changed = TRUE
    BY <1>5 DEF UploadOne
  <2>2. f \in [Keys -> BOOLEAN]
    BY <1>1, <1>3, Fields
  <2> HIDE DEF f, l
  <2>3. /\ d \in CacheType /\ d.refs = l.refs /\ d.handle = l.handle
        /\ d.textures = l.textures /\ d.generation = l.generation /\ d.manager = l.manager
        /\ d.inFlight = l.inFlight /\ d.queue = l.queue
    BY <1>3, <2>2 DEF CacheType
  <2> HIDE DEF d
  <2>4. Textured(d)
    BY <1>3, <2>3, SameTextures
  <2>5. Placed(d, K \ {k}) /\ Counted(d, H)
    BY <1>3, <2>3 DEF Placed, Counted
  <2>6. Sound(d, H, K \ {k})
    BY <2>3, <2>4, <2>5 DEF Sound
  <2> QED BY <1>2, <2>1, <2>3, <2>6 DEF Keeps
<1>6. CASE ~Dropped(up.cache, k) /\ ~(~job.ok \/ k \in refused)
  <2> DEFINE i == FreeTexture(l)
             d == LoadFromRgba(l, k)
             f == [l.failed EXCEPT ![k] = FALSE]
             h == [l.handle EXCEPT ![k] = [id |-> i, generation |-> l.generation]]
             t == l.textures \cup {i}
  <2>1. r.cache = d /\ r.changed = TRUE
    BY <1>6 DEF UploadOne
  <2>2. i \in TextureIds \ l.textures
    BY <1>3, TextureIsFree
  <2>3. l.handle[k] = NoHandle /\ l.handle[k].generation # l.generation
    BY <1>2, <1>3 DEF Textured, NoHandle
  <2>4. l.refs[k] > 0
    <3>1. l.refs[k] # 0 /\ l.refs[k] \in Nat
      BY <1>1, <1>2, <1>3, <1>6, Fields DEF Dropped
    <3> QED BY <3>1
  <2>5. d = [Unload(l, k) EXCEPT !.textures = @ \cup {i},
                                 !.handle[k] = [id |-> i, generation |-> l.generation],
                                 !.failed[k] = FALSE]
    BY DEF LoadFromRgba
  <2>6. Unload(l, k) = l
    <3> DEFINE n == [l.handle EXCEPT ![k] = NoHandle]
    <3>0. l.handle \in [Keys -> Handle]
      BY <1>3, Fields
    <3>1. n = l.handle
      BY <2>3, <3>0
    <3>2. Unload(l, k) = [l EXCEPT !.textures = l.textures, !.handle = n]
      BY <2>3 DEF Unload
    <3> HIDE DEF n, l
    <3> QED BY <1>3, <3>1, <3>2 DEF CacheType
  <2>7. d = [l EXCEPT !.textures = t, !.handle = h, !.failed = f]
    BY <2>5, <2>6
  <2>8. t \in SUBSET TextureIds /\ h \in [Keys -> Handle] /\ f \in [Keys -> BOOLEAN]
    <3>1. [id |-> i, generation |-> l.generation] \in Handle
      BY <1>3, <2>2, Fields DEF Handle
    <3> HIDE DEF l, i
    <3> QED BY <1>3, <2>2, <3>1, Fields
  <2>9. t = l.textures \cup {i} /\ h = [l.handle EXCEPT ![k] = [id |-> i, generation |-> l.generation]]
    OBVIOUS
  <2> HIDE DEF d, t, h, f, i, l
  <2>10. /\ d \in CacheType /\ d.refs = l.refs /\ d.handle = h
         /\ d.textures = t /\ d.generation = l.generation /\ d.manager = l.manager
         /\ d.inFlight = l.inFlight /\ d.queue = l.queue
    BY <1>3, <2>7, <2>8 DEF CacheType
  <2>11. Textured(d)
    BY <1>1, <1>2, <1>3, <2>2, <2>3, <2>4, <2>9, <2>10, TextureCame
  <2>12. Placed(d, K \ {k}) /\ Counted(d, H)
    BY <1>3, <2>10 DEF Placed, Counted
  <2>13. \A j \in Keys : j # k => d.handle[j] = l.handle[j]
    BY <1>3, <2>9, <2>10, Fields
  <2>14. Sound(d, H, K \ {k})
    BY <2>10, <2>11, <2>12 DEF Sound
  <2> QED BY <1>2, <2>1, <2>10, <2>13, <2>14 DEF Keeps
<1> QED BY <1>4, <1>5, <1>6

\* uploadPending() takes the results one after the other.
LEMMA UploadRun ==
    ASSUME NEW c, NEW jobs, Len(jobs) \in Nat, NEW refused
    PROVE  \E after :
              /\ after[0] = [cache |-> [c EXCEPT !.manager = TRUE], changed |-> FALSE]
              /\ \A i \in 1..Len(jobs) : after[i] = UploadOne(after[i - 1], jobs[i], refused)
              /\ UploadPending(c, jobs, refused) = after[Len(jobs)]
<1> DEFINE base == [cache |-> [c EXCEPT !.manager = TRUE], changed |-> FALSE]
           n == Len(jobs)
           Run(f, m) == f = [i \in 0..m |-> IF i = 0 THEN base ELSE UploadOne(f[i - 1], jobs[i], refused)]
           T == {m \in Nat : \E f : Run(f, m)}
<1>1. 0 \in T
  <2> DEFINE f == [i \in 0..0 |-> base]
  <2>1. Run(f, 0)
    OBVIOUS
  <2> QED BY <2>1
<1>2. \A m \in Nat : m \in T => m + 1 \in T
  <2> SUFFICES ASSUME NEW m \in Nat, m \in T PROVE m + 1 \in T
    OBVIOUS
  <2>1. PICK f : Run(f, m)
    OBVIOUS
  <2> DEFINE g == [i \in 0..(m + 1) |-> IF i = m + 1 THEN UploadOne(f[m], jobs[m + 1], refused) ELSE f[i]]
  <2> HIDE DEF base
  <2>2. \A i \in 0..m : g[i] = f[i]
    OBVIOUS
  <2>3. ASSUME NEW i \in 0..(m + 1)
        PROVE  g[i] = IF i = 0 THEN base ELSE UploadOne(g[i - 1], jobs[i], refused)
    <3>1. CASE i = m + 1
      <4>1. g[i - 1] = f[m] /\ i # 0
        BY <2>2, <3>1
      <4> QED BY <3>1, <4>1
    <3>2. CASE i # m + 1
      <4>1. i \in 0..m /\ (i # 0 => i - 1 \in 0..m)
        BY <3>2
      <4>2. f[i] = IF i = 0 THEN base ELSE UploadOne(f[i - 1], jobs[i], refused)
        BY <2>1, <4>1
      <4> QED BY <2>2, <4>1, <4>2
    <3> QED BY <3>1, <3>2
  <2>4. Run(g, m + 1)
    BY <2>3
  <2> HIDE DEF Run, g
  <2>5. \E h : Run(h, m + 1)
    BY <2>4
  <2> QED BY <2>5
<1> HIDE DEF T
<1>3. n \in T
  BY <1>1, <1>2, Counting
<1> DEFINE after == CHOOSE f : Run(f, n)
<1>4. Run(after, n)
  <2>1. \E f : Run(f, n)
    BY <1>3 DEF T
  <2> HIDE DEF Run
  <2> QED BY <2>1
<1>5. UploadPending(c, jobs, refused) = after[n]
  BY DEF UploadPending
<1> HIDE DEF after, base
<1>6. after[0] = base /\ \A i \in 1..n : after[i] = UploadOne(after[i - 1], jobs[i], refused)
  <2>1. \A i \in 0..n : after[i] = IF i = 0 THEN base ELSE UploadOne(after[i - 1], jobs[i], refused)
    BY <1>4
  <2> QED BY <2>1
<1> QED BY <1>5, <1>6 DEF base

KeysOf(jobs, i) == {jobs[j].key : j \in 1..i}

\* All results: their keys, each of which waits for one upload, are not in flight any
\* more, and what had a texture keeps it.
LEMMA UploadSound ==
    ASSUME NEW c, NEW K, NEW H, Sound(c, H, K), NEW jobs \in Seq(DecodedJob), NEW refused,
           \A i \in 1..Len(jobs) : jobs[i].key \in K,
           \A i, j \in 1..Len(jobs) : jobs[i].key = jobs[j].key => i = j,
           NEW r, r = UploadPending(c, jobs, refused)
    PROVE  /\ Sound(r.cache, H, K \ KeysOf(jobs, Len(jobs)))
           /\ r.changed \in BOOLEAN
           /\ Keeps(c, r.cache)
<1> DEFINE n == Len(jobs)
           b == [c EXCEPT !.manager = TRUE]
<1>1. n \in Nat /\ \A i \in 1..n : jobs[i] \in DecodedJob
  BY LenProperties, ElementOfSeq
<1>2. PICK after :
          /\ after[0] = [cache |-> b, changed |-> FALSE]
          /\ \A i \in 1..n : after[i] = UploadOne(after[i - 1], jobs[i], refused)
          /\ UploadPending(c, jobs, refused) = after[n]
  BY <1>1, UploadRun
<1> DEFINE Good(i) == /\ Sound(after[i].cache, H, K \ KeysOf(jobs, i))
                      /\ after[i].cache.manager /\ after[i].changed \in BOOLEAN
                      /\ Keeps(c, after[i].cache)
           T == {i \in 0..n : Good(i)}
<1>3. Good(0)
  <2>0. c \in CacheType /\ Textured(c) /\ Counted(c, H) /\ Placed(c, K)
    BY DEF Sound
  <2>1. /\ b \in CacheType /\ b.refs = c.refs /\ b.handle = c.handle
        /\ b.textures = c.textures /\ b.generation = c.generation /\ b.manager = TRUE
        /\ b.inFlight = c.inFlight /\ b.queue = c.queue
    BY <2>0 DEF CacheType
  <2> HIDE DEF b
  <2>2. Textured(b) /\ Placed(b, K) /\ Counted(b, H)
    BY <2>0, <2>1 DEF Textured, Placed, Counted
  <2>3. K \ KeysOf(jobs, 0) = K
    BY DEF KeysOf
  <2>4. after[0].cache = b /\ after[0].changed = FALSE
    BY <1>2
  <2>5. Sound(b, H, K)
    BY <2>1, <2>2 DEF Sound
  <2>6. Keeps(c, b)
    BY <2>1 DEF Keeps
  <2> QED BY <2>1, <2>3, <2>4, <2>5, <2>6
<1>4. ASSUME NEW i \in 0..(n - 1), Good(i) PROVE Good(i + 1)
  <2> DEFINE job == jobs[i + 1]
             L == K \ KeysOf(jobs, i)
             up == after[i]
  <2>1. i + 1 \in 1..n /\ i + 1 - 1 = i /\ \A j \in 1..i : j \in 1..n /\ j # i + 1
    BY <1>1
  <2>2. job \in DecodedJob /\ job.key \in L
    BY <1>1, <2>1 DEF KeysOf
  <2>3. after[i + 1] = UploadOne(up, job, refused)
    BY <1>2, <2>1
  <2>4. K \ KeysOf(jobs, i + 1) = L \ {job.key}
    <3>1. \A j \in 1..(i + 1) : j \in 1..i \/ j = i + 1
      OBVIOUS
    <3>2. \A j \in 1..i : j \in 1..(i + 1)
      OBVIOUS
    <3>3. i + 1 \in 1..(i + 1)
      OBVIOUS
    <3>4. KeysOf(jobs, i + 1) = KeysOf(jobs, i) \cup {job.key}
      BY <3>1, <3>2, <3>3 DEF KeysOf
    <3> QED BY <3>4
  <2>5. Sound(up.cache, H, L) /\ up.cache.manager /\ up.changed \in BOOLEAN
    BY <1>4
  <2>6. Keeps(c, up.cache)
    BY <1>4
  <2> DEFINE q == after[i + 1]
  <2> HIDE DEF job, L, up, q
  <2>7. /\ Sound(q.cache, H, L \ {job.key})
        /\ q.cache.manager /\ q.changed \in BOOLEAN
        /\ Keeps(up.cache, q.cache)
    <3>1. q = UploadOne(up, job, refused)
      BY <2>3 DEF up, job, q
    <3>2. /\ Sound(up.cache, H, L) /\ up.cache.manager /\ up.changed \in BOOLEAN
          /\ job \in DecodedJob /\ job.key \in L
      BY <2>2, <2>5
    <3>4. Sound(q.cache, H, L \ {job.key})
      BY <3>1, <3>2, UploadOneSound, Zenon
    <3>5. q.cache.manager /\ q.changed \in BOOLEAN
      BY <3>1, <3>2, UploadOneSound, Zenon
    <3>6. Keeps(up.cache, q.cache)
      BY <3>1, <3>2, UploadOneSound, Zenon
    <3> QED BY <3>4, <3>5, <3>6
  <2>8. Keeps(c, q.cache)
    BY <2>6, <2>7 DEF Keeps
  <2> QED BY <2>4, <2>7, <2>8 DEF L, q
<1>5. n \in T
  <2>1. 0 \in T /\ \A i \in 0..(n - 1) : i \in T => i + 1 \in T
    <3> HIDE DEF Good
    <3> QED BY <1>1, <1>3, <1>4
  <2> HIDE DEF T
  <2>2. \A i \in 0..n : i \in T
    BY <1>1, <2>1, CountingTo
  <2> QED BY <1>1, <2>2
<1>6. Good(n)
  BY <1>5
<1> QED BY <1>2, <1>6

-----------------------------------------------------------------------------
(* The tiles *)

Holders(t) == [k \in Keys |-> {s \in Slots : t[s].path = k}]

\* A tile draws the texture its own file has.
Shown(c, t) ==
    \A s \in Slots : t[s].image # 0 =>
        t[s].path \in Keys /\ c.handle[t[s].path].id = t[s].image

LEMMA SlotList ==
    /\ Len(EachSlot) \in Nat
    /\ \A i \in 1..Len(EachSlot) : EachSlot[i] \in Slots
    /\ \A i, j \in 1..Len(EachSlot) : EachSlot[i] = EachSlot[j] => i = j
    /\ \A s \in Slots : \E i \in 1..Len(EachSlot) : EachSlot[i] = s
<1>1. /\ EachSlot \in Seq(Slots) /\ Len(EachSlot) = Cardinality(Slots) /\ Cardinality(Slots) \in Nat
      /\ \A i, j \in 1..Cardinality(Slots) : EachSlot[i] = EachSlot[j] => i = j
      /\ \A s \in Slots : \E i \in 1..Cardinality(Slots) : EachSlot[i] = s
  BY DialogConstants, ListOfSet DEF EachSlot
<1>2. \A i \in 1..Len(EachSlot) : EachSlot[i] \in Slots
  BY <1>1, ElementOfSeq
<1> QED BY <1>1, <1>2

\* Key p loses slot s: what other keys, or other slots, have stays.
OthersKeep(c, d, H, p, s) == \A k \in Keys : k # p \/ H[k] # {s} => d.handle[k] = c.handle[k]

\* A tile lets go of its thumbnail: the slots of the other keys stay what they were.
LEMMA ReleaseThumbnailSound ==
    ASSUME NEW c, NEW K, NEW H \in [Keys -> SUBSET Slots], Sound(c, H, K),
           NEW p \in Keys \cup {None}, NEW s, p # None => s \in H[p],
           NEW G, G = [k \in Keys |-> IF k = p THEN H[k] \ {s} ELSE H[k]]
    PROVE  /\ Sound(ReleaseThumbnail(c, p), G, K) /\ G \in [Keys -> SUBSET Slots]
           /\ OthersKeep(c, ReleaseThumbnail(c, p), H, p, s)
<1>1. CASE p = None
  <2>1. ReleaseThumbnail(c, p) = c
    BY <1>1 DEF ReleaseThumbnail
  <2>2. G = H
    BY <1>1, NoneIsNoKey
  <2> QED BY <2>1, <2>2 DEF OthersKeep
<1>2. CASE p # None
  <2>1. p \in Keys /\ s \in H[p] /\ ReleaseThumbnail(c, p) = Release(c, p)
    BY <1>2 DEF ReleaseThumbnail
  <2>2. [H EXCEPT ![p] = @ \ {s}] = G
    OBVIOUS
  <2> QED BY <2>1, <2>2, ReleaseSound DEF OthersKeep
<1> QED BY <1>1, <1>2

\* A slot is bound: it exchanges its thumbnail for that of the file it has to show.
LEMMA BindSound ==
    ASSUME NEW b, b.tile \in [Slots -> Tile], NEW K, Sound(b.cache, Holders(b.tile), K),
           NEW s \in Slots, NEW r, r = Bind(b, s)
    PROVE  /\ r.tile \in [Slots -> Tile]
           /\ Sound(r.cache, Holders(r.tile), K)
           /\ Shown(b.cache, b.tile) => Shown(r.cache, r.tile)
<1> DEFINE t == b.tile
           c == b.cache
           old == t[s].path
           new == IF item[s] \in Keys THEN item[s] ELSE None
           released == IF old = new THEN c ELSE ReleaseThumbnail(c, old)
           owned == IF old = new \/ new = None THEN released ELSE Acquire(released, new)
           image == IF new = None THEN 0 ELSE Peek(owned, new).id
           tile2 == [path |-> new, image |-> image, dirty |-> FALSE]
           u == [t EXCEPT ![s] = tile2]
           H == Holders(t)
<1>1. CASE item[s] = Nothing \/ ~t[s].dirty
  <2>1. r = b
    BY <1>1 DEF Bind
  <2> QED BY <2>1
<1>2. CASE ~(item[s] = Nothing \/ ~t[s].dirty)
  <2>1. r.cache = owned /\ r.tile = u
    BY <1>2 DEF Bind
  <2>2. /\ new \in Keys \cup {None} /\ old \in Keys \cup {None}
        /\ t \in [Slots -> Tile] /\ H \in [Keys -> SUBSET Slots]
        /\ \A k \in Keys : H[k] = {x \in Slots : t[x].path = k}
        /\ Sound(c, H, K)
    BY DEF Tile, Holders
  <2> HIDE DEF t, c, H, old, new
  <2>3. ASSUME old = new PROVE Sound(owned, H, K) /\ owned = c
    BY <2>2, <2>3
  <2> DEFINE G == [k \in Keys |-> IF k = old THEN H[k] \ {s} ELSE H[k]]
  <2>a. old # None => s \in H[old]
    BY <2>2 DEF old
  <2>4. ASSUME old # new
        PROVE  /\ Sound(released, G, K) /\ G \in [Keys -> SUBSET Slots]
               /\ \A k \in Keys : k # old \/ H[k] # {s} => released.handle[k] = c.handle[k]
    <3> DEFINE d == ReleaseThumbnail(c, old)
    <3>1. released = d
      BY <2>4
    <3>2. G = [k \in Keys |-> IF k = old THEN H[k] \ {s} ELSE H[k]]
      OBVIOUS
    <3> HIDE DEF G
    <3>3. Sound(d, G, K) /\ G \in [Keys -> SUBSET Slots]
      BY <2>2, <2>a, <3>2, ReleaseThumbnailSound
    <3>4. OthersKeep(c, d, H, old, s)
      BY <2>2, <2>a, <3>2, ReleaseThumbnailSound
    <3> HIDE DEF d, released
    <3> QED BY <3>1, <3>3, <3>4 DEF OthersKeep
  <2> DEFINE F == [k \in Keys |-> IF k = new THEN H[k] \cup {s} ELSE H[k] \ {s}]
  <2>5. /\ Sound(owned, F, K)
        /\ \A k \in Keys : k # old \/ H[k] # {s} => owned.handle[k] = c.handle[k]
    <3>1. \A k \in Keys : k # old => s \notin H[k]
      BY <2>2 DEF old
    <3>2. CASE old = new
      <4>1. \A k \in Keys : F[k] = H[k]
        BY <2>2, <3>1, <3>2 DEF old
      <4>2. F = H
        BY <2>2, <4>1
      <4> HIDE DEF F, owned
      <4> QED BY <2>3, <3>2, <4>2
    <3>3. CASE old # new /\ new = None
      <4>1. owned = released
        BY <3>3
      <4>2. F = G
        BY <2>2, <3>1, <3>3, NoneIsNoKey
      <4> HIDE DEF owned, released, F, G
      <4> QED BY <2>4, <3>3, <4>1, <4>2
    <3>4. CASE old # new /\ new # None
      <4>1. owned = Acquire(released, new) /\ new \in Keys
        BY <2>2, <3>4
      <4>2. s \notin G[new]
        BY <3>1, <3>4, <4>1
      <4>3. [G EXCEPT ![new] = @ \cup {s}] = F
        <5>1. G[new] = H[new] /\ F[new] = H[new] \cup {s}
          BY <3>4, <4>1
        <5>2. \A k \in Keys : k # new => F[k] = G[k]
          BY <2>2, <3>1
        <5>3. DOMAIN F = Keys /\ DOMAIN G = Keys /\ F = [k \in Keys |-> F[k]]
          OBVIOUS
        <5>4. \A k \in Keys : [G EXCEPT ![new] = @ \cup {s}][k] = F[k]
          BY <4>1, <5>1, <5>2, <5>3
        <5> QED BY <5>3, <5>4
      <4> HIDE DEF owned, released, F, G
      <4> QED BY <2>4, <3>4, <4>1, <4>2, <4>3, AcquireSound
    <3> QED BY <3>2, <3>3, <3>4
  <2> HIDE DEF released, G
  <2>6. owned \in CacheType
    BY <2>5 DEF Sound
  <2>7. image \in {0} \cup TextureIds
    BY <2>2, <2>6, Fields DEF Peek, Handle
  <2> HIDE DEF owned
  <2>8. u \in [Slots -> Tile] /\ u[s] = tile2 /\ \A x \in Slots : x # s => u[x] = t[x]
    BY <2>2, <2>7 DEF Tile
  <2>9. tile2.path = new /\ tile2.image = image
    OBVIOUS
  <2> HIDE DEF tile2, u
  <2>10. Holders(u) = F
    <3>1. ASSUME NEW k \in Keys PROVE {x \in Slots : u[x].path = k} = F[k]
      BY <2>2, <2>8, <2>9
    <3> QED BY <3>1 DEF Holders
  <2>11. ASSUME Shown(c, t) PROVE Shown(owned, u)
    <3> SUFFICES ASSUME NEW x \in Slots, u[x].image # 0
                 PROVE  u[x].path \in Keys /\ owned.handle[u[x].path].id = u[x].image
      BY DEF Shown
    <3>1. CASE x = s
      BY <2>2, <2>8, <2>9, <3>1 DEF Peek
    <3>2. CASE x # s
      <4>1. u[x] = t[x] /\ t[x].path \in Keys /\ c.handle[t[x].path].id = t[x].image
        BY <2>8, <2>11, <3>2 DEF Shown
      <4>2. x \in H[t[x].path]
        BY <2>2, <4>1
      <4>3. owned.handle[t[x].path] = c.handle[t[x].path]
        BY <2>5, <3>2, <4>1, <4>2
      <4> QED BY <4>1, <4>3
    <3> QED BY <3>1, <3>2
  <2> QED BY <2>1, <2>5, <2>8, <2>10, <2>11 DEF t, c
<1> QED BY <1>1, <1>2

\* The slots are bound one after the other.
LEMMA BindRun ==
    ASSUME NEW bound, Len(EachSlot) \in Nat
    PROVE  \E after :
              /\ after[0] = bound
              /\ \A i \in 1..Len(EachSlot) : after[i] = Bind(after[i - 1], EachSlot[i])
              /\ BindAll(bound) = after[Len(EachSlot)]
<1> DEFINE base == bound
           n == Len(EachSlot)
           Run(f, m) == f = [i \in 0..m |-> IF i = 0 THEN base ELSE Bind(f[i - 1], EachSlot[i])]
           T == {m \in Nat : \E f : Run(f, m)}
<1>1. 0 \in T
  <2> DEFINE f == [i \in 0..0 |-> base]
  <2>1. Run(f, 0)
    OBVIOUS
  <2> QED BY <2>1
<1>2. \A m \in Nat : m \in T => m + 1 \in T
  <2> SUFFICES ASSUME NEW m \in Nat, m \in T PROVE m + 1 \in T
    OBVIOUS
  <2>1. PICK f : Run(f, m)
    OBVIOUS
  <2> DEFINE g == [i \in 0..(m + 1) |-> IF i = m + 1 THEN Bind(f[m], EachSlot[m + 1]) ELSE f[i]]
  <2> HIDE DEF base
  <2>2. \A i \in 0..m : g[i] = f[i]
    OBVIOUS
  <2>3. ASSUME NEW i \in 0..(m + 1)
        PROVE  g[i] = IF i = 0 THEN base ELSE Bind(g[i - 1], EachSlot[i])
    <3>1. CASE i = m + 1
      <4>1. g[i - 1] = f[m] /\ i # 0
        BY <2>2, <3>1
      <4> QED BY <3>1, <4>1
    <3>2. CASE i # m + 1
      <4>1. i \in 0..m /\ (i # 0 => i - 1 \in 0..m)
        BY <3>2
      <4>2. f[i] = IF i = 0 THEN base ELSE Bind(f[i - 1], EachSlot[i])
        BY <2>1, <4>1
      <4> QED BY <2>2, <4>1, <4>2
    <3> QED BY <3>1, <3>2
  <2>4. Run(g, m + 1)
    BY <2>3
  <2> HIDE DEF Run, g
  <2>5. \E h : Run(h, m + 1)
    BY <2>4
  <2> QED BY <2>5
<1> HIDE DEF T
<1>3. n \in T
  BY <1>1, <1>2, Counting
<1> DEFINE after == CHOOSE f : Run(f, n)
<1>4. Run(after, n)
  <2>1. \E f : Run(f, n)
    BY <1>3 DEF T
  <2> HIDE DEF Run
  <2> QED BY <2>1
<1>5. BindAll(bound) = after[n]
  BY DEF BindAll
<1> HIDE DEF after, base
<1>6. after[0] = base /\ \A i \in 1..n : after[i] = Bind(after[i - 1], EachSlot[i])
  <2>1. \A i \in 0..n : after[i] = IF i = 0 THEN base ELSE Bind(after[i - 1], EachSlot[i])
    BY <1>4
  <2> QED BY <2>1
<1> QED BY <1>5, <1>6 DEF base

LEMMA BindAllSound ==
    ASSUME NEW b, b.tile \in [Slots -> Tile], NEW K, Sound(b.cache, Holders(b.tile), K),
           NEW r, r = BindAll(b)
    PROVE  /\ r.tile \in [Slots -> Tile]
           /\ Sound(r.cache, Holders(r.tile), K)
           /\ Shown(b.cache, b.tile) => Shown(r.cache, r.tile)
<1> DEFINE n == Len(EachSlot)
<1>1. n \in Nat /\ \A i \in 1..n : EachSlot[i] \in Slots
  BY SlotList
<1>2. PICK after :
          /\ after[0] = b
          /\ \A i \in 1..n : after[i] = Bind(after[i - 1], EachSlot[i])
          /\ BindAll(b) = after[n]
  BY <1>1, BindRun
<1> DEFINE Good(i) == /\ after[i].tile \in [Slots -> Tile]
                      /\ Sound(after[i].cache, Holders(after[i].tile), K)
                      /\ Shown(b.cache, b.tile) => Shown(after[i].cache, after[i].tile)
           T == {i \in 0..n : Good(i)}
<1>3. Good(0)
  BY <1>2
<1>4. ASSUME NEW i \in 0..(n - 1), Good(i) PROVE Good(i + 1)
  <2>1. i + 1 \in 1..n /\ i + 1 - 1 = i
    BY <1>1
  <2>2. after[i + 1] = Bind(after[i], EachSlot[i + 1]) /\ EachSlot[i + 1] \in Slots
    BY <1>1, <1>2, <2>1
  <2> DEFINE a == after[i]
             s == EachSlot[i + 1]
             q == after[i + 1]
  <2> HIDE DEF a, s, q
  <2>3. /\ a.tile \in [Slots -> Tile] /\ Sound(a.cache, Holders(a.tile), K) /\ s \in Slots
        /\ Shown(b.cache, b.tile) => Shown(a.cache, a.tile)
    BY <1>4, <2>2 DEF a, s
  <2>4. /\ q.tile \in [Slots -> Tile]
        /\ Sound(q.cache, Holders(q.tile), K)
        /\ Shown(a.cache, a.tile) => Shown(q.cache, q.tile)
    <3>1. q = Bind(a, s)
      BY <2>2 DEF a, s, q
    <3> QED BY <2>3, <3>1, BindSound
  <2> QED BY <2>3, <2>4 DEF q
<1>5. n \in T
  <2>1. 0 \in T /\ \A i \in 0..(n - 1) : i \in T => i + 1 \in T
    <3> HIDE DEF Good
    <3> QED BY <1>1, <1>3, <1>4
  <2> HIDE DEF T
  <2>2. \A i \in 0..n : i \in T
    BY <1>1, <2>1, CountingTo
  <2> QED BY <1>1, <2>2
<1>6. Good(n)
  BY <1>5
<1> QED BY <1>2, <1>6

\* The tiles let go of their thumbnails one after the other.
LEMMA ReleaseRun ==
    ASSUME Len(EachSlot) \in Nat
    PROVE  \E after :
              /\ after[0] = cache
              /\ \A i \in 1..Len(EachSlot) : after[i] = ReleaseThumbnail(after[i - 1], tile[EachSlot[i]].path)
              /\ ReleaseAll = after[Len(EachSlot)]
<1> DEFINE base == cache
           n == Len(EachSlot)
           Run(f, m) == f = [i \in 0..m |-> IF i = 0 THEN base ELSE ReleaseThumbnail(f[i - 1], tile[EachSlot[i]].path)]
           T == {m \in Nat : \E f : Run(f, m)}
<1>1. 0 \in T
  <2> DEFINE f == [i \in 0..0 |-> base]
  <2>1. Run(f, 0)
    OBVIOUS
  <2> QED BY <2>1
<1>2. \A m \in Nat : m \in T => m + 1 \in T
  <2> SUFFICES ASSUME NEW m \in Nat, m \in T PROVE m + 1 \in T
    OBVIOUS
  <2>1. PICK f : Run(f, m)
    OBVIOUS
  <2> DEFINE g == [i \in 0..(m + 1) |-> IF i = m + 1 THEN ReleaseThumbnail(f[m], tile[EachSlot[m + 1]].path) ELSE f[i]]
  <2> HIDE DEF base
  <2>2. \A i \in 0..m : g[i] = f[i]
    OBVIOUS
  <2>3. ASSUME NEW i \in 0..(m + 1)
        PROVE  g[i] = IF i = 0 THEN base ELSE ReleaseThumbnail(g[i - 1], tile[EachSlot[i]].path)
    <3>1. CASE i = m + 1
      <4>1. g[i - 1] = f[m] /\ i # 0
        BY <2>2, <3>1
      <4> QED BY <3>1, <4>1
    <3>2. CASE i # m + 1
      <4>1. i \in 0..m /\ (i # 0 => i - 1 \in 0..m)
        BY <3>2
      <4>2. f[i] = IF i = 0 THEN base ELSE ReleaseThumbnail(f[i - 1], tile[EachSlot[i]].path)
        BY <2>1, <4>1
      <4> QED BY <2>2, <4>1, <4>2
    <3> QED BY <3>1, <3>2
  <2>4. Run(g, m + 1)
    BY <2>3
  <2> HIDE DEF Run, g
  <2>5. \E h : Run(h, m + 1)
    BY <2>4
  <2> QED BY <2>5
<1> HIDE DEF T
<1>3. n \in T
  BY <1>1, <1>2, Counting
<1> DEFINE after == CHOOSE f : Run(f, n)
<1>4. Run(after, n)
  <2>1. \E f : Run(f, n)
    BY <1>3 DEF T
  <2> HIDE DEF Run
  <2> QED BY <2>1
<1>5. ReleaseAll = after[n]
  BY DEF ReleaseAll
<1> HIDE DEF after, base
<1>6. after[0] = base /\ \A i \in 1..n : after[i] = ReleaseThumbnail(after[i - 1], tile[EachSlot[i]].path)
  <2>1. \A i \in 0..n : after[i] = IF i = 0 THEN base ELSE ReleaseThumbnail(after[i - 1], tile[EachSlot[i]].path)
    BY <1>4
  <2> QED BY <2>1
<1> QED BY <1>5, <1>6 DEF base

\* The slots from the i-th on that have key k.
HoldersFrom(i) == [k \in Keys |-> {s \in Slots : /\ tile[s].path = k
                                                 /\ \E j \in 1..Len(EachSlot) : j > i /\ EachSlot[j] = s}]

LEMMA ReleaseAllSound ==
    ASSUME tile \in [Slots -> Tile], NEW K, Sound(cache, Holders(tile), K)
    PROVE  Sound(ReleaseAll, [k \in Keys |-> {}], K)
<1> DEFINE n == Len(EachSlot)
<1>1. /\ n \in Nat /\ \A i \in 1..n : EachSlot[i] \in Slots
      /\ \A i, j \in 1..n : EachSlot[i] = EachSlot[j] => i = j
      /\ \A s \in Slots : \E i \in 1..n : EachSlot[i] = s
  BY SlotList
<1>2. PICK after :
          /\ after[0] = cache
          /\ \A i \in 1..n : after[i] = ReleaseThumbnail(after[i - 1], tile[EachSlot[i]].path)
          /\ ReleaseAll = after[n]
  BY <1>1, ReleaseRun
<1>3. /\ \A i \in 0..n : HoldersFrom(i) \in [Keys -> SUBSET Slots]
      /\ \A i \in 0..n, k \in Keys :
            HoldersFrom(i)[k] = {s \in Slots : tile[s].path = k /\ \E j \in 1..n : j > i /\ EachSlot[j] = s}
  BY DEF HoldersFrom
<1> DEFINE T == {i \in 0..n : Sound(after[i], HoldersFrom(i), K)}
<1>4. Sound(after[0], HoldersFrom(0), K)
  <2>1. ASSUME NEW k \in Keys PROVE Holders(tile)[k] = HoldersFrom(0)[k]
    <3>1. \A j \in 1..n : j > 0
      OBVIOUS
    <3> QED BY <1>1, <1>3, <3>1 DEF Holders
  <2>2. Holders(tile) = HoldersFrom(0)
    BY <2>1 DEF Holders, HoldersFrom
  <2> QED BY <1>2, <2>2
<1>5. ASSUME NEW i \in 0..(n - 1), Sound(after[i], HoldersFrom(i), K)
      PROVE  Sound(after[i + 1], HoldersFrom(i + 1), K)
  <2> DEFINE c == after[i]
             s == EachSlot[i + 1]
             p == tile[s].path
             H == HoldersFrom(i)
             G == [k \in Keys |-> IF k = p THEN H[k] \ {s} ELSE H[k]]
  <2>1. i + 1 \in 1..n /\ i + 1 - 1 = i /\ i \in 0..n /\ i + 1 \in 0..n
    BY <1>1
  <2>2. after[i + 1] = ReleaseThumbnail(c, p) /\ s \in Slots
    BY <1>1, <1>2, <2>1
  <2>3. p \in Keys \cup {None}
    BY <2>2 DEF Tile
  <2>4. p # None => s \in H[p]
    <3>1. i + 1 > i
      BY <1>1
    <3> QED BY <1>3, <2>1, <2>2, <2>3, <3>1
  <2>5. H \in [Keys -> SUBSET Slots] /\ Sound(c, H, K)
    BY <1>3, <1>5, <2>1
  <2>6. G = HoldersFrom(i + 1)
    <3>1. \A j \in 1..n : j > i <=> j > i + 1 \/ j = i + 1
      BY <1>1
    <3>2. ASSUME NEW k \in Keys PROVE G[k] = HoldersFrom(i + 1)[k]
      <4>1. H[k] = {x \in Slots : tile[x].path = k /\ \E j \in 1..n : j > i /\ EachSlot[j] = x}
        BY <1>3, <2>1
      <4>2. HoldersFrom(i + 1)[k] = {x \in Slots : tile[x].path = k /\ \E j \in 1..n : j > i + 1 /\ EachSlot[j] = x}
        BY <1>3, <2>1
      <4>3. \A j \in 1..n : j > i + 1 => EachSlot[j] # s
        <5>1. \A j \in 1..n : j > i + 1 => j # i + 1
          BY <1>1
        <5> QED BY <1>1, <2>1, <5>1
      <4>4. G[k] = IF k = p THEN H[k] \ {s} ELSE H[k]
        OBVIOUS
      <4>5. \A x \in Slots : (\E j \in 1..n : j > i /\ EachSlot[j] = x)
                               <=> (\E j \in 1..n : j > i + 1 /\ EachSlot[j] = x) \/ x = s
        BY <2>1, <3>1
      <4> DEFINE Later1(x) == \E j \in 1..n : j > i /\ EachSlot[j] = x
                 Later2(x) == \E j \in 1..n : j > i + 1 /\ EachSlot[j] = x
      <4>6. /\ H[k] = {x \in Slots : tile[x].path = k /\ Later1(x)}
            /\ HoldersFrom(i + 1)[k] = {x \in Slots : tile[x].path = k /\ Later2(x)}
            /\ \A x \in Slots : Later1(x) <=> Later2(x) \/ x = s
            /\ ~Later2(s)
        BY <4>1, <4>2, <4>3, <4>5
      <4> HIDE DEF Later1, Later2, G, H, s
      <4> QED BY <4>4, <4>6
    <3>3. DOMAIN G = Keys /\ DOMAIN HoldersFrom(i + 1) = Keys
      BY DEF HoldersFrom
    <3> QED BY <3>2 DEF HoldersFrom
  <2> HIDE DEF c, s, p, H
  <2>7. Sound(ReleaseThumbnail(c, p), G, K)
    BY <2>3, <2>4, <2>5, ReleaseThumbnailSound
  <2> QED BY <2>2, <2>6, <2>7 DEF c, p, s
<1>6. n \in T
  <2>1. 0 \in T /\ \A i \in 0..(n - 1) : i \in T => i + 1 \in T
    BY <1>1, <1>4, <1>5
  <2> HIDE DEF T
  <2>2. \A i \in 0..n : i \in T
    BY <1>1, <2>1, CountingTo
  <2> QED BY <1>1, <2>2
<1>7. Sound(ReleaseAll, HoldersFrom(n), K)
  BY <1>2, <1>6
<1>8. HoldersFrom(n) = [k \in Keys |-> {}]
  <2>1. \A j \in 1..n : ~(j > n)
    BY <1>1
  <2> QED BY <2>1 DEF HoldersFrom
<1> QED BY <1>7, <1>8
-----------------------------------------------------------------------------
(* The loss of the context, and the end *)

LEMMA NoTextures ==
    ASSUME NEW c, c.generation # 0, \A k \in Keys : c.handle[k] = NoHandle, c.textures = {}
    PROVE  Textured(c)
BY DEF Textured

LEMMA AllNoHandle ==
    /\ [k \in Keys |-> NoHandle] \in [Keys -> Handle]
    /\ [k \in Keys |-> FALSE] \in [Keys -> BOOLEAN]
    /\ [k \in Keys |-> 0] \in [Keys -> Nat]
BY DEF Handle, NoHandle

LEMMA AbandonSound ==
    ASSUME NEW c, NEW H, NEW K, Sound(c, H, K)
    PROVE  Sound(AbandonGpuResources(c), H, K)
<1> DEFINE d == AbandonGpuResources(c)
           h == [k \in Keys |-> NoHandle]
           f == [k \in Keys |-> FALSE]
           g == c.generation + 1
<1>0. c \in CacheType /\ Textured(c) /\ Counted(c, H) /\ Placed(c, K)
  BY DEF Sound
<1>1. d = [c EXCEPT !.handle = h, !.failed = f, !.manager = FALSE, !.textures = {}, !.generation = g]
  BY DEF AbandonGpuResources
<1>2. h \in [Keys -> Handle] /\ f \in [Keys -> BOOLEAN] /\ g \in Nat /\ g # 0
  BY <1>0, AllNoHandle, Fields
<1>3. \A k \in Keys : h[k] = NoHandle
  OBVIOUS
<1> HIDE DEF d, h, f, g
<1>4. /\ d \in CacheType /\ d.refs = c.refs /\ d.handle = h /\ d.textures = {} /\ d.generation = g
      /\ d.inFlight = c.inFlight /\ d.queue = c.queue
  BY <1>0, <1>1, <1>2 DEF CacheType
<1>5. Textured(d)
  BY <1>2, <1>3, <1>4, NoTextures
<1>6. Placed(d, K) /\ Counted(d, H)
  BY <1>0, <1>4 DEF Placed, Counted
<1> QED BY <1>4, <1>5, <1>6 DEF Sound, d

\* Every texture is one of a handle of its generation, so none is left.
LEMMA UnloadAllSound ==
    ASSUME NEW c, c \in CacheType, Textured(c), NEW d, d = UnloadAll(c)
    PROVE  /\ d \in CacheType /\ Textured(d) /\ d.textures = {}
           /\ \A k \in Keys : d.handle[k] = NoHandle
           /\ d.refs = c.refs /\ d.inFlight = c.inFlight /\ d.queue = c.queue
           /\ d.canceled = c.canceled /\ d.manager = c.manager /\ d.generation = c.generation
<1> DEFINE h == [k \in Keys |-> NoHandle]
           f == [k \in Keys |-> FALSE]
           t == c.textures \ {c.handle[k].id : k \in {j \in Keys : c.handle[j].generation = c.generation}}
<1>1. d = [c EXCEPT !.textures = t, !.handle = h, !.failed = f]
  BY DEF UnloadAll
<1>2. h \in [Keys -> Handle] /\ f \in [Keys -> BOOLEAN]
  BY AllNoHandle
<1>3. \A k \in Keys : h[k] = NoHandle
  OBVIOUS
<1>4. t = {}
  <2> SUFFICES ASSUME NEW i \in c.textures
               PROVE  \E k \in Keys : c.handle[k].generation = c.generation /\ c.handle[k].id = i
    OBVIOUS
  <2> QED BY DEF Textured
<1>5. {} \in SUBSET TextureIds
  OBVIOUS
<1> HIDE DEF h, f, t
<1>6. /\ d \in CacheType /\ d.refs = c.refs /\ d.handle = h /\ d.textures = {}
      /\ d.generation = c.generation
      /\ d.inFlight = c.inFlight /\ d.queue = c.queue /\ d.canceled = c.canceled
      /\ d.manager = c.manager
  BY <1>1, <1>2, <1>4, <1>5 DEF CacheType
<1>7. d.generation # 0
  BY <1>6 DEF Textured
<1> QED BY <1>3, <1>6, <1>7, NoTextures

\* What is owned and not in flight is queued, once.
LEMMA InvalidateSound ==
    ASSUME NEW c, NEW H, NEW K, Sound(c, H, K)
    PROVE  Sound(InvalidateGpuResources(c), H, K)
<1> DEFINE d == InvalidateGpuResources(c)
           u == UnloadAll(c)
           S == Owned(c) \ c.inFlight
           R == SetToSeq(S)
           Q == c.queue
           x == c.canceled \ Owned(c)
           q == Q \o R
           f == c.inFlight \cup Owned(c)
<1>0. c \in CacheType /\ Textured(c) /\ Counted(c, H) /\ Placed(c, K)
  BY DEF Sound
<1>1. /\ u \in CacheType /\ u.refs = c.refs /\ u.textures = {}
      /\ \A k \in Keys : u.handle[k] = NoHandle
      /\ u.inFlight = c.inFlight /\ u.queue = c.queue /\ u.canceled = c.canceled
      /\ u.generation = c.generation
  BY <1>0, UnloadAllSound
<1>2. S \in SUBSET Keys /\ Owned(c) \in SUBSET Keys /\ IsFiniteSet(S)
  BY ThumbnailConstants, FS_Subset DEF Owned
<1>3. /\ R \in Seq(S) /\ Len(R) \in Nat
      /\ \A i, j \in 1..Len(R) : R[i] = R[j] => i = j
      /\ \A k \in S : \E i \in 1..Len(R) : R[i] = k
  BY <1>2, ListOfSet
<1>4. R \in Seq(Keys) /\ \A i \in 1..Len(R) : R[i] \in S
  <2>1. \A i \in 1..Len(R) : R[i] \in S
    BY <1>3, ElementOfSeq
  <2>2. R = [i \in 1..Len(R) |-> R[i]]
    BY <1>3, LenProperties
  <2> HIDE DEF R, S
  <2>3. R \in [1..Len(R) -> Keys]
    BY <1>2, <2>1, <2>2
  <2> QED BY <1>3, <2>1, <2>3, IsASeq
<1>5. Q \in Seq(Keys) /\ Len(Q) \in Nat
  BY <1>0, Fields, LenProperties
<1>6. d = [u EXCEPT !.manager = TRUE, !.canceled = x, !.queue = q, !.inFlight = f]
  BY <1>1 DEF InvalidateGpuResources, Redecoded
<1> HIDE DEF R, Q
<1>7. /\ q \in Seq(Keys) /\ Len(q) = Len(Q) + Len(R)
      /\ \A i \in 1..(Len(Q) + Len(R)) : q[i] = IF i <= Len(Q) THEN Q[i] ELSE R[i - Len(Q)]
  BY <1>4, <1>5, ConcatProperties
<1>8. f \in SUBSET Keys /\ x \in SUBSET Keys
  BY <1>0, <1>2, Fields
<1>9. f = c.inFlight \cup S
  OBVIOUS
<1> HIDE DEF d, u, q, f, x
<1>10. /\ d \in CacheType /\ d.refs = c.refs /\ d.handle = u.handle /\ d.textures = {}
       /\ d.generation = c.generation /\ d.inFlight = f /\ d.queue = q
  BY <1>1, <1>6, <1>7, <1>8 DEF CacheType
<1>11. Textured(d)
  <2>1. d.generation # 0
    BY <1>0, <1>10 DEF Textured
  <2> QED BY <1>1, <1>10, <2>1, NoTextures
<1>12. Counted(d, H)
  BY <1>0, <1>10 DEF Counted
<1>13. Placed(d, K)
  <2> DEFINE m == Len(Q)
             l == Len(R)
  <2>1. /\ \A i, j \in 1..m : Q[i] = Q[j] => i = j
        /\ \A i \in 1..m : Q[i] \in c.inFlight /\ Q[i] \notin K
        /\ \A k \in c.inFlight : k \in K \/ \E i \in 1..m : Q[i] = k
        /\ K \subseteq c.inFlight
    BY <1>0 DEF Placed, Q
  <2>2. m \in Nat /\ l \in Nat /\ Len(q) = m + l
    BY <1>3, <1>5, <1>7
  <2>3. \A i \in 1..(m + l) : \/ i \in 1..m /\ q[i] = Q[i]
                              \/ i \notin 1..m /\ i - m \in 1..l /\ q[i] = R[i - m]
    BY <1>3, <1>5, <1>7
  <2>4. /\ \A i \in 1..m : i \in 1..(m + l) /\ q[i] = Q[i]
        /\ \A i \in 1..l : m + i \in 1..(m + l) /\ q[m + i] = R[i]
    <3>1. \A i \in 1..m : i \in 1..(m + l) /\ i <= m
      BY <2>2
    <3>2. \A i \in 1..l : m + i \in 1..(m + l) /\ ~(m + i <= m) /\ m + i - m = i
      BY <2>2
    <3> QED BY <1>7, <3>1, <3>2
  <2>5. \A i \in 1..l : R[i] \in S
    BY <1>4
  <2>6. /\ \A i, j \in 1..l : R[i] = R[j] => i = j
        /\ \A k \in S : \E i \in 1..l : R[i] = k
    BY <1>3
  <2>7. S \cap c.inFlight = {}
    OBVIOUS
  <2>8. \A i, j \in 1..(m + l) : i - m = j - m => i = j
    BY <2>2
  <2> HIDE DEF m, l, S
  <2>9. \A i, j \in 1..(m + l) : q[i] = q[j] => i = j
    <3> SUFFICES ASSUME NEW i \in 1..(m + l), NEW j \in 1..(m + l), q[i] = q[j] PROVE i = j
      OBVIOUS
    <3>1. CASE i \in 1..m /\ j \in 1..m
      BY <2>1, <2>4, <3>1
    <3>2. CASE i \in 1..m /\ j \notin 1..m
      BY <2>1, <2>3, <2>5, <2>7, <3>2
    <3>3. CASE i \notin 1..m /\ j \in 1..m
      BY <2>1, <2>3, <2>5, <2>7, <3>3
    <3>4. CASE i \notin 1..m /\ j \notin 1..m
      <4>1. i - m \in 1..l /\ j - m \in 1..l /\ R[i - m] = R[j - m]
        BY <2>3, <3>4
      <4> QED BY <2>6, <2>8, <4>1
    <3> QED BY <3>1, <3>2, <3>3, <3>4
  <2>10. \A i \in 1..(m + l) : q[i] \in f /\ q[i] \notin K
    <3> TAKE i \in 1..(m + l)
    <3>1. CASE i \in 1..m
      BY <1>9, <2>1, <2>4, <3>1
    <3>2. CASE i \notin 1..m
      <4>1. q[i] \in S
        BY <2>3, <2>5, <3>2
      <4> QED BY <1>9, <2>1, <2>7, <4>1
    <3> QED BY <3>1, <3>2
  <2>11. \A k \in f : k \in K \/ \E i \in 1..(m + l) : q[i] = k
    <3> TAKE k \in f
    <3>1. CASE k \in c.inFlight
      BY <2>1, <2>4, <3>1
    <3>2. CASE k \in S
      <4>1. PICK i \in 1..l : R[i] = k
        BY <2>6, <3>2
      <4> QED BY <2>4, <4>1
    <3> QED BY <1>9, <3>1, <3>2
  <2> QED BY <1>9, <1>10, <2>1, <2>2, <2>9, <2>10, <2>11 DEF Placed
<1> QED BY <1>10, <1>11, <1>12, <1>13 DEF Sound, d

\* With no owners there is nothing left to delete.
LEMMA DeleteAllSound ==
    ASSUME NEW c, NEW H, NEW K, Sound(c, H, K), \A k \in Keys : H[k] = {}
    PROVE  Sound(DeleteAllTextures(c), H, K)
<1> DEFINE d == DeleteAllTextures(c)
           u == IF c.manager THEN UnloadAll(c) ELSE c
           r == [k \in Keys |-> 0]
           h == [k \in Keys |-> NoHandle]
<1>0. c \in CacheType /\ Textured(c) /\ Counted(c, H) /\ Placed(c, K)
  BY DEF Sound
<1>1. \A k \in Keys : c.refs[k] = 0 /\ c.handle[k] = NoHandle
  <2> TAKE k \in Keys
  <2>1. c.refs[k] = 0
    BY <1>0, FS_EmptySet DEF Counted
  <2> QED BY <1>0, <2>1 DEF Textured
<1>2. c.textures = {}
  BY <1>0, <1>1 DEF Textured
<1>3. /\ u \in CacheType /\ u.textures = {} /\ u.generation = c.generation
      /\ u.inFlight = c.inFlight /\ u.queue = c.queue /\ u.manager = c.manager
  <2>1. CASE c.manager
    <3>1. u = UnloadAll(c)
      BY <2>1
    <3> HIDE DEF u
    <3> QED BY <1>0, <3>1, UnloadAllSound
  <2>2. CASE ~c.manager
    <3>1. u = c
      BY <2>2
    <3> HIDE DEF u
    <3> QED BY <1>0, <1>2, <3>1
  <2> QED BY <2>1, <2>2
<1>4. d = [u EXCEPT !.refs = r, !.handle = h]
  BY DEF DeleteAllTextures
<1>5. r \in [Keys -> Nat] /\ h \in [Keys -> Handle]
  BY AllNoHandle
<1>6. \A k \in Keys : r[k] = 0 /\ h[k] = NoHandle
  OBVIOUS
<1> HIDE DEF d, u, r, h
<1>7. /\ d \in CacheType /\ d.refs = r /\ d.handle = h /\ d.textures = {}
      /\ d.generation = c.generation /\ d.inFlight = c.inFlight /\ d.queue = c.queue
  BY <1>3, <1>4, <1>5 DEF CacheType
<1>8. Textured(d)
  <2>1. d.generation # 0
    BY <1>0, <1>7 DEF Textured
  <2> QED BY <1>6, <1>7, <2>1, NoTextures
<1>9. Counted(d, H)
  BY <1>6, <1>7, FS_EmptySet DEF Counted
<1>10. Placed(d, K)
  BY <1>0, <1>7 DEF Placed
<1> QED BY <1>7, <1>8, <1>9, <1>10 DEF Sound, d

\* A job is taken from the queue: its key is with a worker now.
LEMMA TakenSound ==
    ASSUME NEW c, NEW H, NEW K, Sound(c, H, K), c.queue # <<>>,
           NEW d, d = [c EXCEPT !.queue = Tail(@)]
    PROVE  /\ Head(c.queue) \in Keys /\ Head(c.queue) \notin K
           /\ Sound(d, H, K \cup {Head(c.queue)})
           /\ d.handle = c.handle
<1> DEFINE Q == c.queue
           q == Tail(Q)
           k == Head(Q)
           n == Len(Q)
<1>0. c \in CacheType /\ Textured(c) /\ Counted(c, H) /\ Placed(c, K)
  BY DEF Sound
<1>1. Q \in Seq(Keys) /\ Q # <<>>
  BY <1>0, Fields
<1>q. d = [c EXCEPT !.queue = q]
  OBVIOUS
<1> HIDE DEF Q
<1>2. /\ n \in Nat /\ n # 0 /\ k = Q[1] /\ k \in Keys
      /\ q \in Seq(Keys) /\ Len(q) = n - 1
      /\ \A i \in 1..(n - 1) : q[i] = Q[i + 1]
  BY <1>1, HeadTailProperties, LenProperties, EmptySeq
<1>3. /\ \A i, j \in 1..n : Q[i] = Q[j] => i = j
      /\ \A i \in 1..n : Q[i] \in c.inFlight /\ Q[i] \notin K
      /\ \A j \in c.inFlight : j \in K \/ \E i \in 1..n : Q[i] = j
      /\ K \subseteq c.inFlight
  BY <1>0 DEF Placed, Q
<1>4. 1 \in 1..n /\ \A i \in 1..(n - 1) : i + 1 \in 1..n /\ i + 1 # 1
  BY <1>2
<1>5. \A i \in 1..n : i = 1 \/ (i - 1 \in 1..(n - 1) /\ i - 1 + 1 = i)
  BY <1>2
<1>6. \A i, j \in 1..(n - 1) : i + 1 = j + 1 => i = j
  BY <1>2
<1> HIDE DEF n, q, k
<1>7. /\ d \in CacheType /\ d.refs = c.refs /\ d.handle = c.handle /\ d.textures = c.textures
      /\ d.generation = c.generation /\ d.manager = c.manager /\ d.inFlight = c.inFlight
      /\ d.queue = q
  BY <1>0, <1>2, <1>q DEF CacheType
<1>8. Textured(d)
  BY <1>0, <1>7, SameTextures
<1>9. Counted(d, H)
  BY <1>0, <1>7 DEF Counted
<1>10. Placed(d, K \cup {k})
  <2>1. \A i, j \in 1..(n - 1) : q[i] = q[j] => i = j
    BY <1>2, <1>3, <1>4, <1>6
  <2>2. \A i \in 1..(n - 1) : q[i] \in c.inFlight /\ q[i] \notin K \cup {k}
    BY <1>2, <1>3, <1>4
  <2>3. \A j \in c.inFlight : j \in K \cup {k} \/ \E i \in 1..(n - 1) : q[i] = j
    <3> TAKE j \in c.inFlight
    <3>1. CASE j \notin K
      <4>1. PICK i \in 1..n : Q[i] = j
        BY <1>3, <3>1
      <4>2. CASE i = 1
        BY <1>2, <4>1, <4>2
      <4>3. CASE i # 1
        BY <1>2, <1>5, <4>1, <4>3
      <4> QED BY <4>2, <4>3
    <3> QED BY <3>1
  <2>4. K \cup {k} \subseteq c.inFlight
    BY <1>2, <1>3, <1>4
  <2>5. d.queue = q /\ Len(d.queue) = n - 1 /\ d.inFlight = c.inFlight
    BY <1>2, <1>7
  <2> DEFINE m == n - 1
             L == K \cup {k}
  <2> HIDE DEF m, L
  <2>6. /\ \A i, j \in 1..m : q[i] = q[j] => i = j
        /\ \A i \in 1..m : q[i] \in c.inFlight /\ q[i] \notin L
        /\ \A j \in c.inFlight : j \in L \/ \E i \in 1..m : q[i] = j
        /\ L \subseteq c.inFlight
        /\ Len(d.queue) = m
    BY <2>1, <2>2, <2>3, <2>4, <2>5 DEF m, L
  <2> QED BY <2>5, <2>6 DEF Placed, L
<1>11. k \in Keys /\ k \notin K
  BY <1>2, <1>3, <1>4
<1> QED BY <1>7, <1>8, <1>9, <1>10, <1>11 DEF Sound, k, Q

-----------------------------------------------------------------------------
(* A frame *)

\* The keys that are with the workers or wait for their upload, ...
Elsewhere ==
    {k \in Keys : \/ \E w \in Workers : decoding[w] = k
                  \/ \E i \in 1..Len(results) : results[i].key = k}

\* ... each of them once.
Apart ==
    /\ \A v, w \in Workers : decoding[v] = decoding[w] /\ decoding[v] # None => v = w
    /\ \A i, j \in 1..Len(results) : results[i].key = results[j].key => i = j
    /\ \A w \in Workers, i \in 1..Len(results) : decoding[w] # results[i].key

LEMMA SameTiles ==
    ASSUME NEW t, NEW u,
           \A s \in Slots : u[s].path = t[s].path /\ u[s].image = t[s].image
    PROVE  Holders(u) = Holders(t) /\ \A c : Shown(c, t) => Shown(c, u)
<1>1. \A k \in Keys : {s \in Slots : u[s].path = k} = {s \in Slots : t[s].path = k}
  OBVIOUS
<1>2. Holders(u) = Holders(t)
  BY <1>1 DEF Holders
<1>3. \A c : Shown(c, t) => Shown(c, u)
  BY DEF Shown
<1> QED BY <1>2, <1>3

LEMMA DirtyTile ==
    ASSUME NEW t \in Tile, NEW d \in BOOLEAN
    PROVE  /\ [t EXCEPT !.dirty = d] \in Tile
           /\ [t EXCEPT !.dirty = d].path = t.path
           /\ [t EXCEPT !.dirty = d].image = t.image
BY DEF Tile

\* Tiles that have to be bound again.
LEMMA DirtyTiles ==
    ASSUME NEW t \in [Slots -> Tile], NEW D \in [Slots -> BOOLEAN],
           NEW u, u = [s \in Slots |-> [t[s] EXCEPT !.dirty = D[s]]]
    PROVE  /\ u \in [Slots -> Tile] /\ Holders(u) = Holders(t)
           /\ \A c : Shown(c, t) => Shown(c, u)
<1>1. \A s \in Slots : u[s] \in Tile /\ u[s].path = t[s].path /\ u[s].image = t[s].image
  <2> TAKE s \in Slots
  <2>1. t[s] \in Tile /\ D[s] \in BOOLEAN /\ u[s] = [t[s] EXCEPT !.dirty = D[s]]
    BY Zenon
  <2> DEFINE x == t[s]
             d == D[s]
             y == u[s]
  <2> HIDE DEF x, d, y
  <2>2. x \in Tile /\ d \in BOOLEAN /\ y = [x EXCEPT !.dirty = d]
    BY <2>1 DEF x, d, y
  <2>3. y \in Tile /\ y.path = x.path /\ y.image = x.image
    BY <2>2, DirtyTile, Zenon
  <2> QED BY <2>3 DEF x, y
<1>2. u \in [Slots -> Tile]
  BY <1>1
<1> QED BY <1>1, <1>2, SameTiles

\* uploadPending() leaves what is with the workers.
LEMMA Uploaded ==
    ASSUME ServiceTypeOK, Apart, NEW H, Sound(cache, H, Elsewhere), NEW up \in Uploads
    PROVE  /\ up.changed \in BOOLEAN /\ Keeps(cache, up.cache)
           /\ IF Refreshes \/ layout
              THEN Sound(up.cache, H, Elsewhere \ KeysOf(results, Len(results)))
              ELSE Sound(up.cache, H, Elsewhere)
<1>1. CASE Refreshes \/ layout
  <2>1. PICK refused : up = UploadPending(cache, results, refused)
    BY <1>1 DEF Uploads
  <2>2. /\ results \in Seq(DecodedJob)
        /\ \A i \in 1..Len(results) : results[i].key \in Elsewhere
        /\ \A i, j \in 1..Len(results) : results[i].key = results[j].key => i = j
    <3>1. results \in Seq(DecodedJob)
      BY DEF ServiceTypeOK
    <3>2. \A i \in 1..Len(results) : results[i] \in DecodedJob
      BY <3>1, ElementOfSeq
    <3>3. \A i \in 1..Len(results) : results[i].key \in Elsewhere
      BY <3>2 DEF DecodedJob, Elsewhere
    <3> QED BY <3>1, <3>3 DEF Apart
  <2>3. Sound(up.cache, H, Elsewhere \ KeysOf(results, Len(results)))
    BY <2>1, <2>2, UploadSound, Zenon
  <2>4. up.changed \in BOOLEAN /\ Keeps(cache, up.cache)
    BY <2>1, <2>2, UploadSound, Zenon
  <2> QED BY <1>1, <2>3, <2>4
<1>2. CASE ~(Refreshes \/ layout)
  <2>1. up.cache = cache /\ up.changed = FALSE
    BY <1>2 DEF Uploads
  <2> QED BY <1>2, <2>1 DEF Keeps
<1> QED BY <1>1, <1>2

\* What a frame makes of the cache, the tiles and the results.
LEMMA FrameSound ==
    ASSUME TypeOK, Apart, Sound(cache, Holders(tile), Elsewhere), NEW f \in Frames
    PROVE  /\ f.tile \in [Slots -> Tile]
           /\ f.refreshPending \in BOOLEAN
           /\ IF Refreshes \/ layout
              THEN /\ f.results = <<>>
                   /\ Sound(f.cache, Holders(f.tile), Elsewhere \ KeysOf(results, Len(results)))
              ELSE f.results = results /\ Sound(f.cache, Holders(f.tile), Elsewhere)
           /\ Shown(cache, tile) => Shown(f.cache, f.tile)
<1>1. PICK up \in Uploads : f = Prepared(up)
  BY DEF Frames
<1> DEFINE K == IF Refreshes \/ layout THEN Elsewhere \ KeysOf(results, Len(results)) ELSE Elsewhere
           D == [s \in Slots |-> tile[s].dirty \/ Rebinds(up)]
           seen == [s \in Slots |-> [tile[s] EXCEPT !.dirty = @ \/ Rebinds(up)]]
           E == [s \in Slots |-> seen[s].dirty \/ item[s] = Nothing]
           unused == Unused(seen)
           b == [cache |-> up.cache, tile |-> unused]
           a == BindAll(b)
<1>2. up.changed \in BOOLEAN /\ Keeps(cache, up.cache) /\ Sound(up.cache, Holders(tile), K)
  BY Uploaded DEF TypeOK
<1>3. tile \in [Slots -> Tile]
  BY DEF TypeOK
<1>4. /\ seen \in [Slots -> Tile] /\ Holders(seen) = Holders(tile)
      /\ \A c : Shown(c, tile) => Shown(c, seen)
  <2>1. D \in [Slots -> BOOLEAN]
    BY Zenon
  <2>2. seen = [s \in Slots |-> [tile[s] EXCEPT !.dirty = D[s]]]
    OBVIOUS
  <2> HIDE DEF D, seen
  <2> QED BY <1>3, <2>1, <2>2, DirtyTiles
<1> HIDE DEF seen
<1>5. /\ unused \in [Slots -> Tile] /\ Holders(unused) = Holders(tile)
      /\ \A c : Shown(c, tile) => Shown(c, unused)
  <2>1. E \in [Slots -> BOOLEAN]
    BY Zenon
  <2>2. unused = [s \in Slots |-> [seen[s] EXCEPT !.dirty = E[s]]]
    BY DEF Unused
  <2> HIDE DEF E, unused
  <2> QED BY <1>4, <2>1, <2>2, DirtyTiles
<1>6. Shown(cache, tile) => Shown(up.cache, tile)
  <2> SUFFICES ASSUME Shown(cache, tile), NEW s \in Slots, tile[s].image # 0
               PROVE  tile[s].path \in Keys /\ up.cache.handle[tile[s].path].id = tile[s].image
    BY DEF Shown
  <2>1. tile[s].path \in Keys /\ cache.handle[tile[s].path].id = tile[s].image
    BY DEF Shown
  <2>2. cache.handle[tile[s].path] # NoHandle
    BY <2>1 DEF NoHandle
  <2> QED BY <1>2, <2>1, <2>2 DEF Keeps
<1>7. /\ f.cache = IF layout /\ gridView THEN a.cache ELSE up.cache
      /\ f.tile = IF layout /\ gridView THEN a.tile ELSE seen
      /\ f.results = IF Refreshes \/ layout THEN <<>> ELSE results
      /\ f.refreshPending = (refreshPending /\ ~update /\ ~(layout /\ up.changed))
  BY <1>1 DEF Prepared, seen
<1>8. f.refreshPending \in BOOLEAN
  BY <1>7, Zenon
<1>9. b.cache = up.cache /\ b.tile = unused
  OBVIOUS
<1> HIDE DEF unused, b, K
<1>10. /\ a.tile \in [Slots -> Tile]
       /\ Sound(a.cache, Holders(a.tile), K)
       /\ Shown(up.cache, unused) => Shown(a.cache, a.tile)
  <2>1. b.tile \in [Slots -> Tile] /\ Sound(b.cache, Holders(b.tile), K)
    BY <1>2, <1>5, <1>9
  <2> QED BY <1>9, <2>1, BindAllSound
<1> HIDE DEF a
<1>11. /\ f.tile \in [Slots -> Tile] /\ Sound(f.cache, Holders(f.tile), K)
       /\ Shown(cache, tile) => Shown(f.cache, f.tile)
  <2>1. CASE layout /\ gridView
    BY <1>5, <1>6, <1>7, <1>10, <2>1
  <2>2. CASE ~(layout /\ gridView)
    BY <1>2, <1>4, <1>6, <1>7, <2>2
  <2> QED BY <2>1, <2>2
<1> QED BY <1>7, <1>8, <1>11 DEF K

-----------------------------------------------------------------------------
(* The invariant *)

SoundInv == Sound(cache, Holders(tile), Elsewhere)

DialogInv ==
    /\ ~open => tile = [s \in Slots |-> NewTile]
    /\ shutdown => ~open

\* The scene is never ahead of the context; while nothing is lost and the scene has
\* been drawn with this context, the tiles draw what is theirs.
GraphicsInv ==
    /\ sceneGeneration <= gpuGeneration
    /\ recovery # "given up" => attempts < MaxAttempts
    /\ ~graphicsReset /\ ~Stale => Shown(cache, tile)

Inv == TypeOK /\ SoundInv /\ Apart /\ DialogInv /\ GraphicsInv

LEMMA NewTiles ==
    /\ [s \in Slots |-> NewTile] \in [Slots -> Tile]
    /\ Holders([s \in Slots |-> NewTile]) = [k \in Keys |-> {}]
    /\ \A c : Shown(c, [s \in Slots |-> NewTile])
<1>1. NewTile \in Tile /\ NewTile.path = None /\ NewTile.image = 0
  BY DEF NewTile, Tile
<1>2. \A k \in Keys : {s \in Slots : [x \in Slots |-> NewTile][s].path = k} = {}
  BY <1>1, NoneIsNoKey
<1>3. Holders([s \in Slots |-> NewTile]) = [k \in Keys |-> {}]
  BY <1>2 DEF Holders
<1> QED BY <1>1, <1>3 DEF Shown

LEMMA InvInit == Init => Inv
<1> SUFFICES ASSUME Init PROVE Inv
  OBVIOUS
<1> USE DEF Init, ServiceInit
<1>1. tile \in [Slots -> Tile] /\ tile = [s \in Slots |-> NewTile]
  BY NewTiles
<1>2. /\ cache \in CacheType /\ cache.refs = [k \in Keys |-> 0] /\ cache.handle = [k \in Keys |-> NoHandle]
      /\ cache.inFlight = {} /\ cache.queue = <<>> /\ cache.textures = {} /\ cache.generation = 1
  BY AllNoHandle DEF CacheType
<1>3. results = <<>> /\ results \in Seq(DecodedJob) /\ Len(results) = 0
  OBVIOUS
<1>4. \A w \in Workers : decoding[w] = None
  OBVIOUS
<1>5. ServiceTypeOK
  BY <1>2, <1>3, <1>4 DEF ServiceTypeOK
<1>6. TypeOK
  <2>1. 0 \in 0..MaxAttempts /\ 0 \in 0..MaxResets
    BY DialogConstants
  <2>2. item \in [Slots -> Items]
    BY DEF Items
  <2>3. recovery \in {"none", "queued", "waiting", "given up"} /\ (recovery # "none" <=> graphicsReset)
    OBVIOUS
  <2> QED BY <1>1, <1>5, <2>1, <2>2, <2>3 DEF TypeOK
<1>7. Elsewhere = {}
  BY <1>3, <1>4, NoneIsNoKey DEF Elsewhere
<1>8. Apart
  BY <1>3, <1>4 DEF Apart
<1>9. SoundInv
  <2>1. Textured(cache)
    BY <1>2, NoTextures
  <2>2. Counted(cache, Holders(tile))
    BY <1>1, <1>2, NewTiles, FS_EmptySet DEF Counted
  <2>3. Placed(cache, {})
    BY <1>2 DEF Placed
  <2> QED BY <1>2, <1>7, <2>1, <2>2, <2>3 DEF SoundInv, Sound
<1>10. DialogInv
  BY <1>1 DEF DialogInv
<1>11. GraphicsInv
  BY <1>1, NewTiles, DialogConstants DEF GraphicsInv
<1> QED BY <1>6, <1>8, <1>9, <1>10, <1>11 DEF Inv

\* Steps that leave the decodes alone.
LEMMA SameDecodes ==
    ASSUME Apart, decoding' = decoding, results' = results
    PROVE  Apart' /\ Elsewhere' = Elsewhere
BY DEF Apart, Elsewhere

LEMMA Numbers ==
    ASSUME TypeOK
    PROVE  /\ gpuGeneration \in Nat /\ sceneGeneration \in Nat
           /\ 0 <= gpuGeneration /\ gpuGeneration <= gpuGeneration
<1>1. gpuGeneration \in Nat /\ sceneGeneration \in Nat
  BY Zenon DEF TypeOK
<1> QED BY <1>1

LEMMA ResultsType ==
    ASSUME TypeOK
    PROVE  results \in Seq(DecodedJob) /\ <<>> \in Seq(DecodedJob)
<1>1. results \in Seq(DecodedJob)
  BY Zenon DEF TypeOK, ServiceTypeOK
<1> QED BY <1>1

\* Opening, closing and browsing.
LEMMA BrowsingKeepsInv ==
    ASSUME Inv, \/ OpenDialog \/ CloseDialog \/ ApplyFilter \/ SetViewMode \/ RequestLayout
                \/ \E s \in Slots : Scroll(s)
    PROVE  Inv'
<1> USE DEF Inv, SoundInv
<1>0. tile \in [Slots -> Tile] /\ cache \in CacheType
  BY DEF TypeOK, ServiceTypeOK
<1>a. ASSUME decoding' = decoding, results' = results PROVE Apart' /\ Elsewhere' = Elsewhere
  BY <1>a, SameDecodes
<1>1. CASE OpenDialog
  <2>0. 0 <= gpuGeneration
    BY Numbers
  <2> USE <1>1 DEF OpenDialog, serviceVars, appVars
  <2>1. tile' = tile /\ tile' = [s \in Slots |-> NewTile]
    BY DEF DialogInv
  <2>2. TypeOK'
    BY <1>0, <2>1 DEF TypeOK, ServiceTypeOK
  <2>3. SoundInv' /\ Apart'
    BY <1>a, <2>1
  <2>4. DialogInv'
    BY DEF DialogInv
  <2>5. GraphicsInv'
    <3>1. Shown(cache', tile')
      BY <2>1, NewTiles
    <3> QED BY <2>0, <3>1 DEF GraphicsInv
  <2> QED BY <2>2, <2>3, <2>4, <2>5
<1>2. CASE CloseDialog
  <2>0. 0 <= gpuGeneration
    BY Numbers
  <2> USE <1>2 DEF CloseDialog, appVars
  <2>1. tile' \in [Slots -> Tile] /\ Holders(tile') = [k \in Keys |-> {}] /\ \A c : Shown(c, tile')
    BY NewTiles
  <2>2. Sound(cache', Holders(tile'), Elsewhere)
    BY <1>0, <2>1, ReleaseAllSound
  <2>3. cache' \in CacheType
    BY <2>2 DEF Sound
  <2>4. TypeOK'
    BY <2>1, <2>3 DEF TypeOK, ServiceTypeOK, Items
  <2>5. SoundInv' /\ Apart'
    BY <1>a, <2>2
  <2>6. DialogInv'
    BY DEF DialogInv
  <2>7. GraphicsInv'
    <3> QED BY <2>0, <2>1 DEF GraphicsInv
  <2> QED BY <2>4, <2>5, <2>6, <2>7
<1>3. ASSUME ApplyFilter \/ \E s \in Slots : Scroll(s)
      PROVE  /\ tile' \in [Slots -> Tile] /\ Holders(tile') = Holders(tile)
             /\ \A c : Shown(c, tile) => Shown(c, tile')
             /\ item' \in [Slots -> Items]
             /\ open /\ ~shutdown /\ layout' = TRUE /\ gridView' = gridView
             /\ UNCHANGED serviceVars
             /\ UNCHANGED <<open, refreshPending, update, sceneGeneration>>
             /\ UNCHANGED appVars
  <2>1. CASE ApplyFilter
    <3> DEFINE D == [s \in Slots |-> TRUE]
    <3>1. D \in [Slots -> BOOLEAN] /\ tile' = [s \in Slots |-> [tile[s] EXCEPT !.dirty = D[s]]]
      BY <2>1 DEF ApplyFilter
    <3> HIDE DEF D
    <3>2. /\ tile' \in [Slots -> Tile] /\ Holders(tile') = Holders(tile)
          /\ \A c : Shown(c, tile) => Shown(c, tile')
      BY <1>0, <3>1, DirtyTiles
    <3> QED BY <2>1, <3>2 DEF ApplyFilter
  <2>2. ASSUME NEW s \in Slots, Scroll(s)
        PROVE  /\ tile' \in [Slots -> Tile] /\ Holders(tile') = Holders(tile)
               /\ \A c : Shown(c, tile) => Shown(c, tile')
               /\ item' \in [Slots -> Items]
    <3>1. tile' = [tile EXCEPT ![s].dirty = TRUE]
      BY <2>2 DEF Scroll
    <3>2. \A x \in Slots : /\ tile'[x] \in Tile
                           /\ tile'[x].path = tile[x].path /\ tile'[x].image = tile[x].image
      BY <1>0, <3>1 DEF Tile
    <3>3. tile' \in [Slots -> Tile]
      BY <1>0, <3>1, <3>2
    <3>4. item' \in [Slots -> Items]
      BY <2>2 DEF Scroll, TypeOK
    <3> QED BY <3>2, <3>3, <3>4, SameTiles
  <2>3. ASSUME NEW s \in Slots, Scroll(s)
        PROVE  /\ open /\ ~shutdown /\ layout' = TRUE /\ gridView' = gridView
               /\ UNCHANGED serviceVars
               /\ UNCHANGED <<open, refreshPending, update, sceneGeneration>>
               /\ UNCHANGED appVars
    BY <2>3 DEF Scroll
  <2> QED BY <1>3, <2>1, <2>2, <2>3
<1>4. CASE ApplyFilter \/ \E s \in Slots : Scroll(s)
  <2>0. /\ tile' \in [Slots -> Tile] /\ Holders(tile') = Holders(tile)
        /\ \A c : Shown(c, tile) => Shown(c, tile')
        /\ item' \in [Slots -> Items]
        /\ open /\ ~shutdown /\ layout' = TRUE /\ gridView' = gridView
        /\ UNCHANGED serviceVars
        /\ UNCHANGED <<open, refreshPending, update, sceneGeneration>>
        /\ UNCHANGED appVars
    BY <1>3, <1>4
  <2>1. TypeOK'
    <3>1. ServiceTypeOK'
      BY <2>0 DEF TypeOK, ServiceTypeOK, serviceVars
    <3> QED BY <2>0, <3>1 DEF TypeOK, appVars
  <2>2. SoundInv' /\ Apart'
    BY <1>a, <2>0 DEF serviceVars
  <2>3. DialogInv'
    BY <2>0 DEF DialogInv, serviceVars
  <2>4. GraphicsInv'
    BY <2>0 DEF GraphicsInv, Stale, serviceVars, appVars
  <2> QED BY <2>1, <2>2, <2>3, <2>4
<1>5. CASE SetViewMode \/ RequestLayout
  <2>0. /\ gridView' \in BOOLEAN /\ layout' = TRUE
        /\ UNCHANGED serviceVars
        /\ UNCHANGED <<open, refreshPending, item, tile, update, sceneGeneration>>
        /\ UNCHANGED appVars
    BY <1>5 DEF SetViewMode, RequestLayout, dialogVars, TypeOK
  <2>1. TypeOK'
    <3>1. ServiceTypeOK'
      BY <2>0 DEF TypeOK, ServiceTypeOK, serviceVars
    <3> QED BY <2>0, <3>1 DEF TypeOK, appVars
  <2>2. SoundInv' /\ Apart'
    BY <1>a, <2>0 DEF serviceVars
  <2>3. DialogInv'
    BY <2>0 DEF DialogInv, serviceVars
  <2>4. GraphicsInv'
    BY <2>0 DEF GraphicsInv, Stale, serviceVars, appVars
  <2> QED BY <2>1, <2>2, <2>3, <2>4
<1> QED BY <1>1, <1>2, <1>4, <1>5

\* The results a frame uploads are all there were.
LEMMA NoneWaits ==
    ASSUME Apart, ServiceTypeOK, decoding' = decoding, results' = <<>>
    PROVE  Apart' /\ Elsewhere' = Elsewhere \ KeysOf(results, Len(results))
<1>1. Len(results') = 0
  OBVIOUS
<1>2. Apart'
  BY <1>1 DEF Apart
<1>3. \A k \in Keys : k \in Elsewhere' <=> \E w \in Workers : decoding[w] = k
  BY <1>1 DEF Elsewhere
<1>4. \A k : k \in KeysOf(results, Len(results)) <=> \E i \in 1..Len(results) : results[i].key = k
  BY DEF KeysOf
<1>5. \A k \in Keys : k \in Elsewhere' <=> k \in Elsewhere /\ k \notin KeysOf(results, Len(results))
  BY <1>3, <1>4 DEF Apart, Elsewhere
<1>6. Elsewhere' \subseteq Keys /\ Elsewhere \subseteq Keys
  BY DEF Elsewhere
<1> QED BY <1>2, <1>5, <1>6

LEMMA FramesKeepInv ==
    ASSUME Inv, PrepareFrame \/ RenderFrame
    PROVE  Inv'
<1> USE DEF Inv, SoundInv
<1>0. PICK f \in Frames :
          /\ FramePrepared(f)
          /\ \/ tile' = f.tile /\ UNCHANGED sceneGeneration
             \/ /\ Stale /\ tile' = [s \in Slots |-> [f.tile[s] EXCEPT !.image = 0]]
                /\ sceneGeneration' = gpuGeneration
  <2>1. CASE PrepareFrame
    BY <2>1 DEF PrepareFrame
  <2>2. CASE RenderFrame /\ Stale
    BY <2>2 DEF RenderFrame
  <2>3. CASE RenderFrame /\ ~Stale
    BY <2>3 DEF RenderFrame
  <2> QED BY <2>1, <2>2, <2>3
<1>1. /\ open /\ ~shutdown
      /\ UNCHANGED <<at, decoding, eventFd, shutdown, open, gridView, item, appVars>>
  BY DEF PrepareFrame, RenderFrame
<1>2. /\ f.tile \in [Slots -> Tile]
      /\ f.refreshPending \in BOOLEAN
      /\ IF Refreshes \/ layout
         THEN /\ f.results = <<>>
              /\ Sound(f.cache, Holders(f.tile), Elsewhere \ KeysOf(results, Len(results)))
         ELSE f.results = results /\ Sound(f.cache, Holders(f.tile), Elsewhere)
      /\ Shown(cache, tile) => Shown(f.cache, f.tile)
  BY FrameSound
<1>3. /\ cache' = f.cache /\ results' = f.results /\ refreshPending' = f.refreshPending
      /\ update' = FALSE /\ layout' = Refreshes
  BY <1>0 DEF FramePrepared
<1>4. Apart' /\ Sound(cache', Holders(f.tile), Elsewhere')
  <2>1. CASE Refreshes \/ layout
    BY <1>1, <1>2, <1>3, <2>1, NoneWaits DEF TypeOK
  <2>2. CASE ~(Refreshes \/ layout)
    BY <1>1, <1>2, <1>3, <2>2, SameDecodes
  <2> QED BY <2>1, <2>2
<1>5. CASE tile' = f.tile /\ UNCHANGED sceneGeneration
  <2>1. /\ tile' \in [Slots -> Tile] /\ Holders(tile') = Holders(f.tile)
        /\ sceneGeneration' \in Nat /\ sceneGeneration' <= gpuGeneration
    BY <1>2, <1>5 DEF TypeOK, GraphicsInv
  <2>2. ~graphicsReset /\ ~Stale' => Shown(cache', tile')
    BY <1>1, <1>2, <1>3, <1>5 DEF GraphicsInv, Stale, appVars
  <2> HIDE DEF Inv
  <2>3. TypeOK'
    <3>1. layout' \in BOOLEAN
      BY <1>3 DEF Refreshes
    <3>2. cache' \in CacheType
      BY <1>4 DEF Sound
    <3>3. results' \in Seq(DecodedJob)
      <4>1. results \in Seq(DecodedJob) /\ <<>> \in Seq(DecodedJob)
        BY ResultsType DEF Inv
      <4> QED BY <1>2, <1>3, <4>1
    <3> QED BY <1>1, <1>2, <1>3, <2>1, <3>1, <3>2, <3>3 DEF Inv, TypeOK, ServiceTypeOK, appVars
  <2>4. SoundInv'
    BY <1>4, <2>1
  <2>5. DialogInv'
    BY <1>1 DEF DialogInv
  <2>6. GraphicsInv'
    BY <1>1, <2>1, <2>2 DEF Inv, GraphicsInv, appVars
  <2> QED BY <1>4, <2>3, <2>4, <2>5, <2>6 DEF Inv
<1>6. CASE /\ Stale /\ tile' = [s \in Slots |-> [f.tile[s] EXCEPT !.image = 0]]
           /\ sceneGeneration' = gpuGeneration
  <2> DEFINE t == f.tile
  <2>0. t \in [Slots -> Tile] /\ tile' = [s \in Slots |-> [t[s] EXCEPT !.image = 0]]
    BY <1>2, <1>6
  <2> HIDE DEF t
  <2>a. \A s \in Slots : tile'[s] \in Tile /\ tile'[s].path = t[s].path /\ tile'[s].image = 0
    BY <2>0 DEF Tile
  <2>b. Holders(tile') = Holders(t)
    BY <2>a DEF Holders
  <2>c. tile' \in [Slots -> Tile]
    BY <2>0, <2>a
  <2>1. /\ tile' \in [Slots -> Tile] /\ Holders(tile') = Holders(f.tile)
        /\ sceneGeneration' \in Nat /\ sceneGeneration' <= gpuGeneration
    <3>1. gpuGeneration \in Nat /\ gpuGeneration <= gpuGeneration
      BY Numbers
    <3> QED BY <1>6, <2>b, <2>c, <3>1 DEF t
  <2>2. Shown(cache', tile')
    BY <2>a DEF Shown
  <2> HIDE DEF Inv
  <2>3. TypeOK'
    <3>1. layout' \in BOOLEAN
      BY <1>3 DEF Refreshes
    <3>2. cache' \in CacheType
      BY <1>4 DEF Sound
    <3>3. results' \in Seq(DecodedJob)
      <4>1. results \in Seq(DecodedJob) /\ <<>> \in Seq(DecodedJob)
        BY ResultsType DEF Inv
      <4> QED BY <1>2, <1>3, <4>1
    <3> QED BY <1>1, <1>2, <1>3, <2>1, <3>1, <3>2, <3>3 DEF Inv, TypeOK, ServiceTypeOK, appVars
  <2>4. SoundInv'
    BY <1>4, <2>1
  <2>5. DialogInv'
    BY <1>1 DEF DialogInv
  <2>6. GraphicsInv'
    BY <1>1, <2>1, <2>2 DEF Inv, GraphicsInv, appVars
  <2> QED BY <1>4, <2>3, <2>4, <2>5, <2>6 DEF Inv
<1> QED BY <1>0, <1>5, <1>6

\* Wakeups, the loss of the context and the end.
LEMMA MainKeepsInv ==
    ASSUME Inv, \/ Dispatch \/ GraphicsReset \/ Recover \/ RecoveryThrows
                \/ BeginDestroy \/ Join
    PROVE  Inv'
<1>0. TypeOK /\ SoundInv /\ Apart /\ DialogInv /\ GraphicsInv
  BY DEF Inv
<1>1. CASE Dispatch
  <2>0. /\ eventFd' = FALSE /\ refreshPending' = (refreshPending \/ open) /\ update' = (update \/ open)
        /\ UNCHANGED <<cache, at, decoding, results, shutdown, open, gridView, item, tile, layout,
                       sceneGeneration>>
        /\ UNCHANGED appVars
    BY <1>1 DEF Dispatch
  <2>1. refreshPending' \in BOOLEAN /\ update' \in BOOLEAN
    BY <2>0, Zenon
  <2>2. TypeOK'
    <3>1. ServiceTypeOK'
      BY <1>0, <2>0 DEF TypeOK, ServiceTypeOK
    <3> HIDE <2>0
    <3>2. UNCHANGED <<open, gridView, item, tile, layout, sceneGeneration>> /\ UNCHANGED appVars
      BY <2>0
    <3> QED BY <1>0, <2>1, <3>1, <3>2 DEF TypeOK, appVars
  <2>3. SoundInv' /\ Apart'
    BY <1>0, <2>0, SameDecodes DEF SoundInv
  <2>4. DialogInv'
    BY <1>0, <2>0 DEF DialogInv
  <2>5. GraphicsInv'
    BY <1>0, <2>0 DEF GraphicsInv, Stale, appVars
  <2> QED BY <2>2, <2>3, <2>4, <2>5 DEF Inv
<1>2. CASE GraphicsReset
  <2>0. /\ graphicsReset' = TRUE /\ recovery' = "queued" /\ resets' = resets + 1
        /\ recovery = "none" /\ resets < MaxResets
        /\ UNCHANGED serviceVars /\ UNCHANGED dialogVars /\ UNCHANGED surfaceVars
        /\ UNCHANGED <<gpuGeneration, attempts>>
    BY <1>0, <1>2 DEF GraphicsReset, TypeOK
  <2>1. TypeOK'
    <3>1. ServiceTypeOK'
      BY <1>0, <2>0 DEF TypeOK, ServiceTypeOK, serviceVars
    <3>2. resets' \in 0..MaxResets
      <4>1. resets \in 0..MaxResets /\ MaxResets \in Nat
        BY <1>0, DialogConstants DEF TypeOK
      <4> QED BY <2>0, <4>1
    <3> QED BY <1>0, <2>0, <3>1, <3>2 DEF TypeOK, dialogVars, surfaceVars
  <2>2. SoundInv' /\ Apart'
    BY <1>0, <2>0, SameDecodes DEF SoundInv, serviceVars, dialogVars
  <2>3. DialogInv'
    BY <1>0, <2>0 DEF DialogInv, serviceVars, dialogVars
  <2>4. GraphicsInv'
    BY <1>0, <2>0 DEF GraphicsInv, Stale, surfaceVars
  <2> QED BY <2>1, <2>2, <2>3, <2>4 DEF Inv
<1>3. CASE Recover
  <2>0. /\ cache' = InvalidateGpuResources(AbandonGpuResources(cache))
        /\ graphicsReset' = FALSE /\ recovery' = "none" /\ attempts' = 0
        /\ gpuGeneration' = gpuGeneration + 1
        /\ UNCHANGED <<at, decoding, results, eventFd, shutdown, update, layout,
                       sceneGeneration, resets>>
        /\ UNCHANGED dialogVars
    BY <1>3 DEF Recover
  <2>1. Sound(cache', Holders(tile'), Elsewhere)
    BY <1>0, <2>0, AbandonSound, InvalidateSound DEF SoundInv, dialogVars
  <2>2. cache' \in CacheType
    BY <2>1 DEF Sound
  <2>3. /\ gpuGeneration' \in Nat /\ gpuGeneration' # 0
        /\ sceneGeneration' # gpuGeneration' /\ sceneGeneration' <= gpuGeneration'
    <3>1. gpuGeneration \in Nat /\ sceneGeneration \in Nat /\ sceneGeneration <= gpuGeneration
      BY <1>0, Numbers, Zenon DEF GraphicsInv
    <3>2. gpuGeneration' = gpuGeneration + 1 /\ sceneGeneration' = sceneGeneration
      BY <2>0, Zenon
    <3> QED BY <3>1, <3>2
  <2>4. TypeOK'
    <3>1. ServiceTypeOK'
      BY <1>0, <2>0, <2>2 DEF TypeOK, ServiceTypeOK
    <3>2. attempts' \in 0..MaxAttempts
      BY <2>0, DialogConstants
    <3> QED BY <1>0, <2>0, <2>3, <3>1, <3>2 DEF TypeOK, dialogVars
  <2>5. SoundInv' /\ Apart'
    BY <1>0, <2>0, <2>1, SameDecodes DEF SoundInv
  <2>6. DialogInv'
    BY <1>0, <2>0 DEF DialogInv, dialogVars
  <2>7. GraphicsInv'
    <3>1. attempts' < MaxAttempts
      BY <2>0, DialogConstants
    <3>2. Stale'
      BY <2>0, <2>3 DEF Stale
    <3> QED BY <2>3, <3>1, <3>2 DEF GraphicsInv
  <2> QED BY <2>4, <2>5, <2>6, <2>7 DEF Inv
<1>4. CASE RecoveryThrows
  <2>0. /\ cache' = AbandonGpuResources(cache) /\ attempts' = attempts + 1
        /\ recovery' = IF attempts + 1 >= MaxAttempts THEN "given up" ELSE "waiting"
        /\ recovery \in {"queued", "waiting"}
        /\ UNCHANGED <<at, decoding, results, eventFd, shutdown, graphicsReset, gpuGeneration, resets>>
        /\ UNCHANGED dialogVars /\ UNCHANGED surfaceVars
    BY <1>4 DEF RecoveryThrows
  <2>a. graphicsReset /\ attempts < MaxAttempts /\ attempts \in 0..MaxAttempts
    <3>1. recovery # "none" /\ recovery # "given up"
      BY <2>0
    <3>2. (recovery # "none" <=> graphicsReset) /\ attempts \in 0..MaxAttempts
      BY <1>0, Zenon DEF TypeOK
    <3> QED BY <1>0, <3>1, <3>2 DEF GraphicsInv
  <2>1. Sound(cache', Holders(tile'), Elsewhere)
    BY <1>0, <2>0, AbandonSound DEF SoundInv, dialogVars
  <2>2. cache' \in CacheType
    BY <2>1 DEF Sound
  <2>3. /\ attempts' \in 0..MaxAttempts /\ recovery' \in {"waiting", "given up"}
        /\ recovery' # "given up" => attempts' < MaxAttempts
    <3>1. MaxAttempts \in Nat
      BY DialogConstants
    <3>2. /\ attempts' = attempts + 1
          /\ recovery' = IF attempts + 1 >= MaxAttempts THEN "given up" ELSE "waiting"
      BY <2>0, Zenon
    <3>3. attempts < MaxAttempts /\ attempts \in 0..MaxAttempts
      BY <2>a
    <3>4. attempts' \in 0..MaxAttempts
      <4>1. attempts + 1 \in 0..MaxAttempts
        BY <3>1, <3>3
      <4> QED BY <3>2, <4>1, Zenon
    <3>5. CASE attempts + 1 >= MaxAttempts
      BY <3>2, <3>4, <3>5
    <3>6. CASE ~(attempts + 1 >= MaxAttempts)
      BY <3>1, <3>2, <3>3, <3>4, <3>6
    <3> QED BY <3>5, <3>6
  <2>4. TypeOK'
    <3>1. ServiceTypeOK'
      BY <1>0, <2>0, <2>2 DEF TypeOK, ServiceTypeOK
    <3>2. recovery' # "none" /\ recovery' \in {"none", "queued", "waiting", "given up"}
      BY <2>3
    <3>3. graphicsReset' /\ graphicsReset' = graphicsReset
      BY <2>0, <2>a
    <3>4. UNCHANGED <<gpuGeneration, resets>>
      BY <2>0
    <3> QED BY <1>0, <2>0, <2>3, <3>1, <3>2, <3>3, <3>4 DEF TypeOK, dialogVars, surfaceVars
  <2>5. SoundInv' /\ Apart'
    BY <1>0, <2>0, <2>1, SameDecodes DEF SoundInv
  <2>6. DialogInv'
    BY <1>0, <2>0 DEF DialogInv, dialogVars
  <2>7. GraphicsInv'
    BY <1>0, <2>0, <2>a, <2>3 DEF GraphicsInv, surfaceVars
  <2> QED BY <2>4, <2>5, <2>6, <2>7 DEF Inv
<1>5. CASE BeginDestroy
  <2>0. /\ ~open /\ shutdown' = TRUE
        /\ UNCHANGED <<cache, at, decoding, results, eventFd>>
        /\ UNCHANGED dialogVars /\ UNCHANGED surfaceVars /\ UNCHANGED appVars
    BY <1>5 DEF BeginDestroy
  <2>1. TypeOK'
    <3>1. ServiceTypeOK'
      BY <1>0, <2>0 DEF TypeOK, ServiceTypeOK
    <3> QED BY <1>0, <2>0, <3>1 DEF TypeOK, dialogVars, surfaceVars, appVars
  <2>2. SoundInv' /\ Apart'
    BY <1>0, <2>0, SameDecodes DEF SoundInv, dialogVars
  <2>3. DialogInv'
    BY <1>0, <2>0 DEF DialogInv, dialogVars
  <2>4. GraphicsInv'
    BY <1>0, <2>0 DEF GraphicsInv, Stale, dialogVars, surfaceVars, appVars
  <2> QED BY <2>1, <2>2, <2>3, <2>4 DEF Inv
<1>6. CASE Join
  <2>0. /\ shutdown /\ cache' = DeleteAllTextures(cache) /\ eventFd' = FALSE
        /\ UNCHANGED <<at, decoding, results, shutdown>>
        /\ UNCHANGED dialogVars /\ UNCHANGED surfaceVars /\ UNCHANGED appVars
    BY <1>6 DEF Join
  <2>1. tile = [s \in Slots |-> NewTile] /\ tile' = tile
    BY <1>0, <2>0 DEF DialogInv, dialogVars
  <2>2. Sound(cache', Holders(tile'), Elsewhere)
    <3>1. \A k \in Keys : Holders(tile)[k] = {}
      BY <2>1, NewTiles
    <3> QED BY <1>0, <2>0, <2>1, <3>1, DeleteAllSound DEF SoundInv
  <2>3. cache' \in CacheType
    BY <2>2 DEF Sound
  <2>4. TypeOK'
    <3>1. ServiceTypeOK'
      BY <1>0, <2>0, <2>3 DEF TypeOK, ServiceTypeOK
    <3> QED BY <1>0, <2>0, <3>1 DEF TypeOK, dialogVars, surfaceVars, appVars
  <2>5. SoundInv' /\ Apart'
    BY <1>0, <2>0, <2>2, SameDecodes DEF SoundInv
  <2>6. DialogInv'
    BY <1>0, <2>0 DEF DialogInv, dialogVars
  <2>7. GraphicsInv'
    <3>1. Shown(cache', tile')
      BY <2>1, NewTiles
    <3> QED BY <1>0, <2>0, <3>1 DEF GraphicsInv, Stale, surfaceVars, appVars
  <2> QED BY <2>4, <2>5, <2>6, <2>7 DEF Inv
<1> QED BY <1>1, <1>2, <1>3, <1>4, <1>5, <1>6

\* Decoding.
LEMMA WorkersKeepInv ==
    ASSUME Inv, NEW w \in Workers, WorkerThread(w)
    PROVE  Inv'
<1>0. TypeOK /\ SoundInv /\ Apart /\ DialogInv /\ GraphicsInv /\ ServiceTypeOK
  BY DEF Inv, TypeOK
<1>t. /\ cache \in CacheType
      /\ at \in [Workers -> {"waiting", "decoding", "pushed", "exited"}]
      /\ decoding \in [Workers -> Keys \cup {None}]
      /\ \A v \in Workers : (decoding[v] # None) <=> (at[v] = "decoding")
      /\ results \in Seq(DecodedJob)
      /\ eventFd \in BOOLEAN /\ shutdown \in BOOLEAN
  BY <1>0, Zenon DEF ServiceTypeOK
<1>u. UNCHANGED dialogVars /\ UNCHANGED surfaceVars /\ UNCHANGED appVars
  BY DEF WorkerThread
<1>v. ASSUME ServiceTypeOK' PROVE TypeOK'
  BY <1>0, <1>u, <1>v DEF TypeOK, dialogVars, surfaceVars, appVars
<1>1. CASE TakeJob(w)
  <2> DEFINE k == Head(cache.queue)
  <2>0. /\ at[w] = "waiting" /\ ~shutdown /\ cache.queue # <<>>
        /\ at' = [at EXCEPT ![w] = "decoding"] /\ decoding' = [decoding EXCEPT ![w] = k]
        /\ cache' = [cache EXCEPT !.queue = Tail(@)]
        /\ UNCHANGED <<results, eventFd, shutdown>>
    BY <1>1 DEF TakeJob
  <2> HIDE DEF k
  <2>1. /\ k \in Keys /\ k \notin Elsewhere
        /\ Sound(cache', Holders(tile), Elsewhere \cup {k})
        /\ cache'.handle = cache.handle
    BY <1>0, <2>0, TakenSound DEF SoundInv, k
  <2>2. cache' \in CacheType
    BY <2>1 DEF Sound
  <2>3. decoding[w] = None /\ k # None
    BY <1>t, <2>0, <2>1, NoneIsNoKey
  <2>4. decoding'[w] = k /\ at'[w] = "decoding"
        /\ \A v \in Workers : v # w => decoding'[v] = decoding[v] /\ at'[v] = at[v]
    BY <1>t, <2>0
  <2>5. ServiceTypeOK'
    <3>1. at' \in [Workers -> {"waiting", "decoding", "pushed", "exited"}]
      BY <1>t, <2>0
    <3>2. decoding' \in [Workers -> Keys \cup {None}]
      BY <1>t, <2>0, <2>1
    <3>3. \A v \in Workers : (decoding'[v] # None) <=> (at'[v] = "decoding")
      BY <1>t, <2>3, <2>4
    <3> QED BY <1>t, <2>0, <2>2, <3>1, <3>2, <3>3 DEF ServiceTypeOK
  <2>6. \A j \in Keys : (\E v \in Workers : decoding'[v] = j) <=> (\E v \in Workers : decoding[v] = j) \/ j = k
    BY <2>3, <2>4, NoneIsNoKey
  <2>7. Elsewhere' = Elsewhere \cup {k}
    BY <2>0, <2>1, <2>6 DEF Elsewhere
  <2>8. Apart'
    <3>1. \A v \in Workers : decoding[v] # k
      BY <2>1 DEF Elsewhere
    <3>2. \A i \in 1..Len(results) : results[i].key # k
      BY <2>1 DEF Elsewhere
    <3>3. \A u, v \in Workers : decoding'[u] = decoding'[v] /\ decoding'[u] # None => u = v
      BY <1>0, <2>4, <3>1 DEF Apart
    <3>4. \A u \in Workers, i \in 1..Len(results) : decoding'[u] # results[i].key
      BY <1>0, <2>4, <3>2 DEF Apart
    <3> QED BY <1>0, <2>0, <3>3, <3>4 DEF Apart
  <2>9. SoundInv'
    BY <1>u, <2>1, <2>7 DEF SoundInv, dialogVars
  <2>10. DialogInv'
    BY <1>0, <1>u, <2>0 DEF DialogInv, dialogVars
  <2>11. GraphicsInv'
    <3>1. Shown(cache, tile) => Shown(cache', tile)
      BY <2>1 DEF Shown
    <3> QED BY <1>0, <1>u, <3>1 DEF GraphicsInv, Stale, dialogVars, surfaceVars, appVars
  <2> QED BY <1>v, <2>5, <2>8, <2>9, <2>10, <2>11 DEF Inv
<1>2. CASE PushResult(w)
  <2> DEFINE k == decoding[w]
             n == Len(results)
  <2>0. PICK ok \in BOOLEAN : results' = Append(results, [key |-> k, ok |-> ok])
    BY <1>2 DEF PushResult
  <2>1. /\ at[w] = "decoding"
        /\ at' = [at EXCEPT ![w] = "pushed"] /\ decoding' = [decoding EXCEPT ![w] = None]
        /\ UNCHANGED <<cache, eventFd, shutdown>>
    BY <1>2 DEF PushResult
  <2>2. k \in Keys /\ k # None
    BY <1>t, <2>1
  <2> DEFINE job == [key |-> k, ok |-> ok]
  <2>3. job \in DecodedJob /\ job.key = k
    BY <2>2 DEF DecodedJob
  <2>4. results' = Append(results, job)
    BY <2>0
  <2> HIDE DEF job, n
  <2>5. /\ results' \in Seq(DecodedJob) /\ Len(results') = n + 1 /\ n \in Nat
        /\ \A i \in 1..n : results'[i] = results[i]
        /\ results'[n + 1] = job
    BY <1>t, <2>3, <2>4, AppendProperties, LenProperties DEF n
  <2>6. \A i \in 1..Len(results') : i \in 1..n \/ i = n + 1
    BY <2>5
  <2>7. n + 1 \in 1..Len(results') /\ \A i \in 1..n : i \in 1..Len(results')
    BY <2>5
  <2>8. decoding'[w] = None /\ at'[w] = "pushed"
        /\ \A v \in Workers : v # w => decoding'[v] = decoding[v] /\ at'[v] = at[v]
    BY <1>t, <2>1
  <2>9. /\ \A u, v \in Workers : decoding[u] = decoding[v] /\ decoding[u] # None => u = v
        /\ \A i, j \in 1..n : results[i].key = results[j].key => i = j
        /\ \A v \in Workers, i \in 1..n : decoding[v] # results[i].key
    BY <1>0 DEF Apart, n
  <2>k. k = decoding[w]
    OBVIOUS
  <2> HIDE DEF k
  <2>10. ServiceTypeOK'
    <3>1. at' \in [Workers -> {"waiting", "decoding", "pushed", "exited"}]
      BY <1>t, <2>1
    <3>2. decoding' \in [Workers -> Keys \cup {None}]
      BY <1>t, <2>1
    <3>3. \A v \in Workers : (decoding'[v] # None) <=> (at'[v] = "decoding")
      BY <1>t, <2>8
    <3> QED BY <1>t, <2>1, <2>5, <3>1, <3>2, <3>3 DEF ServiceTypeOK
  <2>11. Elsewhere' = Elsewhere
    <3>1. \A j \in Keys : (\E i \in 1..Len(results') : results'[i].key = j)
                            <=> (\E i \in 1..n : results[i].key = j) \/ j = k
      BY <2>3, <2>5, <2>6, <2>7
    <3>2. \A j \in Keys : (\E v \in Workers : decoding[v] = j)
                            <=> (\E v \in Workers : decoding'[v] = j) \/ j = k
      BY <2>8, <2>k, NoneIsNoKey
    <3>3. \A j \in Keys : j = k => \E v \in Workers : decoding[v] = j
      BY <2>k
    <3> QED BY <3>1, <3>2, <3>3 DEF Elsewhere, n
  <2>12. Apart'
    <3>1. \A u, v \in Workers : decoding'[u] = decoding'[v] /\ decoding'[u] # None => u = v
      BY <2>8, <2>9
    <3>2. \A i, j \in 1..Len(results') : results'[i].key = results'[j].key => i = j
      BY <2>3, <2>5, <2>6, <2>9, <2>k
    <3>3. \A v \in Workers, i \in 1..Len(results') : decoding'[v] # results'[i].key
      <4> SUFFICES ASSUME NEW v \in Workers, NEW i \in 1..Len(results')
                   PROVE  decoding'[v] # results'[i].key
        OBVIOUS
      <4>1. \A j \in 1..n : results[j].key # None
        <5>1. \A j \in 1..n : results[j] \in DecodedJob
          BY <1>t, ElementOfSeq DEF n
        <5> QED BY <5>1, NoneIsNoKey DEF DecodedJob
      <4>2. CASE v = w
        BY <2>2, <2>3, <2>5, <2>6, <2>8, <4>1, <4>2
      <4>3. CASE v # w
        BY <2>2, <2>3, <2>5, <2>6, <2>8, <2>9, <2>k, <4>3
      <4> QED BY <4>2, <4>3
    <3> QED BY <3>1, <3>2, <3>3 DEF Apart
  <2>13. SoundInv'
    BY <1>0, <1>u, <2>1, <2>11 DEF SoundInv, dialogVars
  <2>14. DialogInv'
    BY <1>0, <1>u, <2>1 DEF DialogInv, dialogVars
  <2>15. GraphicsInv'
    BY <1>0, <1>u, <2>1 DEF GraphicsInv, Stale, dialogVars, surfaceVars, appVars
  <2> QED BY <1>v, <2>10, <2>12, <2>13, <2>14, <2>15 DEF Inv
<1>3. CASE SignalMain(w) \/ ExitWorker(w)
  <2>0. /\ eventFd' \in BOOLEAN
        /\ at[w] # "decoding"
        /\ \/ at' = [at EXCEPT ![w] = "waiting"]
           \/ at' = [at EXCEPT ![w] = "exited"]
        /\ UNCHANGED <<cache, decoding, results, shutdown>>
    BY <1>t, <1>3 DEF SignalMain, ExitWorker
  <2>1. ServiceTypeOK'
    <3>1. at' \in [Workers -> {"waiting", "decoding", "pushed", "exited"}]
      BY <1>t, <2>0
    <3>2. \A v \in Workers : at'[v] = "decoding" <=> at[v] = "decoding"
      BY <1>t, <2>0
    <3>3. \A v \in Workers : (decoding'[v] # None) <=> (at'[v] = "decoding")
      BY <1>t, <2>0, <3>2
    <3> QED BY <1>t, <2>0, <3>1, <3>3 DEF ServiceTypeOK
  <2>2. SoundInv' /\ Apart'
    BY <1>0, <1>u, <2>0, SameDecodes DEF SoundInv, dialogVars
  <2>3. DialogInv'
    BY <1>0, <1>u, <2>0 DEF DialogInv, dialogVars
  <2>4. GraphicsInv'
    BY <1>0, <1>u, <2>0 DEF GraphicsInv, Stale, dialogVars, surfaceVars, appVars
  <2> QED BY <1>v, <2>1, <2>2, <2>3, <2>4 DEF Inv
<1> QED BY <1>1, <1>2, <1>3 DEF WorkerThread, WorkerStep

LEMMA InvStep == Inv /\ [Next]_vars => Inv'
<1> SUFFICES ASSUME Inv, [Next]_vars PROVE Inv'
  OBVIOUS
<1>1. CASE UNCHANGED vars
  <2>0. UNCHANGED serviceVars /\ UNCHANGED dialogVars /\ UNCHANGED surfaceVars /\ UNCHANGED appVars
    BY <1>1 DEF vars
  <2>1. TypeOK'
    <3>1. ServiceTypeOK'
      BY <2>0 DEF Inv, TypeOK, ServiceTypeOK, serviceVars
    <3> QED BY <2>0, <3>1 DEF Inv, TypeOK, dialogVars, surfaceVars, appVars
  <2>2. SoundInv' /\ Apart'
    BY <2>0, SameDecodes DEF Inv, SoundInv, serviceVars, dialogVars
  <2>3. DialogInv' /\ GraphicsInv'
    BY <2>0 DEF Inv, DialogInv, GraphicsInv, Stale, serviceVars, dialogVars, surfaceVars, appVars
  <2> QED BY <2>1, <2>2, <2>3 DEF Inv
<1>2. CASE Next
  <2>1. CASE MainThread
    BY <2>1, BrowsingKeepsInv, FramesKeepInv, MainKeepsInv DEF MainThread
  <2>2. CASE \E w \in Workers : WorkerThread(w)
    BY <2>2, WorkersKeepInv
  <2> QED BY <1>2, <2>1, <2>2 DEF Next
<1> QED BY <1>1, <1>2

-----------------------------------------------------------------------------
(* What follows *)

LEMMA AtMostOne ==
    ASSUME NEW S, \A x, y \in S : x = y
    PROVE  Cardinality(S) = IF S = {} THEN 0 ELSE 1
<1>1. CASE S = {}
  BY <1>1, FS_EmptySet
<1>2. CASE S # {}
  <2>1. PICK x \in S : TRUE
    BY <1>2
  <2>2. S = {x}
    BY <2>1
  <2> QED BY <1>2, <2>2, FS_Singleton
<1> QED BY <1>1, <1>2

\* Every reachable state satisfies the invariant.
THEOREM Invariant == Spec => []Inv
BY InvInit, InvStep, PTL DEF Spec

\* The variables keep their types: among others, a pending reset always has a recovery
\* that is queued, waiting or given up, and a worker has a key exactly while it decodes.
THEOREM TypeInvariant == Spec => []TypeOK
<1>1. Inv => TypeOK
  BY DEF Inv
<1> QED BY <1>1, Invariant, PTL

\* ThumbnailService: no texture is leaked, and none is used after it was deleted,
\* through any acquire, release, upload, loss of the context and end.
THEOREM TexturesAreOwned == Spec => []TexturesOwned
<1>1. ASSUME Inv PROVE TexturesOwned
  <2>1. Textured(cache)
    BY <1>1 DEF Inv, SoundInv, Sound
  <2>2. ASSUME NEW i \in cache.textures
        PROVE  \E k \in Keys : cache.refs[k] > 0 /\ {j \in Keys : cache.handle[j].id = i} = {k}
    <3>1. PICK k \in Keys : cache.handle[k] # NoHandle /\ cache.handle[k].id = i
      BY <2>1 DEF Textured
    <3>2. \A j \in Keys : cache.handle[j].id = i => j = k
      BY <2>1, <3>1 DEF Textured
    <3>3. {j \in Keys : cache.handle[j].id = i} = {k}
      BY <3>1, <3>2
    <3>4. cache.refs[k] > 0
      BY <2>1, <3>1 DEF Textured
    <3> QED BY <3>3, <3>4
  <2>3. \A k \in Keys : cache.handle[k] # NoHandle =>
          cache.handle[k].id \in cache.textures /\ cache.handle[k].generation = cache.generation
    BY <2>1 DEF Textured
  <2> QED BY <2>2, <2>3 DEF TexturesOwned
<1> QED BY <1>1, Invariant, PTL

\* The queue, the workers and the results together hold every key in flight once, and
\* no other: a thumbnail is not decoded twice, however often it is released and
\* acquired while its decode runs.
THEOREM DecodedOnce == Spec => []OneDecodeEach
<1>1. ASSUME Inv PROVE OneDecodeEach
  <2> SUFFICES ASSUME NEW k \in Keys
               PROVE  Cardinality({i \in DOMAIN cache.queue : cache.queue[i] = k})
                        + Cardinality({w \in Workers : decoding[w] = k})
                        + Cardinality({i \in DOMAIN results : results[i].key = k})
                          = IF k \in cache.inFlight THEN 1 ELSE 0
    BY DEF OneDecodeEach
  <2> DEFINE A == {i \in DOMAIN cache.queue : cache.queue[i] = k}
             B == {w \in Workers : decoding[w] = k}
             C == {i \in DOMAIN results : results[i].key = k}
  <2>1. Placed(cache, Elsewhere) /\ Apart /\ cache.queue \in Seq(Keys) /\ results \in Seq(DecodedJob)
    <3>1. Placed(cache, Elsewhere) /\ Apart /\ cache \in CacheType
      BY <1>1 DEF Inv, SoundInv, Sound
    <3>2. results \in Seq(DecodedJob)
      BY <1>1, ResultsType DEF Inv
    <3> QED BY <3>1, <3>2, Fields
  <2>2. DOMAIN cache.queue = 1..Len(cache.queue) /\ DOMAIN results = 1..Len(results)
    BY <2>1, LenProperties
  <2>3. k # None
    BY NoneIsNoKey
  <2>4. Cardinality(A) = IF A = {} THEN 0 ELSE 1
    <3>1. \A x, y \in A : x = y
      BY <2>1, <2>2 DEF Placed
    <3> HIDE DEF A
    <3> QED BY <3>1, AtMostOne
  <2>5. Cardinality(B) = IF B = {} THEN 0 ELSE 1
    <3>1. \A x, y \in B : x = y
      BY <2>1, <2>3 DEF Apart
    <3> HIDE DEF B
    <3> QED BY <3>1, AtMostOne
  <2>6. Cardinality(C) = IF C = {} THEN 0 ELSE 1
    <3>1. \A x, y \in C : x = y
      BY <2>1, <2>2 DEF Apart
    <3> HIDE DEF C
    <3> QED BY <3>1, AtMostOne
  <2>7. k \in Elsewhere <=> B # {} \/ C # {}
    BY <2>2 DEF Elsewhere
  <2>8. B = {} \/ C = {}
    BY <2>1, <2>2 DEF Apart
  <2>9. k \in cache.inFlight <=> k \in Elsewhere \/ A # {}
    BY <2>1, <2>2 DEF Placed
  <2>10. k \in Elsewhere => A = {}
    BY <2>1, <2>2 DEF Placed
  <2> HIDE DEF A, B, C
  <2>11. Cardinality(A) + Cardinality(B) + Cardinality(C) = IF k \in cache.inFlight THEN 1 ELSE 0
    BY <2>4, <2>5, <2>6, <2>7, <2>8, <2>9, <2>10
  <2> QED BY <2>11 DEF A, B, C
<1> QED BY <1>1, Invariant, PTL

\* A tile never draws the texture of another file, nor a deleted one, however slots are
\* recycled and whenever the context is lost and recovered.
THEOREM OwnImages == Spec => []NoForeignTexture
<1>1. ASSUME Inv PROVE NoForeignTexture
  BY <1>1, NoneIsNoKey DEF Inv, GraphicsInv, Shown, NoForeignTexture
<1> QED BY <1>1, Invariant, PTL

\* A result that waits while the dialog is open is noticed: the wakeup is on its way, or
\* arrived and asked for a phase that uploads.
THEOREM NoResultForgotten == Spec => []ResultsAreNoticed
<1>1. Init => ResultsAreNoticed
  BY DEF Init, ServiceInit, ResultsAreNoticed
<1>2. ASSUME Inv, ResultsAreNoticed, [Next]_vars PROVE ResultsAreNoticed'
  <2>0. at \in [Workers -> {"waiting", "decoding", "pushed", "exited"}]
    BY <1>2, Zenon DEF Inv, TypeOK, ServiceTypeOK
  <2>a. shutdown => ~open
    BY <1>2 DEF Inv, DialogInv
  <2> DEFINE Pushed == \E w \in Workers : at[w] = "pushed"
             Coming == eventFd \/ Pushed \/ (refreshPending /\ update) \/ layout
  <2>b. open /\ results # <<>> => Coming
    BY <1>2 DEF ResultsAreNoticed
  <2>1. CASE UNCHANGED vars
    BY <1>2, <2>1 DEF ResultsAreNoticed, vars, serviceVars, dialogVars, surfaceVars
  <2>2. CASE OpenDialog \/ CloseDialog \/ ApplyFilter \/ SetViewMode \/ RequestLayout
             \/ \E s \in Slots : Scroll(s)
    BY <2>2 DEF OpenDialog, CloseDialog, ApplyFilter, SetViewMode, RequestLayout, Scroll,
                ResultsAreNoticed
  <2>3. CASE Dispatch
    <3>1. open' = open /\ (open => refreshPending' /\ update')
      BY <2>3, Zenon DEF Dispatch
    <3> QED BY <3>1 DEF ResultsAreNoticed
  <2>4. CASE PrepareFrame \/ RenderFrame
    <3>1. PICK f \in Frames : FramePrepared(f)
      BY <2>4 DEF PrepareFrame, RenderFrame
    <3>2. UNCHANGED <<at, eventFd, open>>
      BY <2>4 DEF PrepareFrame, RenderFrame
    <3>3. IF Refreshes \/ layout THEN results' = <<>> ELSE results' = results
      <4>1. PICK up \in Uploads : f = Prepared(up)
        BY DEF Frames
      <4>2. f.results = IF Refreshes \/ layout THEN <<>> ELSE results
        BY <4>1 DEF Prepared
      <4> QED BY <3>1, <4>2 DEF FramePrepared
    <3>4. CASE Refreshes \/ layout
      BY <3>3, <3>4 DEF ResultsAreNoticed
    <3>5. CASE ~(Refreshes \/ layout)
      BY <2>b, <3>2, <3>3, <3>5 DEF Refreshes, ResultsAreNoticed
    <3> QED BY <3>4, <3>5
  <2>5. CASE GraphicsReset \/ Recover \/ RecoveryThrows
    <3>1. UNCHANGED <<at, results, eventFd, open, refreshPending, update, layout>>
      BY <2>5 DEF GraphicsReset, Recover, RecoveryThrows, serviceVars, dialogVars, surfaceVars
    <3> QED BY <2>b, <3>1 DEF ResultsAreNoticed
  <2>6. CASE BeginDestroy \/ Join
    <3>1. ~open /\ open' = open
      BY <2>a, <2>6 DEF BeginDestroy, Join, dialogVars
    <3> QED BY <3>1 DEF ResultsAreNoticed
  <2>7. ASSUME NEW w \in Workers, WorkerThread(w) PROVE ResultsAreNoticed'
    <3>0. UNCHANGED <<open, refreshPending, update, layout>>
      BY <2>7 DEF WorkerThread, dialogVars, surfaceVars
    <3>1. CASE TakeJob(w) \/ ExitWorker(w)
      <4>1. UNCHANGED <<results, eventFd>> /\ at[w] = "waiting"
            /\ \A v \in Workers : v # w => at'[v] = at[v]
        BY <2>0, <3>1 DEF TakeJob, ExitWorker
      <4>2. \A v \in Workers : at[v] = "pushed" => at'[v] = "pushed"
        BY <4>1
      <4> QED BY <2>b, <3>0, <4>1, <4>2 DEF ResultsAreNoticed
    <3>2. CASE PushResult(w)
      <4>1. at'[w] = "pushed"
        BY <2>0, <3>2 DEF PushResult
      <4> QED BY <4>1 DEF ResultsAreNoticed
    <3>3. CASE SignalMain(w)
      BY <3>3 DEF SignalMain, ResultsAreNoticed
    <3> QED BY <2>7, <3>1, <3>2, <3>3 DEF WorkerThread, WorkerStep
  <2> QED BY <1>2, <2>1, <2>2, <2>3, <2>4, <2>5, <2>6, <2>7 DEF Next, MainThread
<1> QED BY <1>1, <1>2, Invariant, PTL DEF Spec
=============================================================================
