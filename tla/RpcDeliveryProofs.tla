-------------------------- MODULE RpcDeliveryProofs ---------------------------
(***************************************************************************)
(* For any threads, readers, instances, batches, takes and failures: what  *)
(* a callback has been given stays valid while it looks at it, the newest  *)
(* sample of each instance is told before the listener returns unless a    *)
(* copied take fails, none is told twice or after a later one, and no      *)
(* callback of a node runs after deleteNode().                             *)
(***************************************************************************)
EXTENDS RpcDelivery, TLAPS

USE DeliveryAssumption

ReaderState ==
    [holder : Threads \cup {Null}, left : SUBSET Sources, loaned : BOOLEAN,
     writers : [Keys -> SUBSET Sources], late : SUBSET Keys,
     history : SUBSET Items, queue : SUBSET Items, lent : SUBSET Items,
     data : Items \cup {Null}, seen : (Keys \X (Nat \ {Notice})) \cup {Null},
     arrived : [Keys -> Nat], told : [Keys -> Nat]]

Listening == {"taking", "giving", "callback", "nested"}

\* Where the listener of a reader is.
Point(r) == IF at[r].holder = Null THEN "out" ELSE pc[at[r].holder]

\* A thread runs the listener of one reader at most, and that of a reader that exists.
Holding ==
    /\ \A r \in Readers : at[r].holder # Null => r \in readers /\ Point(r) \in Listening
    /\ \A r, s \in Readers : at[r].holder # Null /\ at[r].holder = at[s].holder => r = s

\* A request that has begun holds the service's mutex; what it writes to exists.
Locks(u) ==
    /\ pc[u] \in Listening \cup {"writing", "deleting"} => mtx = u
    /\ \A r \in op[u].todo : mtx = u /\ r \in readers /\ "here" \notin at[r].left
    /\ op[u].kind = "publish" => op[u].key \in Keys

Locking == \A u \in Users : Locks(u)

\* A sample that waits or is taken is the newest of its instance and not told yet, and one of
\* an instance that is not alive was left behind.
Fresh(a) ==
    \A i \in a.history \cup a.queue : i[2] # Notice =>
        /\ i[2] = a.arrived[i[1]] /\ i[2] > a.told[i[1]]
        /\ a.writers[i[1]] = {} => i[1] \in a.late

\* The newest sample of an instance has been told, or waits, or is taken, or its instance was
\* left behind and is not alive.
Kept(a) ==
    \A k \in Keys :
        \/ a.told[k] = a.arrived[k]
        \/ <<k, a.arrived[k]>> \in a.history \cup a.queue
        \/ k \in a.late /\ a.writers[k] = {}

Flow(a) ==
    /\ Fresh(a) /\ Kept(a)
    /\ a.history \cap a.queue = {} /\ \A k \in Keys : a.told[k] <= a.arrived[k]

\* What is taken, and what the callback looks at, is on loan or in data_.
Backed(a) ==
    /\ \A i \in a.queue : i \in a.lent \/ a.data = i
    /\ a.seen # Null => a.seen \in a.lent \/ a.data = a.seen

\* What a listener at this point has put behind it.
Settled(a, point) ==
    /\ point \in {"out", "taking"} => a.lent = {} /\ a.queue = {}
    /\ point \in {"out", "taking", "giving"} => a.seen = Null
    /\ point = "out" => \A i \in a.history : i[2] # Notice => i[1] \in a.late

Sound(a, point) == Flow(a) /\ Backed(a) /\ Settled(a, point)

\* The inductive invariant.
IInv ==
    /\ TypeOK /\ Holding /\ Locking /\ readers \subseteq nodes
    /\ \A r \in Readers : Sound(at[r], Point(r))
-----------------------------------------------------------------------------
(* What each step does to the one reader it is about: a is the reader before,
   b after. *)

\* What samples that come change in a reader keeps its type.
LEMMA ArrivedTyped ==
    ASSUME NEW a \in ReaderState, NEW arr \in [Keys -> Nat], NEW hist \in SUBSET Items,
           NEW wri \in [Keys -> SUBSET Sources], NEW h \in Threads \cup {Null}, NEW b,
           b = [a EXCEPT !.arrived = arr, !.writers = wri, !.history = hist, !.holder = h]
    PROVE  b \in ReaderState
<1>1. [a EXCEPT !.arrived = arr, !.holder = h] \in ReaderState
  BY DEF ReaderState
<1> DEFINE c == [a EXCEPT !.arrived = arr, !.holder = h]
<1>2. [c EXCEPT !.writers = wri] \in ReaderState
  <2> HIDE DEF c
  <2> QED BY <1>1 DEF ReaderState, c
<1> QED BY <1>2 DEF ReaderState

\* Samples that come start the listener: each is newer than what was told, and takes the place
\* of an older one that waits.
LEMMA ArriveSound ==
    ASSUME NEW a \in ReaderState, Sound(a, "out"), NEW K \in SUBSET Keys,
           NEW n \in Nat \ {0}, NEW source \in Sources, NEW t \in Threads,
           NEW b, b = [Arrived(a, K, n, source) EXCEPT !.holder = t]
    PROVE  /\ b \in ReaderState /\ Sound(b, "taking") /\ b.holder = t
           /\ b.left = a.left /\ b.seen = a.seen
<1> DEFINE arr == [k \in Keys |-> IF k \in K THEN a.arrived[k] + n ELSE a.arrived[k]]
           wri == [k \in Keys |-> a.writers[k] \cup (IF k \in K THEN {source} ELSE {})]
           old == {i \in a.history : i[2] = Notice \/ i[1] \notin K}
           new == {<<k, a.arrived[k] + n>> : k \in K}
           hist == old \cup new
<1>1. /\ a.queue = {} /\ a.lent = {} /\ a.seen = Null /\ Flow(a)
      /\ \A i \in a.history : i[2] # Notice => i[1] \in a.late
      /\ a.history \in SUBSET Items /\ a.arrived \in [Keys -> Nat] /\ a.told \in [Keys -> Nat]
      /\ a.writers \in [Keys -> SUBSET Sources]
  BY DEF Sound, Settled, ReaderState
<1>2. /\ arr \in [Keys -> Nat] /\ wri \in [Keys -> SUBSET Sources]
      /\ old \in SUBSET Items /\ hist \in SUBSET Items
  BY <1>1 DEF Items
<1>3. \A k \in Keys : /\ k \in K => arr[k] = a.arrived[k] + n /\ source \in wri[k]
                      /\ k \notin K => arr[k] = a.arrived[k] /\ wri[k] = a.writers[k]
  BY <1>1
<1>4. \A i \in old : i \in a.history /\ (i[2] = Notice \/ i[1] \notin K)
  OBVIOUS
<1>5. \A i \in a.history : i[1] \notin K => i \in old
  OBVIOUS
<1>6. (\A i \in new : i[1] \in K /\ i[2] = arr[i[1]]) /\ \A k \in K : <<k, arr[k]>> \in new
  BY <1>3
<1>7. b = [a EXCEPT !.arrived = arr, !.writers = wri, !.history = hist, !.holder = t]
  BY DEF Arrived, ReaderState
<1> HIDE DEF hist
<1> HIDE DEF arr, wri, old, new
<1>8. /\ b \in ReaderState /\ b.holder = t /\ b.left = a.left /\ b.seen = Null
      /\ b.queue = {} /\ b.lent = {} /\ b.told = a.told /\ b.late = a.late
      /\ b.arrived = arr /\ b.writers = wri /\ b.history = hist
  <2>1. b \in ReaderState
    BY <1>2, <1>7, ArrivedTyped
  <2>2. /\ b.holder = t /\ b.left = a.left /\ b.seen = a.seen /\ b.queue = a.queue
        /\ b.lent = a.lent /\ b.told = a.told /\ b.late = a.late
    BY <1>7 DEF ReaderState
  <2>3. b.arrived = arr /\ b.writers = wri /\ b.history = hist
    BY <1>7 DEF ReaderState
  <2> QED BY <1>1, <2>1, <2>2, <2>3
<1>9. \A k \in Keys : a.told[k] <= a.arrived[k] /\ a.told[k] \in Nat /\ a.arrived[k] \in Nat
  BY <1>1 DEF Flow
<1> USE DEF hist
<1>10. Fresh(b)
  <2>1. SUFFICES ASSUME NEW i \in old \cup new, i[2] # Notice
                 PROVE  /\ i[2] = arr[i[1]] /\ i[2] > a.told[i[1]]
                        /\ wri[i[1]] = {} => i[1] \in a.late
    BY <1>8 DEF Fresh
  <2>2. CASE i \in old
    <3>1. i \in a.history /\ i[1] \notin K /\ i[1] \in Keys
      BY <1>1, <1>4, <2>1, <2>2 DEF Items
    <3> QED BY <1>1, <1>3, <2>1, <3>1 DEF Flow, Fresh
  <2>3. CASE i \in new
    <3>1. i[1] \in K /\ i[1] \in Keys /\ i[2] = arr[i[1]]
      BY <1>6, <2>3
    <3> QED BY <1>3, <1>9, <3>1
  <2> QED BY <2>2, <2>3
<1>11. Kept(b)
  <2>1. SUFFICES ASSUME NEW k \in Keys
                 PROVE  \/ a.told[k] = arr[k]
                        \/ <<k, arr[k]>> \in old \cup new
                        \/ k \in a.late /\ wri[k] = {}
    BY <1>8 DEF Kept
  <2>2. CASE k \in K
    BY <1>6, <2>2
  <2>3. CASE k \notin K
    <3>1. \/ a.told[k] = a.arrived[k] \/ <<k, a.arrived[k]>> \in a.history
          \/ k \in a.late /\ a.writers[k] = {}
      BY <1>1 DEF Flow, Kept
    <3> QED BY <1>3, <1>5, <2>3, <3>1
  <2> QED BY <2>2, <2>3
<1>12. \A k \in Keys : a.told[k] <= arr[k]
  BY <1>3, <1>9
<1>13. Backed(b) /\ Settled(b, "taking")
  BY <1>8 DEF Backed, Settled
<1> QED BY <1>1, <1>8, <1>10, <1>11, <1>12, <1>13 DEF Sound, Flow

\* What a source that leaves changes in a reader keeps its type.
LEMMA DepartedTyped ==
    ASSUME NEW a \in ReaderState, NEW left \in SUBSET Sources, NEW hist \in SUBSET Items,
           NEW wri \in [Keys -> SUBSET Sources], NEW h \in Threads \cup {Null}, NEW b,
           b = [a EXCEPT !.left = left, !.writers = wri, !.history = hist, !.holder = h]
    PROVE  b \in ReaderState
<1>1. [a EXCEPT !.left = left, !.holder = h] \in ReaderState
  BY DEF ReaderState
<1> DEFINE c == [a EXCEPT !.left = left, !.holder = h]
<1>2. [c EXCEPT !.writers = wri] \in ReaderState
  <2> HIDE DEF c
  <2> QED BY <1>1 DEF ReaderState, c
<1> QED BY <1>2 DEF ReaderState

\* A source that leaves a reader at rest loses no more than what was left behind; notices are
\* no samples.
LEMMA LeaveSound ==
    ASSUME NEW a \in ReaderState, Sound(a, "out"), NEW source \in Sources,
           NEW h \in Threads \cup {Null}, NEW b, b = [Departed(a, source) EXCEPT !.holder = h]
    PROVE  /\ b \in ReaderState /\ Sound(b, "out") /\ Sound(b, "taking") /\ b.holder = h
           /\ b.left = a.left \cup {source} /\ b.seen = a.seen
<1> DEFINE wri == [k \in Keys |-> a.writers[k] \ {source}]
           notes == Orphans(a, source) \X {Notice}
           hist == a.history \cup notes
<1>1. /\ a.queue = {} /\ a.lent = {} /\ a.seen = Null /\ Flow(a)
      /\ \A i \in a.history : i[2] # Notice => i[1] \in a.late
      /\ a.history \in SUBSET Items /\ a.writers \in [Keys -> SUBSET Sources]
  BY DEF Sound, Settled, ReaderState
<1>2. /\ wri \in [Keys -> SUBSET Sources] /\ hist \in SUBSET Items
      /\ \A k \in Keys : a.writers[k] = {} => wri[k] = {}
      /\ \A i \in notes : i[2] = Notice
  BY <1>1 DEF Items, Orphans, Notice
<1>3. b = [a EXCEPT !.left = a.left \cup {source}, !.writers = wri,
                    !.history = hist, !.holder = h]
  BY DEF Departed, ReaderState
<1> HIDE DEF hist
<1> HIDE DEF wri, notes
<1>4. /\ b \in ReaderState /\ b.holder = h /\ b.left = a.left \cup {source}
      /\ b.seen = Null /\ b.queue = {} /\ b.lent = {} /\ b.told = a.told /\ b.late = a.late
      /\ b.arrived = a.arrived /\ b.writers = wri /\ b.history = hist
  <2>1. a.left \cup {source} \in SUBSET Sources
    BY DEF ReaderState
  <2>2. b \in ReaderState
    <3> DEFINE lft == a.left \cup {source}
    <3>1. lft \in SUBSET Sources /\ wri \in [Keys -> SUBSET Sources] /\ hist \in SUBSET Items
      BY <1>2, <2>1
    <3>2. b = [a EXCEPT !.left = lft, !.writers = wri, !.history = hist, !.holder = h]
      BY <1>3
    <3> HIDE DEF lft
    <3> QED BY <3>1, <3>2, DepartedTyped
  <2>3. /\ b.holder = h /\ b.left = a.left \cup {source} /\ b.seen = a.seen
        /\ b.queue = a.queue /\ b.lent = a.lent /\ b.told = a.told /\ b.late = a.late
    BY <1>3 DEF ReaderState
  <2>4. b.arrived = a.arrived /\ b.writers = wri /\ b.history = hist
    BY <1>3 DEF ReaderState
  <2> QED BY <1>1, <2>2, <2>3, <2>4
<1> USE DEF hist
<1>5. Flow(b)
  BY <1>1, <1>2, <1>4 DEF Flow, Fresh, Kept
<1>6. Backed(b) /\ Settled(b, "out") /\ Settled(b, "taking")
  BY <1>1, <1>2, <1>4 DEF Backed, Settled
<1> QED BY <1>1, <1>4, <1>5, <1>6 DEF Sound

\* The reader when these have been taken, i into data_ if they are copied.
Taken(a, items, i) ==
    [a EXCEPT !.history = a.history \ items, !.queue = items,
              !.lent = IF a.loaned THEN items ELSE {}, !.data = IF a.loaned THEN a.data ELSE i]

\* What a take gives leaves the reader, and is on loan or in data_.
LEMMA TakeSound ==
    ASSUME NEW a \in ReaderState, Sound(a, "taking"),
           NEW items \in SUBSET a.history, NEW i \in items, a.loaned \/ items = {i},
           NEW b, b = Taken(a, items, i)
    PROVE  /\ b \in ReaderState /\ Sound(b, "giving") /\ b.holder = a.holder
           /\ b.left = a.left /\ b.seen = a.seen
<1> DEFINE l == IF a.loaned THEN items ELSE {}
           d == IF a.loaned THEN a.data ELSE i
<1>1. /\ a.queue = {} /\ a.seen = Null /\ Flow(a) /\ a.history \in SUBSET Items
  BY DEF Sound, Settled, ReaderState
<1>2. /\ l \in SUBSET Items /\ d \in Items \cup {Null}
      /\ \A j \in items : j \in l \/ d = j
  BY <1>1 DEF ReaderState
<1> HIDE DEF l, d
<1>3. /\ b \in ReaderState /\ b.holder = a.holder /\ b.left = a.left /\ b.seen = Null
      /\ b.history = a.history \ items /\ b.queue = items /\ b.lent = l /\ b.data = d
      /\ b.told = a.told /\ b.arrived = a.arrived /\ b.late = a.late /\ b.writers = a.writers
  BY <1>1, <1>2 DEF Taken, ReaderState, l, d
<1>4. b.history \cup b.queue = a.history \cup a.queue /\ b.history \cap b.queue = {}
  BY <1>1, <1>3
<1>5. Flow(b)
  BY ONLY <1>1, <1>3, <1>4 DEF Flow, Fresh, Kept
<1>6. Backed(b) /\ Settled(b, "giving")
  BY <1>2, <1>3 DEF Backed, Settled
<1> QED BY <1>1, <1>3, <1>5, <1>6 DEF Sound

\* What a callback is given: the newest of its instance, later than what was told before.
Newest(a, b) ==
    b.seen \notin {a.seen, Null} =>
        b.seen[2] = a.arrived[b.seen[1]] /\ b.seen[2] > a.told[b.seen[1]]

\* The next of what was taken is told if the callback is called for it; it is passed over when
\* it is a notice, or was left behind and its instance is not alive.
LEMMA GiveSound ==
    ASSUME NEW a \in ReaderState, Sound(a, "giving"), NEW i \in a.queue
    PROVE  /\ i[2] # Notice /\ a.writers[i[1]] # {} =>
                 /\ Given(a, i) \in ReaderState /\ Sound(Given(a, i), "callback")
                 /\ Given(a, i).holder = a.holder /\ Given(a, i).left = a.left
                 /\ Newest(a, Given(a, i))
           /\ i[2] = Notice \/ a.writers[i[1]] = {} =>
                 /\ Dropped(a, i) \in ReaderState /\ Sound(Dropped(a, i), "giving")
                 /\ Dropped(a, i).holder = a.holder /\ Dropped(a, i).left = a.left
                 /\ Dropped(a, i).seen = a.seen
<1>1. /\ a.seen = Null /\ Flow(a) /\ Backed(a) /\ a.queue \in SUBSET Items
      /\ a.history \in SUBSET Items /\ a.arrived \in [Keys -> Nat] /\ a.told \in [Keys -> Nat]
  BY DEF Sound, Settled, ReaderState
<1>2. PICK m \in Keys, n \in Nat : i = <<m, n>>
  BY <1>1 DEF Items
<1>3. i[1] = m /\ i[2] = n
  BY <1>2
<1>4. n # Notice => n = a.arrived[m] /\ n > a.told[m] /\ (a.writers[m] = {} => m \in a.late)
  BY <1>1, <1>3 DEF Flow, Fresh
<1>5. ASSUME i[2] # Notice, a.writers[i[1]] # {}, NEW b, b = Given(a, i)
      PROVE  /\ b \in ReaderState /\ Sound(b, "callback") /\ b.holder = a.holder
             /\ b.left = a.left /\ Newest(a, b)
  <2> DEFINE tol == [a.told EXCEPT ![m] = n]
             lat == a.late \ {m}
             que == a.queue \ {i}
  <2>0. n # Notice /\ a.writers[m] # {} /\ n = a.arrived[m] /\ n > a.told[m]
    BY <1>4, <1>3, <1>5
  <2>1. /\ tol \in [Keys -> Nat] /\ lat \in SUBSET Keys /\ que \in SUBSET Items
        /\ i \in Keys \X (Nat \ {Notice})
    BY <1>1, <1>2, <2>0 DEF ReaderState
  <2>2. tol[m] = n /\ \A k \in Keys \ {m} : tol[k] = a.told[k]
    BY <1>1, <1>2
  <2>3. b = [a EXCEPT !.queue = que, !.seen = i, !.late = lat, !.told = tol]
    BY <1>3, <1>5 DEF Given
  <2> HIDE DEF que
  <2> HIDE DEF tol, lat
  <2>4. b \in ReaderState
    BY <2>1, <2>3 DEF ReaderState
  <2>5. /\ b.queue = que /\ b.seen = i /\ b.late = lat /\ b.told = tol
        /\ b.history = a.history /\ b.arrived = a.arrived /\ b.writers = a.writers
        /\ b.lent = a.lent /\ b.data = a.data /\ b.holder = a.holder /\ b.left = a.left
    BY <2>3 DEF ReaderState
  <2>6. Fresh(b)
    <3>1. SUFFICES ASSUME NEW j \in a.history \cup que, j[2] # Notice
                   PROVE  /\ j[2] = a.arrived[j[1]] /\ j[2] > tol[j[1]]
                          /\ a.writers[j[1]] = {} => j[1] \in lat
      BY <2>5 DEF Fresh
    <3>2. PICK l \in Keys, o \in Nat : j = <<l, o>>
      BY <1>1 DEF Items, que
    <3>3. j[1] = l /\ j[2] = o
      BY <3>2
    <3>4. o = a.arrived[l] /\ o > a.told[l] /\ (a.writers[l] = {} => l \in a.late)
      BY <1>1, <3>1, <3>3 DEF Flow, Fresh, que
    <3>5. j # i
      BY <1>1, <3>1 DEF Flow, que
    <3>6. l # m
      BY <1>2, <2>0, <3>2, <3>4, <3>5
    <3> QED BY <2>2, <3>3, <3>4, <3>6 DEF lat
  <2>7. Kept(b)
    <3>1. SUFFICES ASSUME NEW k \in Keys
                   PROVE  \/ tol[k] = a.arrived[k]
                          \/ <<k, a.arrived[k]>> \in a.history \cup que
                          \/ k \in lat /\ a.writers[k] = {}
      BY <2>5 DEF Kept
    <3>2. CASE k = m
      BY <2>0, <2>2, <3>2
    <3>3. CASE k # m
      <4>1. \/ a.told[k] = a.arrived[k] \/ <<k, a.arrived[k]>> \in a.history \cup a.queue
            \/ k \in a.late /\ a.writers[k] = {}
        BY <1>1 DEF Flow, Kept
      <4>2. <<k, a.arrived[k]>> # i
        BY <1>2, <3>3
      <4> QED BY <2>2, <3>3, <4>1, <4>2 DEF lat, que
    <3> QED BY <3>2, <3>3
  <2>8. b.history \cap b.queue = {} /\ \A k \in Keys : b.told[k] <= b.arrived[k]
    <3>1. \A k \in Keys : a.told[k] <= a.arrived[k] /\ a.arrived[k] \in Nat
      BY <1>1 DEF Flow
    <3>2. \A k \in Keys : tol[k] <= a.arrived[k]
      BY <2>0, <2>2, <3>1
    <3> QED BY <1>1, <2>5, <3>2 DEF Flow, que
  <2>9. Backed(b) /\ Settled(b, "callback")
    BY <1>1, <2>5 DEF Backed, Settled, que
  <2>10. Newest(a, b)
    BY <1>3, <2>0, <2>5 DEF Newest
  <2> QED BY <2>4, <2>5, <2>6, <2>7, <2>8, <2>9, <2>10 DEF Sound, Flow
<1>6. ASSUME i[2] = Notice \/ a.writers[i[1]] = {}, NEW b, b = Dropped(a, i)
      PROVE  /\ b \in ReaderState /\ Sound(b, "giving") /\ b.holder = a.holder
             /\ b.left = a.left /\ b.seen = a.seen
  <2> DEFINE que == a.queue \ {i}
  <2>1. que \in SUBSET Items /\ b = [a EXCEPT !.queue = que]
    BY <1>1, <1>6 DEF Dropped
  <2> HIDE DEF que
  <2>2. b \in ReaderState
    BY <2>1 DEF ReaderState
  <2>3. /\ b.queue = que /\ b.seen = a.seen /\ b.late = a.late /\ b.told = a.told
        /\ b.history = a.history /\ b.arrived = a.arrived /\ b.writers = a.writers
        /\ b.lent = a.lent /\ b.data = a.data /\ b.holder = a.holder /\ b.left = a.left
    BY <2>1 DEF ReaderState
  <2>4. Fresh(b) /\ b.history \cap b.queue = {} /\ \A k \in Keys : b.told[k] <= b.arrived[k]
    BY <1>1, <2>3 DEF Flow, Fresh, que
  <2>5. Kept(b)
    <3>1. SUFFICES ASSUME NEW k \in Keys
                   PROVE  \/ a.told[k] = a.arrived[k]
                          \/ <<k, a.arrived[k]>> \in a.history \cup que
                          \/ k \in a.late /\ a.writers[k] = {}
      BY <2>3 DEF Kept
    <3>2. \/ a.told[k] = a.arrived[k] \/ <<k, a.arrived[k]>> \in a.history \cup a.queue
          \/ k \in a.late /\ a.writers[k] = {}
      BY <1>1 DEF Flow, Kept
    <3>3. CASE <<k, a.arrived[k]>> # i
      BY <3>2, <3>3 DEF que
    <3>4. CASE <<k, a.arrived[k]>> = i
      <4>1. k = m /\ a.arrived[m] = n /\ a.told[m] \in Nat /\ a.told[m] <= n
        BY <1>1, <1>2, <3>4 DEF Flow
      <4>2. n = Notice \/ a.writers[m] = {}
        BY <1>3, <1>6
      <4>3. CASE n = Notice
        BY <4>1, <4>3 DEF Notice
      <4>4. CASE n # Notice
        BY <1>4, <4>1, <4>2, <4>4
      <4> QED BY <4>3, <4>4
    <3> QED BY <3>3, <3>4
  <2>6. Backed(b) /\ Settled(b, "giving")
    BY <1>1, <2>3 DEF Backed, Settled, que
  <2> QED BY <2>2, <2>3, <2>4, <2>5, <2>6 DEF Sound, Flow
<1> QED BY <1>5, <1>6

\* A copied take that fails ends the run of the listener and leaves behind what waits.
LEMMA CopySound ==
    ASSUME NEW a \in ReaderState, Sound(a, "taking"),
           NEW late \in SUBSET Keys, a.late \subseteq late,
           \A i \in a.history : i[2] # Notice => i[1] \in late,
           NEW b, b = [[a EXCEPT !.late = late] EXCEPT !.holder = Null]
    PROVE  /\ b \in ReaderState /\ Sound(b, "out") /\ b.holder = Null
           /\ b.left = a.left /\ b.seen = a.seen
<1>1. /\ a.queue = {} /\ a.lent = {} /\ a.seen = Null /\ Flow(a) /\ Backed(a)
      /\ a.late \subseteq late /\ \A i \in a.history : i[2] # Notice => i[1] \in late
  BY Zenon DEF Sound, Settled
<1>2. /\ b \in ReaderState
      /\ b.queue = a.queue /\ b.seen = a.seen /\ b.late = late /\ b.told = a.told
      /\ b.history = a.history /\ b.arrived = a.arrived /\ b.writers = a.writers
      /\ b.lent = a.lent /\ b.data = a.data /\ b.holder = Null /\ b.left = a.left
  BY DEF ReaderState
<1>3. Flow(b)
  BY ONLY <1>1, <1>2 DEF Flow, Fresh, Kept
<1>4. Backed(b) /\ Settled(b, "out")
  BY <1>1, <1>2 DEF Backed, Settled
<1> QED BY <1>2, <1>3, <1>4 DEF Sound

\* The steps that move nothing: the callback returns or asks for something, the loan is given
\* back, a loaned take fails, the listener returns, the node of the reader is deleted.
LEMMA QuietSound ==
    ASSUME NEW a \in ReaderState, NEW b
    PROVE  /\ Sound(a, "callback") /\ b = [a EXCEPT !.seen = Null] =>
                 b \in ReaderState /\ Sound(b, "giving") /\ b.left = a.left
           /\ Sound(a, "giving") /\ a.queue = {} /\ b = [a EXCEPT !.lent = {}] =>
                 b \in ReaderState /\ Sound(b, "taking") /\ b.left = a.left /\ b.seen = a.seen
           /\ Sound(a, "taking") /\ b = [a EXCEPT !.loaned = FALSE] =>
                 b \in ReaderState /\ Sound(b, "taking") /\ b.left = a.left /\ b.seen = a.seen
           /\ Sound(a, "taking") /\ a.history = {} /\ b = [a EXCEPT !.holder = Null] =>
                 b \in ReaderState /\ Sound(b, "out") /\ b.left = a.left /\ b.seen = a.seen
           /\ Sound(a, "out") /\ b = [a EXCEPT !.data = Null] =>
                 b \in ReaderState /\ Sound(b, "out") /\ b.left = a.left /\ b.seen = a.seen
           /\ Sound(a, "callback") => Sound(a, "nested")
           /\ Sound(a, "nested") => Sound(a, "callback")
<1> DEFINE Same == /\ b.history = a.history /\ b.queue = a.queue /\ b.told = a.told
                   /\ b.arrived = a.arrived /\ b.late = a.late /\ b.writers = a.writers
<1>1. Same /\ Flow(a) => Flow(b)
  BY DEF Flow, Fresh, Kept
<1>2. ASSUME Sound(a, "callback"), b = [a EXCEPT !.seen = Null]
      PROVE  b \in ReaderState /\ Sound(b, "giving") /\ b.left = a.left
  <2>1. /\ b \in ReaderState /\ Same /\ b.left = a.left /\ b.lent = a.lent /\ b.data = a.data
        /\ b.seen = Null
    BY <1>2 DEF ReaderState
  <2> QED BY <1>1, <1>2, <2>1 DEF Sound, Backed, Settled
<1>3. ASSUME Sound(a, "giving"), a.queue = {}, b = [a EXCEPT !.lent = {}]
      PROVE  b \in ReaderState /\ Sound(b, "taking") /\ b.left = a.left /\ b.seen = a.seen
  <2>1. /\ b \in ReaderState /\ Same /\ b.left = a.left /\ b.lent = {} /\ b.seen = a.seen
    BY <1>3 DEF ReaderState
  <2> QED BY <1>1, <1>3, <2>1 DEF Sound, Backed, Settled
<1>4. ASSUME Sound(a, "taking"), b = [a EXCEPT !.loaned = FALSE]
      PROVE  b \in ReaderState /\ Sound(b, "taking") /\ b.left = a.left /\ b.seen = a.seen
  <2>1. /\ b \in ReaderState /\ Same /\ b.left = a.left /\ b.lent = a.lent /\ b.data = a.data
        /\ b.seen = a.seen
    BY <1>4 DEF ReaderState
  <2> QED BY <1>1, <1>4, <2>1 DEF Sound, Backed, Settled
<1>5. ASSUME Sound(a, "taking"), a.history = {}, b = [a EXCEPT !.holder = Null]
      PROVE  b \in ReaderState /\ Sound(b, "out") /\ b.left = a.left /\ b.seen = a.seen
  <2>1. /\ b \in ReaderState /\ Same /\ b.left = a.left /\ b.lent = a.lent /\ b.data = a.data
        /\ b.seen = a.seen
    BY <1>5 DEF ReaderState
  <2> QED BY <1>1, <1>5, <2>1 DEF Sound, Backed, Settled
<1>6. ASSUME Sound(a, "out"), b = [a EXCEPT !.data = Null]
      PROVE  b \in ReaderState /\ Sound(b, "out") /\ b.left = a.left /\ b.seen = a.seen
  <2>1. /\ b \in ReaderState /\ Same /\ b.left = a.left /\ b.lent = a.lent /\ b.seen = a.seen
    BY <1>6 DEF ReaderState
  <2> QED BY <1>1, <1>6, <2>1 DEF Sound, Backed, Settled
<1>7. Sound(a, "callback") <=> Sound(a, "nested")
  BY DEF Sound, Settled
<1> QED BY <1>2, <1>3, <1>4, <1>5, <1>6, <1>7
-----------------------------------------------------------------------------
(* What a step of one thread leaves of the other threads and readers. *)

\* The part of the invariant that is about the readers.
Readied == at \in [Readers -> ReaderState] /\ Holding /\ \A r \in Readers : Sound(at[r], Point(r))

\* A thread that runs no listener, or that of this reader, goes to p and changes this reader
\* alone.
LEMMA ReaderMoves ==
    ASSUME TypeOK, Readied,
           NEW t \in Threads, NEW r \in Readers, NEW p, NEW b,
           \A s \in Readers : at[s].holder = t => s = r,
           at[r].holder \in {t, Null},
           at' = [at EXCEPT ![r] = b], pc' = [pc EXCEPT ![t] = p],
           readers \ {r} \subseteq readers',
           b \in ReaderState,
           \/ b.holder = Null /\ Sound(b, "out")
           \/ b.holder = t /\ r \in readers' /\ p \in Listening /\ Sound(b, p)
    PROVE  Readied'
<1> USE DEF Readied
<1>1. t # Null /\ Null \notin Threads
  BY DEF Threads, DeliveryAssumption
<1>2. at'[r] = b /\ pc'[t] = p /\ \A s \in Readers \ {r} : at'[s] = at[s]
  BY DEF TypeOK
<1>3. at' \in [Readers -> ReaderState]
  OBVIOUS
<1>4. \A s \in Readers \ {r} : at[s].holder # Null =>
         at[s].holder # t /\ pc'[at[s].holder] = pc[at[s].holder]
  <2>1. \A s \in Readers : at[s].holder \in Threads \cup {Null}
    BY DEF ReaderState
  <2> QED BY <2>1 DEF TypeOK
<1>5. \A s \in Readers \ {r} : Point(s)' = Point(s)
  BY <1>2, <1>4 DEF Point
<1>6. (b.holder = Null => Point(r)' = "out") /\ (b.holder = t => Point(r)' = p)
  BY <1>1, <1>2 DEF Point
<1>7. \A s \in Readers : Sound(at[s], Point(s))'
  <2>1. SUFFICES ASSUME NEW s \in Readers PROVE Sound(at'[s], Point(s)')
    BY DEF Sound, Flow, Fresh, Kept, Backed, Settled
  <2>2. CASE s = r
    BY <1>1, <1>2, <1>6, <2>2
  <2>3. CASE s # r
    BY <1>2, <1>5, <2>3
  <2> QED BY <2>2, <2>3, ZenonT(60)
<1>8. Holding'
  <2>1. \A s \in Readers : at'[s].holder # Null => s \in readers' /\ Point(s)' \in Listening
    <3>1. SUFFICES ASSUME NEW s \in Readers, at'[s].holder # Null
                   PROVE  s \in readers' /\ Point(s)' \in Listening
      OBVIOUS
    <3>2. CASE s = r
      BY <1>1, <1>2, <1>6, <3>1, <3>2
    <3>3. CASE s # r
      BY <1>2, <1>5, <3>1, <3>3 DEF Holding
    <3> QED BY <3>2, <3>3
  <2>2. \A s, q \in Readers : at'[s].holder # Null /\ at'[s].holder = at'[q].holder => s = q
    BY <1>1, <1>2, <1>4 DEF Holding
  <2> QED BY <2>1, <2>2 DEF Holding
<1> QED BY <1>3, <1>7, <1>8

\* A thread that runs no listener moves, and the readers stay.
LEMMA ReadersStay ==
    ASSUME TypeOK, Readied, NEW t \in Threads, NEW p,
           pc[t] \notin Listening, pc' = [pc EXCEPT ![t] = p], UNCHANGED <<at, readers>>
    PROVE  Readied'
<1> USE DEF Readied
<1>1. \A s \in Readers : at[s].holder # t
  BY DEF Holding, Point, Threads, DeliveryAssumption
<1>2. \A s \in Readers : Point(s)' = Point(s)
  <2>1. \A s \in Readers : at[s].holder \in Threads \cup {Null}
    BY DEF ReaderState
  <2> QED BY <1>1, <2>1 DEF Point, TypeOK
<1>3. \A s \in Readers : Sound(at[s], Point(s))'
  BY <1>2 DEF Sound, Flow, Fresh, Kept, Backed, Settled
<1> QED BY <1>2, <1>3 DEF Holding

\* The reader whose listener a thread runs is at the point where the thread is, and is the
\* only one.
LEMMA ListensTo ==
    ASSUME Readied, NEW t \in Threads, NEW r \in Readers, NEW p, Listens(t, r, p)
    PROVE  /\ at[r] \in ReaderState /\ at[r].holder = t /\ pc[t] = p /\ r \in readers
           /\ p \in Listening /\ Sound(at[r], p)
           /\ \A s \in Readers : at[s].holder = t => s = r
<1>1. at[r].holder = t /\ pc[t] = p /\ t # Null
  BY DEF Listens, Threads, DeliveryAssumption
<1>2. Point(r) = p
  BY <1>1 DEF Point
<1>3. r \in readers /\ p \in Listening
  BY <1>1, <1>2 DEF Readied, Holding
<1>4. \A s \in Readers : at[s].holder = t => s = r
  BY <1>1 DEF Readied, Holding
<1> QED BY <1>1, <1>2, <1>3, <1>4 DEF Readied

ListenerStep(t, r) ==
    Listener(t, r) \/ TakeFails(t, r) \/ CopyFails(t, r) \/ CallbackRequests(t, r)

\* The thread makes b of the reader whose listener it runs and goes on to p, or out of it.
Moves(t, r, b, p) ==
    /\ at' = [at EXCEPT ![r] = b] /\ pc' = [pc EXCEPT ![t] = p]
    /\ b \in ReaderState /\ b.left = at[r].left /\ Newest(at[r], b)
    /\ \/ b.holder = t /\ p \in Listening /\ Sound(b, p)
       \/ b.holder = Null /\ p = (IF t \in Users THEN "writing" ELSE "idle") /\ Sound(b, "out")

\* Every step of on_data_available() is such a move.
LEMMA ListenerMoves ==
    ASSUME TypeOK, Readied, NEW t \in Threads, NEW r \in Readers, ListenerStep(t, r)
    PROVE  \E b, p : Moves(t, r, b, p)
<1> DEFINE a == at[r]
<1>0. a = at[r]
  OBVIOUS
<1>1. /\ at \in [Readers -> ReaderState] /\ Listening = {"taking", "giving", "callback", "nested"}
      /\ at = [at EXCEPT ![r] = a] /\ pc = [pc EXCEPT ![t] = pc[t]]
  BY DEF Readied, Listening, TypeOK
<1>2. ASSUME NEW p, Listens(t, r, p)
      PROVE  a \in ReaderState /\ a.holder = t /\ pc[t] = p /\ p \in Listening /\ Sound(a, p)
  BY <1>2, ListensTo
<1>3. \A b : b.seen = a.seen \/ b.seen = Null => Newest(a, b)
  BY DEF Newest
<1> HIDE DEF a
<1>4. CASE Take(t, r)
  <2>1. PICK items \in SUBSET a.history, i \in a.history :
           /\ i \in items
           /\ a.loaned \/ items = {i}
           /\ at' = [at EXCEPT ![r] = Taken(a, items, i)]
    BY <1>0, <1>4 DEF Take, Left, Lent, Taken
  <2>2. /\ a \in ReaderState /\ a.holder = t /\ Sound(a, "taking")
        /\ pc' = [pc EXCEPT ![t] = "giving"]
    BY <1>2, <1>4 DEF Take, Goes
  <2>3. PICK b : b = Taken(a, items, i)
    OBVIOUS
  <2>4. /\ b \in ReaderState /\ Sound(b, "giving") /\ b.holder = a.holder
        /\ b.left = a.left /\ b.seen = a.seen
    <3>1. items \in SUBSET a.history /\ i \in items /\ (a.loaned \/ items = {i})
      BY <2>1
    <3> QED BY ONLY <2>2, <2>3, <3>1, TakeSound
  <2>5. at' = [at EXCEPT ![r] = b]
    BY <2>1, <2>3
  <2>6. Moves(t, r, b, "giving")
    BY <1>0, <1>1, <1>3, <2>2, <2>4, <2>5 DEF Moves
  <2> QED BY <2>6
<1>5. CASE GiveNext(t, r)
  <2>1. PICK i \in a.queue :
           IF Gives(r, i) THEN at' = [at EXCEPT ![r] = Given(a, i)] /\ Goes(t, "callback")
           ELSE at' = [at EXCEPT ![r] = Dropped(a, i)] /\ UNCHANGED pc
    BY <1>0, <1>5 DEF GiveNext
  <2>2. a \in ReaderState /\ a.holder = t /\ pc[t] = "giving" /\ Sound(a, "giving")
    BY <1>2, <1>5 DEF GiveNext
  <2>3. CASE Gives(r, i)
    <3>1. /\ at' = [at EXCEPT ![r] = Given(a, i)] /\ pc' = [pc EXCEPT ![t] = "callback"]
          /\ i[2] # Notice /\ a.writers[i[1]] # {}
      BY <1>0, <2>1, <2>3 DEF Gives, Goes
    <3>2. Moves(t, r, Given(a, i), "callback")
      BY <1>0, <1>1, <2>2, <3>1, GiveSound DEF Moves
    <3> QED BY <3>2
  <2>4. CASE ~Gives(r, i)
    <3>1. /\ at' = [at EXCEPT ![r] = Dropped(a, i)] /\ pc' = [pc EXCEPT ![t] = "giving"]
          /\ i[2] = Notice \/ a.writers[i[1]] = {}
      BY <1>0, <1>1, <2>1, <2>2, <2>4 DEF Gives
    <3>2. Moves(t, r, Dropped(a, i), "giving")
      BY <1>0, <1>1, <1>3, <2>2, <3>1, GiveSound DEF Moves
    <3> QED BY <3>2
  <2> QED BY <2>3, <2>4
<1>6. CASE CallbackReturns(t, r)
  <2> DEFINE b == [a EXCEPT !.seen = Null]
  <2>1. a \in ReaderState /\ a.holder = t /\ Sound(a, "callback")
    BY <1>2, <1>6 DEF CallbackReturns
  <2>2. /\ at' = [at EXCEPT ![r] = b] /\ pc' = [pc EXCEPT ![t] = "giving"]
        /\ b.holder = t /\ b.seen = Null
    BY <1>0, <1>1, <1>6, <2>1 DEF CallbackReturns, Goes, ReaderState
  <2>3. b \in ReaderState /\ Sound(b, "giving") /\ b.left = a.left
    BY ONLY <2>1, QuietSound
  <2> HIDE DEF b
  <2>4. Moves(t, r, b, "giving")
    BY <1>0, <1>1, <1>3, <2>2, <2>3 DEF Moves
  <2> QED BY <2>4
<1>7. CASE TakeAgain(t, r)
  <2> DEFINE b == [a EXCEPT !.lent = {}]
  <2>1. a \in ReaderState /\ a.holder = t /\ Sound(a, "giving") /\ a.queue = {}
    BY <1>0, <1>2, <1>7 DEF TakeAgain
  <2>2. at' = [at EXCEPT ![r] = b] /\ pc' = [pc EXCEPT ![t] = "taking"] /\ b.holder = t
    BY <1>0, <1>1, <1>7, <2>1 DEF TakeAgain, Goes, ReaderState
  <2>3. b \in ReaderState /\ Sound(b, "taking") /\ b.left = a.left /\ b.seen = a.seen
    BY ONLY <2>1, QuietSound
  <2> HIDE DEF b
  <2>4. Moves(t, r, b, "taking")
    BY <1>0, <1>1, <1>3, <2>2, <2>3 DEF Moves
  <2> QED BY <2>4
<1>8. CASE ListenerReturns(t, r)
  <2> DEFINE b == [a EXCEPT !.holder = Null]
             p == IF t \in Users THEN "writing" ELSE "idle"
  <2>1. a \in ReaderState /\ Sound(a, "taking") /\ a.history = {}
    BY <1>0, <1>2, <1>8 DEF ListenerReturns, NoData
  <2>2. at' = [at EXCEPT ![r] = b] /\ pc' = [pc EXCEPT ![t] = p] /\ b.holder = Null
    BY <1>0, <1>8, <2>1 DEF ListenerReturns, Leaves, Goes, ReaderState
  <2>3. b \in ReaderState /\ Sound(b, "out") /\ b.left = a.left /\ b.seen = a.seen
    BY ONLY <2>1, QuietSound
  <2> HIDE DEF b
  <2>4. Moves(t, r, b, p)
    BY <1>0, <1>3, <2>2, <2>3 DEF Moves
  <2> QED BY <2>4
<1>9. CASE CopyFails(t, r)
  <2> DEFINE late == a.late \cup {i[1] : i \in {j \in a.history : j[2] # Notice}}
             b == [[a EXCEPT !.late = late] EXCEPT !.holder = Null]
             p == IF t \in Users THEN "writing" ELSE "idle"
  <2>1. a \in ReaderState /\ Sound(a, "taking")
    BY <1>2, <1>9 DEF CopyFails
  <2>2. late \in SUBSET Keys
    BY <2>1 DEF ReaderState, Items
  <2>3. at' = [at EXCEPT ![r] = b] /\ pc' = [pc EXCEPT ![t] = p]
    BY <1>0, <1>9 DEF CopyFails, Leaves, Goes
  <2>4. a.late \subseteq late /\ \A i \in a.history : i[2] # Notice => i[1] \in late
    OBVIOUS
  <2> HIDE DEF late
  <2>5. /\ b \in ReaderState /\ Sound(b, "out") /\ b.holder = Null
        /\ b.left = a.left /\ b.seen = a.seen
    BY ONLY <2>1, <2>2, <2>4, CopySound
  <2> HIDE DEF b
  <2>6. Moves(t, r, b, p)
    BY <1>0, <1>3, <2>3, <2>5 DEF Moves
  <2> QED BY <2>6
<1>10. CASE TakeFails(t, r)
  <2> DEFINE b == [a EXCEPT !.loaned = FALSE]
  <2>1. a \in ReaderState /\ a.holder = t /\ Sound(a, "taking") /\ pc[t] = "taking"
    BY <1>2, <1>10 DEF TakeFails
  <2>2. at' = [at EXCEPT ![r] = b] /\ pc' = [pc EXCEPT ![t] = "taking"] /\ b.holder = t
    BY <1>0, <1>1, <1>10, <2>1 DEF TakeFails, ReaderState
  <2>3. b \in ReaderState /\ Sound(b, "taking") /\ b.left = a.left /\ b.seen = a.seen
    BY ONLY <2>1, QuietSound
  <2> HIDE DEF b
  <2>4. Moves(t, r, b, "taking")
    BY <1>0, <1>1, <1>3, <2>2, <2>3 DEF Moves
  <2> QED BY <2>4
<1>11. CASE CallbackRequests(t, r)
  <2>1. a \in ReaderState /\ a.holder = t /\ Sound(a, "nested")
    BY <1>2, <1>11, QuietSound DEF CallbackRequests
  <2>2. at' = [at EXCEPT ![r] = a] /\ pc' = [pc EXCEPT ![t] = "nested"]
    BY <1>1, <1>11 DEF CallbackRequests, Goes
  <2>3. Moves(t, r, a, "nested")
    BY <1>0, <1>1, <1>3, <2>1, <2>2 DEF Moves
  <2> QED BY <2>3
<1>12. CASE NestedRequest(t, r)
  <2>1. a \in ReaderState /\ a.holder = t /\ Sound(a, "callback")
    BY <1>2, <1>12, QuietSound DEF NestedRequest
  <2>2. at' = [at EXCEPT ![r] = a] /\ pc' = [pc EXCEPT ![t] = "callback"]
    BY <1>1, <1>12 DEF NestedRequest, Goes
  <2>3. Moves(t, r, a, "callback")
    BY <1>0, <1>1, <1>3, <2>1, <2>2 DEF Moves
  <2> QED BY <2>3
<1> QED BY <1>4, <1>5, <1>6, <1>7, <1>8, <1>9, <1>10, <1>11, <1>12 DEF ListenerStep, Listener

\* What a listener's step leaves alone.
LEMMA ListenerHolds ==
    ASSUME TypeOK, Readied, NEW t \in Threads, NEW r \in Readers, ListenerStep(t, r)
    PROVE  /\ UNCHANGED requests /\ pc[t] \in Listening /\ faults' \in 0..MaxFaults
           /\ at[r].holder = t /\ r \in readers /\ \A s \in Readers : at[s].holder = t => s = r
<1>1. /\ UNCHANGED requests /\ faults' \in 0..MaxFaults
      /\ \E p : Listens(t, r, p)
  <2>1. faults \in 0..MaxFaults
    BY DEF TypeOK
  <2>2. ASSUME Listener(t, r) \/ CallbackRequests(t, r)
        PROVE  UNCHANGED <<requests, faults>> /\ \E p : Listens(t, r, p)
    BY <2>2 DEF Listener, Take, GiveNext, CallbackReturns, TakeAgain, ListenerReturns,
                NestedRequest, CallbackRequests
  <2>3. ASSUME TakeFails(t, r) \/ CopyFails(t, r)
        PROVE  /\ UNCHANGED requests /\ faults < MaxFaults /\ faults' = faults + 1
               /\ Listens(t, r, "taking")
    BY <2>3 DEF TakeFails, CopyFails
  <2> QED BY <2>1, <2>2, <2>3 DEF ListenerStep, DeliveryAssumption
<1> QED BY <1>1, ListensTo

\* on_data_available() keeps the readers in order.
LEMMA ListenerReadied ==
    ASSUME TypeOK, Readied, NEW t \in Threads, NEW r \in Readers, ListenerStep(t, r)
    PROVE  Readied'
<1>1. PICK b, p : Moves(t, r, b, p)
  BY ListenerMoves
<1>2. /\ readers' = readers /\ at[r].holder = t /\ r \in readers
      /\ \A s \in Readers : at[s].holder = t => s = r
  BY ListenerHolds DEF requests
<1>3. /\ at' = [at EXCEPT ![r] = b] /\ pc' = [pc EXCEPT ![t] = p] /\ b \in ReaderState
      /\ \/ b.holder = Null /\ Sound(b, "out")
         \/ b.holder = t /\ r \in readers' /\ p \in Listening /\ Sound(b, p)
  BY <1>1, <1>2 DEF Moves
<1>4. at[r].holder \in {t, Null} /\ readers \ {r} \subseteq readers'
  BY <1>2
<1>5. CASE b.holder = Null /\ Sound(b, "out")
  BY <1>2, <1>3, <1>4, <1>5, ReaderMoves, ZenonT(60)
<1>6. CASE b.holder = t /\ r \in readers' /\ p \in Listening /\ Sound(b, p)
  BY <1>2, <1>3, <1>4, <1>6, ReaderMoves, ZenonT(60)
<1> QED BY <1>3, <1>5, <1>6

\* Samples may come to a reader from a thread in no listener.
LEMMA SamplesReadied ==
    ASSUME TypeOK, Readied, NEW t \in Threads, NEW r \in Readers, NEW K \in SUBSET Keys,
           NEW n \in Nat \ {0}, NEW source \in Sources,
           pc[t] \notin Listening, SamplesArrive(t, r, K, n, source), UNCHANGED readers
    PROVE  Readied'
<1>1. at \in [Readers -> ReaderState] /\ at[r].holder = Null /\ r \in readers
  BY DEF Readied, SamplesArrive
<1>2. \A s \in Readers : at[s].holder = t => s = r
  BY DEF Readied, Holding, Point, Threads, DeliveryAssumption
<1>3. Sound(at[r], "out")
  BY <1>1 DEF Readied, Point
<1> DEFINE b == [Arrived(at[r], K, n, source) EXCEPT !.holder = t]
<1>4. at' = [at EXCEPT ![r] = b] /\ pc' = [pc EXCEPT ![t] = "taking"]
  BY DEF SamplesArrive, Notifies, Goes
<1>5. b \in ReaderState /\ b.holder = t /\ Sound(b, "taking")
  BY <1>1, <1>3, ArriveSound
<1> HIDE DEF b
<1>6. "taking" \in Listening
  BY DEF Listening
<1> QED BY <1>1, <1>2, <1>4, <1>5, <1>6, ReaderMoves

\* A source may leave a reader while a thread in no listener reports it.
LEMMA SourceReadied ==
    ASSUME TypeOK, Readied, NEW t \in Threads, NEW r \in Readers, NEW source \in Sources,
           pc[t] \notin Listening, SourceLeaves(t, r, source),
           UNCHANGED readers
    PROVE  Readied'
<1>1. at \in [Readers -> ReaderState] /\ at[r].holder = Null /\ r \in readers
  BY DEF Readied, SourceLeaves
<1>2. \A s \in Readers : at[s].holder = t => s = r
  BY DEF Readied, Holding, Point, Threads, DeliveryAssumption
<1>3. Sound(at[r], "out")
  BY <1>1 DEF Readied, Point
<1> DEFINE d == Departed(at[r], source)
           h == [d EXCEPT !.holder = t]
<1>4. /\ d \in ReaderState /\ Sound(d, "out") /\ d.holder = Null
      /\ h \in ReaderState /\ Sound(h, "taking") /\ h.holder = t
  <2>1. d = [Departed(at[r], source) EXCEPT !.holder = Null]
    BY <1>1 DEF Departed, ReaderState
  <2> HIDE DEF d
  <2>2. d \in ReaderState /\ Sound(d, "out") /\ d.holder = Null
    BY <1>1, <1>3, <2>1, LeaveSound
  <2> QED BY <1>1, <1>3, <2>2, LeaveSound DEF d
<1>5. \/ at' = [at EXCEPT ![r] = h] /\ pc' = [pc EXCEPT ![t] = "taking"]
      \/ at' = [at EXCEPT ![r] = d] /\ pc' = pc
  BY DEF SourceLeaves, Notifies, Goes
<1> HIDE DEF d, h
<1>6. CASE at' = [at EXCEPT ![r] = h] /\ pc' = [pc EXCEPT ![t] = "taking"]
  <2>1. "taking" \in Listening
    BY DEF Listening
  <2> QED BY <1>1, <1>2, <1>4, <1>6, <2>1, ReaderMoves
<1>7. CASE at' = [at EXCEPT ![r] = d] /\ pc' = pc
  <2>1. pc' = [pc EXCEPT ![t] = pc[t]]
    BY <1>7 DEF TypeOK
  <2> QED BY <1>1, <1>2, <1>4, <1>7, <2>1, ReaderMoves
<1> QED BY <1>5, <1>6, <1>7

\* The request of a user that reaches one more reader.
LEMMA ReachesReadied ==
    ASSUME IInv, Readied, NEW u \in Users, NEW r \in Readers, Reaches(u, r)
    PROVE  Readied'
<1>1. /\ u \in Threads /\ pc[u] = "writing" /\ r \in op[u].todo /\ readers' = readers
      /\ TypeOK /\ Locking
  BY DEF Reaches, IInv, Threads
<1>2. pc[u] \notin Listening /\ (op[u].kind = "publish" => op[u].key \in Keys)
  BY <1>1 DEF Locking, Locks, Listening
<1>3. CASE op[u].kind = "publish"
  <2>1. {op[u].key} \in SUBSET Keys /\ 1 \in Nat \ {0} /\ "here" \in Sources
    BY <1>2, <1>3 DEF Sources
  <2>2. SamplesArrive(u, r, {op[u].key}, 1, "here")
    BY <1>3 DEF Reaches
  <2> QED BY <1>1, <1>2, <2>1, <2>2, SamplesReadied
<1>4. CASE op[u].kind # "publish"
  <2>1. SourceLeaves(u, r, "here") /\ "here" \in Sources
    BY <1>4 DEF Reaches, Sources
  <2> QED BY <1>1, <1>2, <2>1, SourceReadied
<1> QED BY <1>3, <1>4

\* What another process does.
LEMMA ReceiveReadied ==
    ASSUME TypeOK, Readied, NEW t \in Receivers, NEW r \in Readers, Receive(t, r)
    PROVE  Readied'
<1>1. /\ t \in Threads /\ pc[t] \notin Listening
      /\ readers' = readers /\ "there" \in Sources
  BY DEF Receive, Threads, Listening, Sources
<1>2. CASE SourceLeaves(t, r, "there")
  BY <1>1, <1>2, SourceReadied
<1>3. CASE ~SourceLeaves(t, r, "there")
  <2>1. PICK K \in SUBSET Keys, n \in 1..MaxBatch : SamplesArrive(t, r, K, n, "there")
    BY <1>3 DEF Receive
  <2>2. n \in Nat \ {0}
    BY DEF DeliveryAssumption
  <2> QED BY <1>1, <2>1, <2>2, SamplesReadied
<1> QED BY <1>2, <1>3

\* The node of a reader may be deleted: nobody is in its listener.
LEMMA DeleteReadied ==
    ASSUME TypeOK, Readied, NEW u \in Users, NEW r \in Readers, DeleteNode(u, r)
    PROVE  Readied' /\ readers' = readers \ {r}
<1>1. /\ u \in Threads /\ pc[u] \notin Listening /\ at[r].holder = Null
      /\ at \in [Readers -> ReaderState]
  BY DEF DeleteNode, Threads, Listening, Readied
<1>2. \A s \in Readers : at[s].holder = u => s = r
  BY <1>1 DEF Readied, Holding, Point, DeliveryAssumption, Threads
<1>3. Sound(at[r], "out")
  BY <1>1 DEF Readied, Point
<1>4. readers' = readers \ {r}
  BY <1>3 DEF DeleteNode, ReaderDeleted, Sound, Settled
<1> DEFINE b == [at[r] EXCEPT !.data = Null]
<1>5. at' = [at EXCEPT ![r] = b] /\ pc' = [pc EXCEPT ![u] = "idle"]
  BY <1>1 DEF DeleteNode, Returns, Goes
<1>6. b \in ReaderState /\ Sound(b, "out") /\ b.holder = Null
  <2>1. b.holder = Null
    BY <1>1 DEF ReaderState
  <2>2. b \in ReaderState /\ Sound(b, "out")
    BY ONLY <1>1, <1>3, r \in Readers, QuietSound
  <2> QED BY <2>1, <2>2
<1> HIDE DEF b
<1>7. readers \ {r} \subseteq readers' /\ at[r].holder \in {u, Null}
  BY <1>1, <1>4
<1>8. Readied'
  BY ONLY TypeOK, Readied, r \in Readers, <1>1, <1>2, <1>5, <1>6, <1>7, ReaderMoves
<1> QED BY <1>4, <1>8

\* Every step keeps the readers in order.
LEMMA ReadiedStep ==
    ASSUME IInv, [Next]_vars
    PROVE  Readied'
<1>1. TypeOK /\ Readied /\ Users \subseteq Threads /\ Receivers \subseteq Threads
  BY DEF IInv, TypeOK, Readied, ReaderState, Threads
<1>2. ASSUME NEW u \in Users, Requests(u)
      PROVE  Readied'
  <2>1. /\ u \in Threads /\ pc[u] \notin Listening /\ UNCHANGED <<at, readers>>
        /\ pc' = [pc EXCEPT ![u] = "locking"]
    BY <1>1, <1>2 DEF Requests, Request, Goes, Listening
  <2> QED BY <1>1, <2>1, ReadersStay
<1>3. ASSUME NEW u \in Users, RequestLocks(u) \/ WriteReturns(u)
      PROVE  Readied'
  <2>1. /\ u \in Threads /\ pc[u] \notin Listening /\ UNCHANGED <<at, readers>>
        /\ \E p : pc' = [pc EXCEPT ![u] = p]
    BY <1>1, <1>3 DEF RequestLocks, WriteReturns, Returns, Goes, Listening
  <2> QED BY <1>1, <2>1, ReadersStay
<1>4. ASSUME NEW t \in Threads, Runs(t)
      PROVE  Readied'
  BY <1>1, <1>3, <1>4, ListenerReadied, ReachesReadied, DeleteReadied DEF Runs, ListenerStep
<1>5. CASE UNCHANGED vars
  BY <1>1, <1>5 DEF vars, Readied, Holding, Point, Sound, Flow, Fresh, Kept, Backed, Settled
<1> QED BY <1>1, <1>2, <1>4, <1>5, ListenerReadied, ReceiveReadied DEF Next, ListenerStep
-----------------------------------------------------------------------------
(* Types, and the service's mutex. *)

\* The listener touches neither the requests nor what a reader is matched with.
LEMMA ListenerFrame ==
    ASSUME TypeOK, Readied, NEW t \in Threads, NEW r \in Readers, ListenerStep(t, r)
    PROVE  /\ UNCHANGED requests /\ pc[t] \in Listening
           /\ \A s \in Readers : at'[s].left = at[s].left /\ Newest(at[s], at'[s])
           /\ \E p \in Listening \cup {"writing", "idle"} : pc' = [pc EXCEPT ![t] = p]
           /\ pc'[t] = "writing" => t \in Users
           /\ faults' \in 0..MaxFaults
<1>1. PICK b, p : Moves(t, r, b, p)
  BY ListenerMoves
<1>2. UNCHANGED requests /\ pc[t] \in Listening /\ faults' \in 0..MaxFaults
  BY ListenerHolds
<1>3. \A s \in Readers : at'[s].left = at[s].left /\ Newest(at[s], at'[s])
  <2>1. at \in [Readers -> ReaderState] /\ \A a : Newest(a, a)
    BY DEF Readied, Newest
  <2>2. at' = [at EXCEPT ![r] = b] /\ b.left = at[r].left /\ Newest(at[r], b)
    BY <1>1 DEF Moves
  <2> QED BY <2>1, <2>2
<1>4. /\ pc' = [pc EXCEPT ![t] = p] /\ p \in Listening \cup {"writing", "idle"}
      /\ p = "writing" => t \in Users
  BY <1>1 DEF Moves, Listening
<1>5. pc'[t] = p
  BY <1>4 DEF TypeOK
<1> QED BY <1>2, <1>3, <1>4, <1>5

\* Samples, or the leave of a source, come to a reader.
Arrives(t, r, source) ==
    (\E K, n : SamplesArrive(t, r, K, n, source)) \/ SourceLeaves(t, r, source)

\* What comes to a reader may start its listener, and takes away no source but the one named.
LEMMA ArrivalFrame ==
    ASSUME TypeOK, NEW t \in Threads, NEW r \in Readers, NEW source, Arrives(t, r, source)
    PROVE  /\ pc' = [pc EXCEPT ![t] = "taking"] \/ pc' = pc
           /\ \A s \in Readers : at'[s].left \subseteq at[s].left \cup {source}
           /\ \A s \in Readers \ {r} : at'[s].left = at[s].left
           /\ \A s \in Readers : at'[s].seen = at[s].seen
<1>1. at \in [Readers -> ReaderState]
  BY DEF TypeOK, ReaderState
<1>2. CASE \E K, n : SamplesArrive(t, r, K, n, source)
  <2>1. PICK K, n : SamplesArrive(t, r, K, n, source)
    BY <1>2
  <2> DEFINE b == [Arrived(at[r], K, n, source) EXCEPT !.holder = t]
  <2>2. at' = [at EXCEPT ![r] = b] /\ pc' = [pc EXCEPT ![t] = "taking"]
    BY <2>1 DEF SamplesArrive, Notifies, Goes
  <2>3. b.left = at[r].left /\ b.seen = at[r].seen
    BY <1>1 DEF Arrived, ReaderState
  <2> HIDE DEF b
  <2> QED BY <1>1, <2>2, <2>3
<1>3. CASE SourceLeaves(t, r, source)
  <2> DEFINE d == Departed(at[r], source)
             h == [d EXCEPT !.holder = t]
  <2>1. \/ at' = [at EXCEPT ![r] = h] /\ pc' = [pc EXCEPT ![t] = "taking"]
        \/ at' = [at EXCEPT ![r] = d] /\ pc' = pc
    BY <1>3 DEF SourceLeaves, Notifies, Goes
  <2>2. /\ d.left = at[r].left \cup {source} /\ d.seen = at[r].seen
        /\ h.left = at[r].left \cup {source} /\ h.seen = at[r].seen
    BY <1>1 DEF Departed, ReaderState
  <2> HIDE DEF d, h
  <2> QED BY <1>1, <2>1, <2>2
<1> QED BY <1>2, <1>3 DEF Arrives

\* The types of what is not of a reader.
LEMMA TypeStep ==
    ASSUME IInv, Readied', [Next]_vars
    PROVE  TypeOK'
<1> DEFINE Points == {"idle", "locking", "writing", "deleting", "taking", "giving",
                      "callback", "nested"}
           Ops == [kind : {"none", "publish", "withdraw", "delete"}, key : Keys \cup {Null},
                   reader : Readers \cup {Null}, todo : SUBSET Readers]
           Framed == /\ mtx \in Users \cup {Null} /\ pc \in [Threads -> Points]
                     /\ op \in [Users -> Ops]
                     /\ nodes \subseteq Readers /\ readers \subseteq Readers
                     /\ made \in 0..MaxSamples /\ faults \in 0..MaxFaults
<1>1. TypeOK /\ Readied /\ Framed /\ Users \subseteq Threads /\ Receivers \subseteq Threads
      /\ Listening \subseteq Points /\ NoOp \in Ops
  BY DEF IInv, TypeOK, Readied, ReaderState, Threads, Listening, NoOp, DeliveryAssumption
<1>2. SUFFICES Framed'
  BY DEF Readied, TypeOK, ReaderState
<1>3. ASSUME NEW t \in Threads, NEW r \in Readers,
             ListenerStep(t, r)
      PROVE  Framed'
  <2>1. /\ UNCHANGED <<mtx, op, nodes, readers, made>> /\ faults' \in 0..MaxFaults
        /\ \E p \in Points : pc' = [pc EXCEPT ![t] = p]
    BY <1>1, <1>3, ListenerFrame DEF requests, Listening
  <2> QED BY <1>1, <2>1
<1>4. ASSUME NEW t \in Receivers, NEW r \in Readers, Receive(t, r)
      PROVE  Framed'
  <2>1. made' \in 0..MaxSamples
    <3>1. \/ \E n \in 1..MaxBatch : made + n <= MaxSamples /\ made' = made + n
          \/ made' = made
      BY <1>4 DEF Receive
    <3> QED BY <1>1, <3>1 DEF DeliveryAssumption
  <2>2. pc' = [pc EXCEPT ![t] = "taking"] \/ pc' = pc
    BY <1>1, <1>4, ArrivalFrame DEF Receive, Arrives
  <2> QED BY <1>1, <1>4, <2>1, <2>2 DEF Receive
<1>5. ASSUME NEW u \in Users, Requests(u)
      PROVE  Framed'
  <2>1. PICK kind \in {"publish", "withdraw", "delete"}, r \in Readers \cup {Null},
              k \in Keys \cup {Null} :
           Request(u, kind, r, k) /\ (kind = "publish" => k \in Keys)
    BY <1>1, <1>5 DEF Requests
  <2>2. [NoOp EXCEPT !.kind = kind, !.reader = r, !.key = k] \in Ops
    BY ONLY <1>1, kind \in {"publish", "withdraw", "delete"}, r \in Readers \cup {Null},
            k \in Keys \cup {Null}
  <2> QED BY <1>1, <2>1, <2>2 DEF Request, Goes
<1>6. ASSUME NEW u \in Users, Returns(u)
      PROVE  mtx' \in Users \cup {Null} /\ pc' \in [Threads -> Points] /\ op' \in [Users -> Ops]
  BY <1>1, <1>6 DEF Returns, Goes
<1>7. ASSUME NEW u \in Users, RequestLocks(u)
      PROVE  Framed'
  <2>1. CASE Refused(u)
    BY <1>1, <1>6, <1>7, <2>1 DEF RequestLocks
  <2>2. CASE ~Refused(u)
    <3>1. /\ mtx' = u /\ op' = [op EXCEPT ![u].todo = Matched]
          /\ made' = made + (IF op[u].kind = "publish" THEN 1 ELSE 0)
          /\ Goes(u, IF op[u].kind = "delete" THEN "deleting" ELSE "writing")
      BY <1>7, <2>2 DEF RequestLocks
    <3>2. op[u].kind = "publish" => made # MaxSamples
      BY <2>2 DEF Refused
    <3>3. made' \in 0..MaxSamples
      <4>1. made' = made \/ (made' = made + 1 /\ made # MaxSamples)
        BY <1>1, <3>1, <3>2
      <4> QED BY <1>1, <4>1 DEF DeliveryAssumption
    <3>4. Matched \subseteq Readers
      BY <1>1 DEF Matched
    <3>5. op' \in [Users -> Ops]
      <4> DEFINE o == [op[u] EXCEPT !.todo = Matched]
      <4>1. op' = [op EXCEPT ![u] = o]
        BY <1>1, <3>1
      <4>2. o \in Ops
        BY <1>1, <3>3, <3>4
      <4> HIDE DEF o
      <4> QED BY <1>1, <4>1, <4>2
    <3>6. pc' \in [Threads -> Points]
      BY <1>1, <3>1 DEF Goes
    <3> QED BY <1>1, <1>7, <3>1, <3>3, <3>5, <3>6 DEF RequestLocks
  <2> QED BY <2>1, <2>2
<1>8. ASSUME NEW u \in Users, NEW r \in Readers, Reaches(u, r)
      PROVE  Framed'
  <2>1. op' = [op EXCEPT ![u].todo = @ \ {r}] /\ UNCHANGED <<mtx, nodes, readers, made, faults>>
    BY <1>8 DEF Reaches
  <2>2. op' \in [Users -> Ops]
    BY <1>1, <2>1
  <2>3. pc' = [pc EXCEPT ![u] = "taking"] \/ pc' = pc
    BY <1>1, <1>8, ArrivalFrame DEF Reaches, Arrives
  <2> QED BY <1>1, <2>1, <2>2, <2>3
<1>9. ASSUME NEW u \in Users, WriteReturns(u)
      PROVE  Framed'
  BY <1>1, <1>6, <1>9 DEF WriteReturns
<1>10. ASSUME NEW u \in Users, NEW r \in Readers, DeleteNode(u, r)
       PROVE  Framed'
  BY <1>1, <1>6, <1>10 DEF DeleteNode, ReaderDeleted
<1>11. CASE UNCHANGED vars
  BY <1>1, <1>11 DEF vars
<1> HIDE DEF Framed
<1> QED BY <1>3, <1>4, <1>5, <1>7, <1>8, <1>9, <1>10, <1>11 DEF Next, Runs, ListenerStep

\* The service's mutex keeps the requests apart, and what a request writes to stays.
LEMMA LockingStep ==
    ASSUME IInv, TypeOK', [Next]_vars
    PROVE  Locking' /\ (readers \subseteq nodes)'
<1>1. /\ TypeOK /\ Locking /\ readers \subseteq nodes /\ Readied
      /\ Users \subseteq Threads /\ Receivers \subseteq Threads
      /\ Listening = {"taking", "giving", "callback", "nested"}
  BY DEF IInv, TypeOK, Threads, Listening, Readied, ReaderState
<1>2. pc \in [Threads -> {"idle", "locking", "writing", "deleting", "taking", "giving",
                          "callback", "nested"}]
      /\ DOMAIN op = Users
  BY <1>1 DEF TypeOK
<1>3. ASSUME NEW t \in Threads, NEW r \in Readers,
             ListenerStep(t, r)
      PROVE  Locking' /\ (readers \subseteq nodes)'
  <2>1. /\ UNCHANGED <<mtx, op, nodes, readers>> /\ pc[t] \in Listening
        /\ \A s \in Readers : at'[s].left = at[s].left
        /\ \E p : pc' = [pc EXCEPT ![t] = p]
    BY <1>1, <1>3, ListenerFrame DEF requests
  <2>2. \A u \in Users : op[u].todo \subseteq Readers
    BY <1>1 DEF TypeOK
  <2> QED BY <1>1, <1>2, <2>1, <2>2 DEF Locking, Locks
<1>4. ASSUME NEW t \in Receivers, NEW r \in Readers, Receive(t, r)
      PROVE  Locking' /\ (readers \subseteq nodes)'
  <2>1. /\ UNCHANGED <<mtx, op, nodes, readers>>
        /\ \A s \in Readers : at'[s].left \subseteq at[s].left \cup {"there"}
        /\ \A u \in Users : pc'[u] = pc[u]
    <3>1. UNCHANGED <<mtx, op, nodes, readers>>
      BY <1>4 DEF Receive
    <3>2. Arrives(t, r, "there")
      BY <1>4 DEF Receive, Arrives
    <3>3. /\ pc' = [pc EXCEPT ![t] = "taking"] \/ pc' = pc
          /\ \A s \in Readers : at'[s].left \subseteq at[s].left \cup {"there"}
      BY <1>1, <3>2, ArrivalFrame
    <3>4. t \notin Users
      BY DEF DeliveryAssumption
    <3> QED BY <1>1, <1>2, <3>1, <3>3, <3>4
  <2>2. \A u \in Users : op[u].todo \subseteq Readers
    BY <1>1 DEF TypeOK
  <2> QED BY <1>1, <2>1, <2>2 DEF Locking, Locks
<1>5. ASSUME NEW u \in Users, Requests(u)
      PROVE  Locking' /\ (readers \subseteq nodes)'
  <2>1. PICK kind \in {"publish", "withdraw", "delete"}, r \in Readers \cup {Null},
              k \in Keys \cup {Null} :
           Request(u, kind, r, k) /\ (kind = "publish" => k \in Keys)
    BY <1>1, <1>5 DEF Requests, TypeOK
  <2>2. /\ op' = [op EXCEPT ![u] = [NoOp EXCEPT !.kind = kind, !.reader = r, !.key = k]]
        /\ pc' = [pc EXCEPT ![u] = "locking"] /\ UNCHANGED <<mtx, nodes, readers, at>>
    BY <2>1 DEF Request, Goes
  <2>3. op'[u].todo = {} /\ op'[u].kind = kind /\ op'[u].key = k /\ pc'[u] = "locking"
    BY <1>1, <1>2, <2>2 DEF NoOp
  <2>4. \A v \in Users \ {u} : op'[v] = op[v] /\ pc'[v] = pc[v]
    BY <1>1, <1>2, <2>2
  <2>5. Locks(u)'
    BY <1>1, <2>1, <2>3 DEF Locks
  <2>6. \A v \in Users \ {u} : Locks(v)'
    BY <1>1, <2>2, <2>4 DEF Locking, Locks
  <2> QED BY <1>1, <2>2, <2>5, <2>6 DEF Locking
<1>6. ASSUME NEW u \in Users, mtx \in {u, Null}
      PROVE  \A v \in Users \ {u} :
                /\ pc[v] \notin Listening \cup {"writing", "deleting"} /\ op[v].todo = {}
                /\ op[v].kind = "publish" => op[v].key \in Keys
  BY <1>1, <1>6 DEF Locking, Locks, DeliveryAssumption
<1>7. ASSUME NEW u \in Users, mtx \in {u, Null}, Returns(u)
      PROVE  Locking'
  <2>1. op' = [op EXCEPT ![u] = NoOp] /\ pc' = [pc EXCEPT ![u] = "idle"]
    BY <1>7 DEF Returns, Goes
  <2>2. \A v \in Users \ {u} : op'[v] = op[v] /\ pc'[v] = pc[v]
    BY <1>1, <1>2, <2>1
  <2>3. op'[u].todo = {} /\ op'[u].kind = "none" /\ pc'[u] = "idle"
    BY <1>1, <1>2, <2>1 DEF NoOp
  <2>4. Locks(u)'
    BY <1>1, <2>3 DEF Locks
  <2>5. \A v \in Users \ {u} : Locks(v)'
    BY <1>6, <1>7, <2>2 DEF Locks
  <2> QED BY <2>4, <2>5 DEF Locking
<1>8. ASSUME NEW u \in Users, RequestLocks(u)
      PROVE  Locking' /\ (readers \subseteq nodes)'
  <2>1. mtx = Null /\ UNCHANGED <<nodes, readers, at>>
    BY <1>8 DEF RequestLocks
  <2>2. CASE Refused(u)
    BY <1>1, <1>7, <1>8, <2>1, <2>2 DEF RequestLocks
  <2>3. CASE ~Refused(u)
    <3>1. /\ mtx' = u /\ op' = [op EXCEPT ![u].todo = Matched]
          /\ made' = made + (IF op[u].kind = "publish" THEN 1 ELSE 0)
          /\ \E p : pc' = [pc EXCEPT ![u] = p]
      BY <1>8, <2>3 DEF RequestLocks, Goes
    <3>2. \A v \in Users \ {u} : op'[v] = op[v] /\ pc'[v] = pc[v]
      BY <1>1, <1>2, <3>1
    <3>3. op'[u].todo = Matched /\ op'[u].kind = op[u].kind /\ op'[u].key = op[u].key
      BY <1>1, <1>2, <3>1 DEF TypeOK
    <3>4. Locks(u)'
      BY <1>1, <2>1, <3>1, <3>3 DEF Locking, Locks, Matched
    <3>5. \A v \in Users \ {u} : Locks(v)'
      BY <1>6, <2>1, <3>2 DEF Locks
    <3> QED BY <1>1, <2>1, <3>4, <3>5 DEF Locking
  <2> QED BY <2>2, <2>3
<1>9. ASSUME NEW u \in Users, NEW r \in Readers, Reaches(u, r)
      PROVE  Locking' /\ (readers \subseteq nodes)'
  <2>1. /\ pc[u] = "writing" /\ op' = [op EXCEPT ![u].todo = @ \ {r}]
        /\ UNCHANGED <<mtx, nodes, readers>>
        /\ Arrives(u, r, "here")
    BY <1>9 DEF Reaches, Arrives
  <2>2. /\ pc' = [pc EXCEPT ![u] = "taking"] \/ pc' = pc
        /\ \A s \in Readers \ {r} : at'[s].left = at[s].left
    BY <1>1, <2>1, ArrivalFrame
  <2>3. mtx = u /\ op[u].todo \subseteq Readers
    BY <1>1, <2>1 DEF Locking, Locks, TypeOK
  <2>4. \A v \in Users \ {u} : op'[v] = op[v] /\ pc'[v] = pc[v]
    BY <1>1, <1>2, <2>1, <2>2
  <2>5. /\ op'[u].todo = op[u].todo \ {r} /\ op'[u].kind = op[u].kind
        /\ op'[u].key = op[u].key
    BY <1>1, <1>2, <2>1 DEF TypeOK
  <2>6. Locks(u)'
    BY <1>1, <2>1, <2>2, <2>3, <2>5 DEF Locking, Locks
  <2>7. \A v \in Users \ {u} : Locks(v)'
    BY <1>6, <2>1, <2>3, <2>4 DEF Locks
  <2> QED BY <1>1, <2>1, <2>6, <2>7 DEF Locking
<1>10. ASSUME NEW u \in Users, WriteReturns(u)
       PROVE  Locking' /\ (readers \subseteq nodes)'
  <2>1. mtx = u /\ UNCHANGED <<nodes, readers>> /\ Returns(u)
    BY <1>1, <1>10 DEF WriteReturns, Locking, Locks
  <2> QED BY <1>1, <1>7, <2>1
<1>11. ASSUME NEW u \in Users, NEW r \in Readers, DeleteNode(u, r)
       PROVE  Locking' /\ (readers \subseteq nodes)'
  <2>1. mtx = u /\ Returns(u) /\ nodes' = nodes \ {r}
    BY <1>1, <1>11 DEF DeleteNode, Locking, Locks
  <2>2. readers' = readers \ {r}
    BY <1>1, <1>11, DeleteReadied
  <2> QED BY <1>1, <1>7, <2>1, <2>2
<1>12. CASE UNCHANGED vars
  BY <1>1, <1>12 DEF vars, Locking, Locks
<1> QED BY <1>1, <1>3, <1>4, <1>5, <1>8, <1>9, <1>10, <1>11, <1>12 DEF Next, Runs, ListenerStep
-----------------------------------------------------------------------------
(* The inductive invariant, and what it says. *)

\* A reader starts with nothing to tell.
LEMMA InvariantHolds == Spec => []IInv
<1>1. Init => IInv
  <2>1. SUFFICES ASSUME Init PROVE IInv
    OBVIOUS
  <2>2. \A r \in Readers :
           NewReader(r) \in ReaderState /\ Sound(NewReader(r), "out")
    <3>1. SUFFICES ASSUME NEW r \in Readers
                   PROVE  NewReader(r) \in ReaderState /\ Sound(NewReader(r), "out")
      OBVIOUS
    <3> DEFINE b == NewReader(r)
               none == [k \in Keys |-> 0]
               bare == [k \in Keys |-> {}]
    <3>2. PICK left \in SUBSET Sources :
             b = [holder |-> Null, left |-> left, writers |-> bare, history |-> {},
                  loaned |-> TRUE, lent |-> {}, queue |-> {}, data |-> Null,
                  seen |-> Null, late |-> {}, arrived |-> none, told |-> none]
      BY DEF NewReader, Sources
    <3>3. /\ none \in [Keys -> Nat] /\ bare \in [Keys -> SUBSET Sources]
          /\ \A k \in Keys : none[k] = 0
      OBVIOUS
    <3> HIDE DEF b, none, bare
    <3>4. /\ b \in ReaderState /\ b.history = {} /\ b.queue = {} /\ b.told = none
          /\ b.arrived = none /\ b.lent = {} /\ b.seen = Null
      BY <3>2, <3>3 DEF ReaderState
    <3>5. Flow(b)
      BY <3>3, <3>4 DEF Flow, Fresh, Kept
    <3>6. Backed(b) /\ Settled(b, "out")
      BY <3>4 DEF Backed, Settled
    <3> QED BY <3>4, <3>5, <3>6 DEF Sound, b
  <2>3. at \in [Readers -> ReaderState] /\ \A r \in Readers : at[r].holder = Null
    BY <2>1, <2>2 DEF Init, NewReader
  <2>4. TypeOK
    BY <2>1, <2>3 DEF Init, TypeOK, ReaderState, NoOp, DeliveryAssumption, Threads
  <2>5. Holding /\ Locking
    BY <2>1, <2>3 DEF Init, Holding, Locking, Locks, NoOp, Listening, Threads
  <2>6. \A r \in Readers : Sound(at[r], Point(r))
    BY <2>1, <2>2, <2>3 DEF Init, Point
  <2> QED BY <2>1, <2>4, <2>5, <2>6 DEF Init, IInv
<1>2. IInv /\ [Next]_vars => IInv'
  <2>1. SUFFICES ASSUME IInv, [Next]_vars PROVE IInv'
    OBVIOUS
  <2>2. Readied'
    BY <2>1, ReadiedStep
  <2>3. TypeOK'
    BY <2>1, <2>2, TypeStep
  <2>4. Locking' /\ (readers \subseteq nodes)'
    BY <2>1, <2>3, LockingStep
  <2> QED BY <2>2, <2>3, <2>4 DEF IInv, Readied
<1> QED BY <1>1, <1>2, PTL DEF Spec

\* Every variable keeps its type; a callback is told of samples only.
THEOREM TypeCorrect == Spec => []TypeOK
<1>1. IInv => TypeOK
  BY DEF IInv
<1> QED BY <1>1, InvariantHolds, PTL

\* What a callback has been given is on loan, or alone in data_, of a node that exists, as long
\* as the callback may look at it: the loan is returned, data_ is filled again and the node is
\* deleted at other points of the listener only.
THEOREM PointersValid == Spec => []PointerValid
<1>1. IInv => PointerValid
  <2>1. SUFFICES ASSUME IInv, NEW r \in Readers, at[r].seen # Null
                 PROVE  r \in nodes /\ (at[r].seen \in at[r].lent \/ at[r].data = at[r].seen)
    BY DEF PointerValid
  <2>2. Sound(at[r], Point(r)) /\ Holding /\ readers \subseteq nodes
    BY <2>1 DEF IInv
  <2>3. Backed(at[r]) /\ at[r].holder # Null
    BY <2>1, <2>2 DEF Sound, Settled, Point
  <2> QED BY <2>1, <2>2, <2>3 DEF Backed, Holding
<1> QED BY <1>1, InvariantHolds, PTL

\* Whenever nobody is in the listener of a reader, it has nothing on loan, and its callback has
\* been told of the newest sample of each instance, but for those that a failed copied take
\* left behind: these still wait, or their writers have gone.
THEOREM NothingIsHeldBack == Spec => []NothingHeldBack
<1>1. IInv => NothingHeldBack
  <2>1. SUFFICES ASSUME IInv, NEW r \in readers, at[r].holder = Null
                 PROVE  /\ at[r].lent = {}
                        /\ \A k \in Keys :
                              \/ at[r].told[k] = at[r].arrived[k]
                              \/ /\ k \in at[r].late
                                 /\ \/ <<k, at[r].arrived[k]>> \in at[r].history
                                    \/ at[r].writers[k] = {}
    BY DEF NothingHeldBack
  <2> DEFINE a == at[r]
  <2>2. a \in ReaderState /\ Point(r) = "out" /\ Sound(a, "out")
    BY <2>1 DEF IInv, TypeOK, Point, ReaderState
  <2> HIDE DEF a
  <2>3. /\ a.lent = {} /\ a.queue = {} /\ Flow(a)
        /\ \A i \in a.history : i[2] # Notice => i[1] \in a.late
        /\ a.told \in [Keys -> Nat] /\ a.arrived \in [Keys -> Nat]
    BY <2>2 DEF Sound, Settled, ReaderState
  <2>4. ASSUME NEW k \in Keys, a.told[k] # a.arrived[k]
        PROVE  /\ k \in a.late
               /\ <<k, a.arrived[k]>> \in a.history \/ a.writers[k] = {}
    <3>1. \/ <<k, a.arrived[k]>> \in a.history
          \/ k \in a.late /\ a.writers[k] = {}
      BY <2>3, <2>4 DEF Flow, Kept
    <3>2. a.arrived[k] # Notice
      <4>1. a.told[k] <= a.arrived[k] /\ a.told[k] \in Nat /\ a.arrived[k] \in Nat
        BY <2>3 DEF Flow
      <4> QED BY <2>4, <4>1 DEF Notice
    <3> QED BY <2>3, <3>1, <3>2
  <2> QED BY <2>3, <2>4 DEF a
<1> QED BY <1>1, InvariantHolds, PTL

\* No sample is told twice or after a later one of its instance: what waits or is taken is the
\* newest and not told yet, whichever loop takes it and whatever failed before.
THEOREM OnlyNewestTold == Spec => NewestOnly
<1> DEFINE Step == \A r \in Readers : at'[r].seen \notin {at[r].seen, Null} =>
                      LET i == at'[r].seen
                      IN  i[2] = at[r].arrived[i[1]] /\ i[2] > at[r].told[i[1]]
<1>1. IInv /\ [Next]_vars => [Step]_vars
  <2>1. SUFFICES ASSUME IInv, [Next]_vars
                 PROVE  \A r \in Readers : Newest(at[r], at'[r])
    BY DEF Newest
  <2>2. TypeOK /\ Readied /\ Users \subseteq Threads /\ Receivers \subseteq Threads
    BY <2>1 DEF IInv, TypeOK, Readied, ReaderState, Threads
  <2>3. \A a, b : b.seen = a.seen => Newest(a, b)
    BY DEF Newest
  <2>4. ASSUME NEW t \in Threads, NEW r \in Readers, ListenerStep(t, r)
        PROVE  \A s \in Readers : Newest(at[s], at'[s])
    BY <2>2, <2>4, ListenerFrame
  <2>5. ASSUME NEW t \in Threads, NEW r \in Readers, NEW source, Arrives(t, r, source)
        PROVE  \A s \in Readers : Newest(at[s], at'[s])
    BY <2>2, <2>3, <2>5, ArrivalFrame
  <2>6. ASSUME NEW u \in Users, NEW r \in Readers, DeleteNode(u, r)
        PROVE  \A s \in Readers : Newest(at[s], at'[s])
    <3>1. at' = [at EXCEPT ![r].data = Null] /\ at \in [Readers -> ReaderState]
      BY <2>2, <2>6 DEF DeleteNode, Readied
    <3>2. \A s \in Readers : at'[s].seen = at[s].seen
      BY <3>1 DEF ReaderState
    <3> QED BY <2>3, <3>2
  <2>7. CASE UNCHANGED at
    BY <2>3, <2>7
  <2>8. ASSUME NEW t \in Receivers, NEW r \in Readers, Receive(t, r)
        PROVE  Arrives(t, r, "there")
    BY <2>8 DEF Receive, Arrives
  <2>9. ASSUME NEW u \in Users, NEW r \in Readers, Reaches(u, r)
        PROVE  Arrives(u, r, "here")
    BY <2>9 DEF Reaches, Arrives
  <2>10. ASSUME NEW u \in Users, Requests(u) \/ RequestLocks(u) \/ WriteReturns(u)
         PROVE  UNCHANGED at
    BY <2>10 DEF Requests, Request, RequestLocks, WriteReturns
  <2>11. ASSUME NEW t \in Threads, Runs(t)
         PROVE  \A s \in Readers : Newest(at[s], at'[s])
    BY <2>2, <2>4, <2>5, <2>6, <2>7, <2>9, <2>10, <2>11 DEF Runs, ListenerStep
  <2>12. CASE Next
    BY <2>2, <2>4, <2>5, <2>7, <2>8, <2>10, <2>11, <2>12 DEF Next, ListenerStep
  <2>13. CASE UNCHANGED vars
    BY <2>7, <2>13, SMTT(30) DEF vars
  <2> QED BY <2>1, <2>12, <2>13
<1>2. [Step]_vars => [\A r \in Readers : at'[r].seen \notin {at[r].seen, Null} =>
                        LET i == at'[r].seen
                        IN  i[2] = at[r].arrived[i[1]] /\ i[2] > at[r].told[i[1]]]_vars
  OBVIOUS
<1> QED BY <1>1, <1>2, InvariantHolds, PTL DEF Spec, NewestOnly

\* The listener runs for the readers of nodes that exist: once deleteNode() has taken the node
\* out of nodes_ no callback of it runs, and none starts.
THEOREM NoneAfterDelete == Spec => []NoCallbackAfterDelete
<1>1. IInv => NoCallbackAfterDelete
  BY DEF IInv, NoCallbackAfterDelete, Holding
<1> QED BY <1>1, InvariantHolds, PTL
=============================================================================
