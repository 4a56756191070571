--------------------------- MODULE RpcServiceProofs ---------------------------
(***************************************************************************)
(* For any names, topics, types, objects and pool size, and whichever      *)
(* calls into Fast DDS fail: the maps of a node are the entities it has, a *)
(* topic lives as long as it is used, a request that fails leaves no more  *)
(* than the type it registered, and a node that is deleted leaves only     *)
(* what a loan holds.                                                      *)
(***************************************************************************)
EXTENDS RpcService, TLAPS

\* The entities of Fast DDS.
Entities ==
    [participants : SUBSET Objects, publishers : SUBSET Objects, subscribers : SUBSET Objects,
     topics : SUBSET Topic, writers : SUBSET Topic, readers : SUBSET Topic,
     loans : [Objects \X TopicNames -> 0..PoolSize]]

Fields == [topics : SUBSET Topic, pubs : SUBSET TopicNames, subs : SUBSET TopicNames]

\* A name has an object of its own.
NamesApart == \A m, n \in Names : Found(m) /\ nodes[m] = nodes[n] => m = n

\* What exists in Fast DDS exists inside what it needs.
Contained ==
    /\ dds.publishers \cup dds.subscribers \subseteq dds.participants
    /\ \A e \in dds.writers : e.node \in dds.publishers
    /\ \A e \in dds.readers : e.node \in dds.subscribers
    /\ \A x \in types : x[1] \in dds.participants

\* A participant has one topic of a name.
OneType == \A e, f \in dds.topics : e.node = f.node /\ e.topic = f.topic => e = f

\* A sample on loan has its writer.
LoansHaveWriters ==
    \A w \in OnLoan : \E e \in dds.writers : e.node = w[1] /\ e.topic = w[2]

\* No buffer is left of a node that is deleted.
BuffersLive == \A b \in buffers : b.node \in Live

\* The inductive invariant.
IInv ==
    /\ TypeOK /\ NamesApart /\ Contained /\ OneType /\ LoansHaveWriters /\ BuffersLive
    /\ MapsMatchEntities /\ TopicsInUse /\ LeakOnlyWithLoan
-----------------------------------------------------------------------------
(* What the deletes of Fast DDS do to each kind of entity.                  *)

\* A reader is always deleted.
LEMMA ReadersDeleted ==
    ASSUME NEW d \in Entities, NEW o, NEW T
    PROVE  LET z == DeleteReaders(d, o, T) IN
           /\ z \in Entities
           /\ z.readers = {e \in d.readers : ~(e.node = o /\ e.topic \in T)}
           /\ z.participants = d.participants /\ z.publishers = d.publishers
           /\ z.subscribers = d.subscribers /\ z.topics = d.topics /\ z.writers = d.writers
           /\ z.loans = d.loans
  BY DEF DeleteReaders, Entities

\* A subscriber without readers is deleted.
LEMMA SubscriberDeleted ==
    ASSUME NEW d \in Entities, NEW o, \A e \in d.readers : e.node # o
    PROVE  LET z == DeleteSubscriber(d, o) IN
           /\ z \in Entities
           /\ z.subscribers = d.subscribers \ {o}
           /\ z.participants = d.participants /\ z.publishers = d.publishers
           /\ z.readers = d.readers /\ z.topics = d.topics /\ z.writers = d.writers
           /\ z.loans = d.loans
  BY DEF DeleteSubscriber, Entities

\* A writer is deleted unless a sample of it is on loan.
LEMMA WritersDeleted ==
    ASSUME NEW d \in Entities, NEW o, NEW T
    PROVE  LET z == DeleteWriters(d, o, T) IN
           /\ z \in Entities
           /\ z.writers = {e \in d.writers :
                             ~(e.node = o /\ e.topic \in T /\ d.loans[<<o, e.topic>>] = 0)}
           /\ z.participants = d.participants /\ z.publishers = d.publishers
           /\ z.subscribers = d.subscribers /\ z.topics = d.topics /\ z.readers = d.readers
           /\ z.loans = d.loans
  BY DEF DeleteWriters, Entities

\* A publisher is deleted unless it has a writer.
LEMMA PublisherDeleted ==
    ASSUME NEW d \in Entities, NEW o
    PROVE  LET z == DeletePublisher(d, o) IN
           /\ z \in Entities
           /\ (\E e \in d.writers : e.node = o) => z.publishers = d.publishers
           /\ (\A e \in d.writers : e.node # o) => z.publishers = d.publishers \ {o}
           /\ z.participants = d.participants /\ z.subscribers = d.subscribers
           /\ z.readers = d.readers /\ z.topics = d.topics /\ z.writers = d.writers
           /\ z.loans = d.loans
  BY DEF DeletePublisher, Entities

\* A topic is deleted unless an endpoint uses it.
LEMMA TopicsDeleted ==
    ASSUME NEW d \in Entities, NEW T
    PROVE  LET z == DeleteTopics(d, T) IN
           /\ z \in Entities
           /\ z.topics = {p \in d.topics : p \in T => \E e \in d.writers \cup d.readers :
                                                          e.node = p.node /\ e.topic = p.topic}
           /\ z.participants = d.participants /\ z.publishers = d.publishers
           /\ z.subscribers = d.subscribers /\ z.writers = d.writers /\ z.readers = d.readers
           /\ z.loans = d.loans
  BY DEF DeleteTopics, Entities

\* A participant is deleted unless it has a publisher, a subscriber or a topic.
LEMMA ParticipantDeleted ==
    ASSUME NEW d \in Entities, NEW o
    PROVE  LET z == DeleteParticipant(d, o) IN
           /\ z \in Entities
           /\ (o \in d.publishers \/ o \in d.subscribers \/ \E p \in d.topics : p.node = o)
                 => z.participants = d.participants
           /\ (o \notin d.publishers /\ o \notin d.subscribers /\ \A p \in d.topics : p.node # o)
                 => z.participants = d.participants \ {o}
           /\ z.publishers = d.publishers /\ z.subscribers = d.subscribers
           /\ z.topics = d.topics /\ z.writers = d.writers /\ z.readers = d.readers
           /\ z.loans = d.loans
  BY DEF DeleteParticipant, Entities

\* The destructor of a node whose maps name its readers and writers.
LEMMA DestroyedEffect ==
    ASSUME NEW d \in Entities, NEW o,
           \A e \in d.readers : e.node = o => e.topic \in fields[o].subs,
           \A e \in d.writers : e.node = o => e.topic \in fields[o].pubs
    PROVE  LET z == Destroyed(d, o) IN
           /\ z \in Entities
           /\ z.readers = {e \in d.readers : e.node # o}
           /\ z.subscribers = d.subscribers \ {o}
           /\ z.writers = {e \in d.writers : ~(e.node = o /\ d.loans[<<o, e.topic>>] = 0)}
           /\ (\E e \in z.writers : e.node = o) => z.publishers = d.publishers
           /\ (\A e \in z.writers : e.node # o) => z.publishers = d.publishers \ {o}
           /\ z.topics = {p \in d.topics : p \in fields[o].topics =>
                             \E e \in z.writers \cup z.readers : e.node = p.node /\ e.topic = p.topic}
           /\ (o \in z.publishers \/ o \in z.subscribers \/ \E p \in z.topics : p.node = o)
                 => z.participants = d.participants
           /\ (o \notin z.publishers /\ o \notin z.subscribers /\ \A p \in z.topics : p.node # o)
                 => z.participants = d.participants \ {o}
           /\ z.loans = d.loans
<1> DEFINE a == DeleteReaders(d, o, fields[o].subs)
           b == DeleteSubscriber(a, o)
           f == DeleteWriters(b, o, fields[o].pubs)
           g == DeletePublisher(f, o)
           h == DeleteTopics(g, fields[o].topics)
           z == DeleteParticipant(h, o)
<1>1. z = Destroyed(d, o)
  BY DEF Destroyed
<1>2. /\ a \in Entities /\ a.readers = {e \in d.readers : e.node # o}
      /\ a.participants = d.participants /\ a.publishers = d.publishers
      /\ a.subscribers = d.subscribers /\ a.topics = d.topics /\ a.writers = d.writers
      /\ a.loans = d.loans
  BY ReadersDeleted
<1> HIDE DEF a
<1>3. /\ b \in Entities /\ b.subscribers = d.subscribers \ {o} /\ b.readers = a.readers
      /\ b.participants = d.participants /\ b.publishers = d.publishers
      /\ b.topics = d.topics /\ b.writers = d.writers /\ b.loans = d.loans
  BY <1>2, SubscriberDeleted
<1> HIDE DEF b
<1>4. /\ f \in Entities
      /\ f.writers = {e \in d.writers : ~(e.node = o /\ d.loans[<<o, e.topic>>] = 0)}
      /\ f.participants = d.participants /\ f.publishers = d.publishers
      /\ f.subscribers = b.subscribers /\ f.topics = d.topics /\ f.readers = a.readers
      /\ f.loans = d.loans
  BY <1>3, WritersDeleted
<1> HIDE DEF f
<1>5. /\ g \in Entities
      /\ (\E e \in f.writers : e.node = o) => g.publishers = d.publishers
      /\ (\A e \in f.writers : e.node # o) => g.publishers = d.publishers \ {o}
      /\ g.participants = d.participants /\ g.subscribers = b.subscribers
      /\ g.topics = d.topics /\ g.writers = f.writers /\ g.readers = a.readers
      /\ g.loans = d.loans
  <2>1. /\ g \in Entities
        /\ (\E e \in f.writers : e.node = o) => g.publishers = f.publishers
        /\ (\A e \in f.writers : e.node # o) => g.publishers = f.publishers \ {o}
        /\ g.participants = f.participants /\ g.subscribers = f.subscribers
        /\ g.topics = f.topics /\ g.writers = f.writers /\ g.readers = f.readers
        /\ g.loans = f.loans
    <3>1. f \in Entities
      BY <1>4
    <3> QED
      BY ONLY <3>1, PublisherDeleted
  <2> HIDE DEF g
  <2> QED
    BY <1>4, <2>1
<1> HIDE DEF g
<1>6. /\ h \in Entities
      /\ h.topics = {p \in d.topics : p \in fields[o].topics =>
                       \E e \in f.writers \cup a.readers : e.node = p.node /\ e.topic = p.topic}
      /\ h.participants = d.participants /\ h.publishers = g.publishers
      /\ h.subscribers = b.subscribers /\ h.writers = f.writers /\ h.readers = a.readers
      /\ h.loans = d.loans
  BY <1>5, TopicsDeleted
<1> HIDE DEF h
<1>7. /\ z \in Entities
      /\ (o \in g.publishers \/ o \in b.subscribers \/ \E p \in h.topics : p.node = o)
            => z.participants = d.participants
      /\ (o \notin g.publishers /\ o \notin b.subscribers /\ \A p \in h.topics : p.node # o)
            => z.participants = d.participants \ {o}
      /\ z.publishers = g.publishers /\ z.subscribers = b.subscribers
      /\ z.topics = h.topics /\ z.writers = f.writers /\ z.readers = a.readers
      /\ z.loans = d.loans
  BY <1>6, ParticipantDeleted
<1> HIDE DEF z
<1>8. /\ z \in Entities /\ z.readers = {e \in d.readers : e.node # o}
      /\ z.subscribers = d.subscribers \ {o} /\ z.loans = d.loans
      /\ z.writers = {e \in d.writers : ~(e.node = o /\ d.loans[<<o, e.topic>>] = 0)}
  BY <1>2, <1>3, <1>4, <1>7
<1>9. /\ (\E e \in z.writers : e.node = o) => z.publishers = d.publishers
      /\ (\A e \in z.writers : e.node # o) => z.publishers = d.publishers \ {o}
  BY <1>5, <1>7
<1>10. z.topics = {p \in d.topics : p \in fields[o].topics =>
                      \E e \in z.writers \cup z.readers : e.node = p.node /\ e.topic = p.topic}
  BY <1>6, <1>7
<1>11. /\ (o \in z.publishers \/ o \in z.subscribers \/ \E p \in z.topics : p.node = o)
             => z.participants = d.participants
       /\ (o \notin z.publishers /\ o \notin z.subscribers /\ \A p \in z.topics : p.node # o)
             => z.participants = d.participants \ {o}
  BY <1>7
<1> QED
  BY <1>1, <1>8, <1>9, <1>10, <1>11, Zenon

\* The entities have their types.
LEMMA EntitiesTyped ==
    ASSUME TypeOK
    PROVE  /\ dds \in Entities /\ fields \in [Objects -> Fields]
           /\ \A n \in Names : Found(n) => nodes[n] \in Objects /\ nodes[n] \in Live
           /\ \A o \in Live : o \in Objects /\ \E n \in Names : Found(n) /\ nodes[n] = o
           /\ \A e \in dds.topics \cup dds.writers \cup dds.readers \cup buffers : e \in Topic
  BY ServiceAssumption DEF TypeOK, Entities, Fields, Found, Live

\* The maps of a live node name its readers and writers.
LEMMA MapsName ==
    ASSUME TypeOK, MapsMatchEntities, NEW o \in Live
    PROVE  /\ \A e \in dds.readers : e.node = o => e.topic \in fields[o].subs
           /\ \A e \in dds.writers : e.node = o => e.topic \in fields[o].pubs
           /\ \A t \in fields[o].subs : \E e \in dds.readers : e.node = o /\ e.topic = t
           /\ \A t \in fields[o].pubs : \E e \in dds.writers : e.node = o /\ e.topic = t
           /\ \A p : p \in fields[o].topics <=> p \in dds.topics /\ p.node = o
           /\ \A b \in buffers : b.node = o => b \in dds.readers
           /\ \A e \in dds.readers : e.node = o => e \in buffers
  BY DEF MapsMatchEntities, TopicNamesOf

\* Entities with equal components are equal.
LEMMA SameEntities ==
    ASSUME NEW a \in Entities, NEW b \in Entities,
           a.participants = b.participants, a.publishers = b.publishers,
           a.subscribers = b.subscribers, a.topics = b.topics, a.writers = b.writers,
           a.readers = b.readers, a.loans = b.loans
    PROVE  a = b
  BY DEF Entities
-----------------------------------------------------------------------------
(* Each request preserves the invariant; one that fails leaves at most a    *)
(* type behind.                                                             *)

\* Nothing changes but the answer, or a type is registered with the participant of a live node.
OnlyType ==
    /\ UNCHANGED <<nodes, fields, buffers, dds>> /\ taken' \in BOOLEAN
    /\ types' # types => taken' /\ \E o \in Live, ty \in Types : types' = Registered(o, ty)

\* Such a step.
LEMMA NoEffect ==
    ASSUME IInv, OnlyType, answer' \in {"none", "ok", "no"}
    PROVE  IInv'
<1>1. /\ types \subseteq types' /\ types' \subseteq Objects \X Types
      /\ \A x \in types' : x[1] \in dds.participants
  <2>1. CASE types' = types
    BY <2>1 DEF IInv, TypeOK, Contained
  <2>2. CASE types' # types
    <3>1. PICK o \in Live, ty \in Types : types' = types \cup {<<o, ty>>}
      BY <2>2 DEF OnlyType, Registered
    <3>2. o \in Objects /\ o \in dds.participants
      BY EntitiesTyped DEF IInv, MapsMatchEntities
    <3> QED
      BY <3>1, <3>2 DEF IInv, TypeOK, Contained
  <2> QED
    BY <2>1, <2>2
<1>2. TypeOK'
  BY <1>1 DEF IInv, TypeOK, OnlyType
<1>3. Contained' /\ TopicsInUse'
  BY <1>1 DEF IInv, Contained, TopicsInUse, OnlyType
<1>4. /\ NamesApart' /\ OneType' /\ LoansHaveWriters' /\ BuffersLive'
      /\ MapsMatchEntities' /\ LeakOnlyWithLoan'
  BY DEF IInv, OnlyType, NamesApart, OneType, LoansHaveWriters, BuffersLive, Found, Live,
         OnLoan, MapsMatchEntities, TopicNamesOf, LeakOnlyWithLoan
<1> QED
  BY <1>2, <1>3, <1>4 DEF IInv

\* Nothing exists of an object that is free.
LEMMA FreeIsEmpty ==
    ASSUME IInv, NEW o \in Free
    PROVE  /\ o \in Objects /\ o \notin Live
           /\ o \notin dds.participants /\ o \notin dds.publishers /\ o \notin dds.subscribers
           /\ \A e \in dds.topics \cup dds.writers \cup dds.readers : e.node # o
           /\ \A b \in buffers : b.node # o
<1>1. o \in Objects /\ o \notin Live /\ o \notin dds.participants
  BY DEF Free, Live
<1>2. o \notin dds.publishers /\ o \notin dds.subscribers
  BY <1>1 DEF IInv, Contained
<1>3. \A e \in dds.writers \cup dds.readers : e.node # o
  BY <1>2 DEF IInv, Contained
<1>4. \A b \in buffers : b.node # o
  BY <1>1 DEF IInv, BuffersLive
<1> QED
  BY <1>1, <1>2, <1>3, <1>4 DEF IInv, TopicsInUse

\* A node that could not be made is gone again.
LEMMA CreateFailsSame ==
    ASSUME IInv, NEW n \in Names, CreateNodeFails(n)
    PROVE  UNCHANGED <<nodes, fields, buffers, dds>>
<1> SUFFICES ASSUME NEW o \in Free, NEW P \in SUBSET {o}, NEW S \in SUBSET {o},
                    dds' = Destroyed([dds EXCEPT !.participants = @ \cup {o},
                                        !.publishers = @ \cup P, !.subscribers = @ \cup S], o)
             PROVE  dds' = dds
  BY DEF CreateNodeFails
<1> DEFINE d == [dds EXCEPT !.participants = @ \cup {o},
                            !.publishers = @ \cup P, !.subscribers = @ \cup S]
           z == Destroyed(d, o)
<1>1. dds \in Entities
  BY EntitiesTyped DEF IInv
<1>2. /\ o \in Objects /\ o \notin dds.participants
      /\ o \notin dds.publishers /\ o \notin dds.subscribers
      /\ \A e \in dds.topics \cup dds.writers \cup dds.readers : e.node # o
  BY FreeIsEmpty
<1>3. /\ d \in Entities
      /\ d.participants = dds.participants \cup {o} /\ d.publishers = dds.publishers \cup P
      /\ d.subscribers = dds.subscribers \cup S /\ d.topics = dds.topics
      /\ d.writers = dds.writers /\ d.readers = dds.readers /\ d.loans = dds.loans
  BY <1>1, <1>2 DEF Entities
<1> HIDE DEF d
<1>4. /\ \A e \in d.readers : e.node = o => e.topic \in fields[o].subs
      /\ \A e \in d.writers : e.node = o => e.topic \in fields[o].pubs
  BY <1>2, <1>3
<1>5. /\ z \in Entities
      /\ z.readers = {e \in d.readers : e.node # o}
      /\ z.subscribers = d.subscribers \ {o}
      /\ z.writers = {e \in d.writers : ~(e.node = o /\ d.loans[<<o, e.topic>>] = 0)}
      /\ (\E e \in z.writers : e.node = o) => z.publishers = d.publishers
      /\ (\A e \in z.writers : e.node # o) => z.publishers = d.publishers \ {o}
      /\ z.topics = {p \in d.topics : p \in fields[o].topics =>
                        \E e \in z.writers \cup z.readers : e.node = p.node /\ e.topic = p.topic}
      /\ (o \in z.publishers \/ o \in z.subscribers \/ \E p \in z.topics : p.node = o)
            => z.participants = d.participants
      /\ (o \notin z.publishers /\ o \notin z.subscribers /\ \A p \in z.topics : p.node # o)
            => z.participants = d.participants \ {o}
      /\ z.loans = d.loans
  BY <1>3, <1>4, DestroyedEffect
<1> HIDE DEF z
<1>6. z.readers = dds.readers /\ z.writers = dds.writers /\ z.loans = dds.loans
  BY <1>2, <1>3, <1>5
<1>7. z.subscribers = dds.subscribers
  BY <1>2, <1>3, <1>5
<1>8. z.publishers = dds.publishers
  <2>1. z.publishers = d.publishers \ {o}
    BY <1>2, <1>5, <1>6
  <2> QED
    BY <1>2, <1>3, <2>1
<1>9. z.topics = dds.topics
  <2>1. \A p \in dds.topics : \E e \in z.writers \cup z.readers : e.node = p.node /\ e.topic = p.topic
    BY <1>6 DEF IInv, TopicsInUse
  <2> QED
    BY <1>3, <1>5, <2>1
<1>10. z.participants = dds.participants
  <2>1. o \notin z.publishers /\ o \notin z.subscribers /\ \A p \in z.topics : p.node # o
    BY <1>2, <1>7, <1>8, <1>9
  <2>2. z.participants = d.participants \ {o}
    BY <1>5, <2>1
  <2> QED
    BY <1>2, <1>3, <2>2
<1>11. z = dds
  BY <1>1, <1>5, <1>6, <1>7, <1>8, <1>9, <1>10, SameEntities
<1> QED
  BY <1>11 DEF d, z

\* A node that is made gets a participant, a publisher and a subscriber, and no more.
LEMMA CreateKeeps ==
    ASSUME IInv, NEW n \in Names, CreateNode(n)
    PROVE  IInv'
<1>1. PICK o \in Free :
        /\ nodes' = [nodes EXCEPT ![n] = o]
        /\ fields' = [fields EXCEPT ![o] = NoFields]
        /\ dds' = [dds EXCEPT !.participants = @ \cup {o}, !.publishers = @ \cup {o},
                              !.subscribers = @ \cup {o}]
  BY DEF CreateNode
<1>2. ~Found(n) /\ answer' = "ok" /\ UNCHANGED <<buffers, types>> /\ taken' = FALSE
  BY DEF CreateNode
<1>3. /\ o \in Objects /\ o \notin Live
      /\ \A e \in dds.topics \cup dds.writers \cup dds.readers : e.node # o
      /\ \A b \in buffers : b.node # o
  BY FreeIsEmpty
<1>4. /\ dds \in Entities /\ fields \in [Objects -> Fields]
      /\ nodes \in [Names -> Objects \cup {Null}]
  BY EntitiesTyped DEF IInv, TypeOK
<1>5. /\ dds'.participants = dds.participants \cup {o}
      /\ dds'.publishers = dds.publishers \cup {o}
      /\ dds'.subscribers = dds.subscribers \cup {o} /\ dds'.topics = dds.topics
      /\ dds'.writers = dds.writers /\ dds'.readers = dds.readers /\ dds'.loans = dds.loans
  BY <1>1, <1>4 DEF Entities
<1>6. TypeOK'
  BY <1>1, <1>2, <1>3 DEF IInv, TypeOK, NoFields
<1>7. Live' = Live \cup {o}
  BY <1>1, <1>2, <1>3, <1>4, ServiceAssumption DEF Live, Found
<1>8. NamesApart'
  BY <1>1, <1>2, <1>3, <1>4, ServiceAssumption DEF IInv, NamesApart, Live, Found
<1>9. Contained' /\ OneType' /\ TopicsInUse'
  BY <1>2, <1>5 DEF IInv, Contained, OneType, TopicsInUse
<1>10. OnLoan' = OnLoan
  BY <1>5 DEF OnLoan
<1>11. LoansHaveWriters'
  BY <1>5, <1>10 DEF IInv, LoansHaveWriters
<1>12. BuffersLive'
  BY <1>2, <1>7 DEF IInv, BuffersLive
<1>13. MapsMatchEntities'
  <2> SUFFICES ASSUME NEW p \in Live'
               PROVE  /\ p \in dds'.participants \cap dds'.publishers \cap dds'.subscribers
                      /\ fields'[p].topics = {q \in dds'.topics : q.node = p}
                      /\ fields'[p].pubs = TopicNamesOf(dds'.writers, p)
                      /\ fields'[p].subs = TopicNamesOf(dds'.readers, p)
                      /\ {b \in buffers' : b.node = p} = {e \in dds'.readers : e.node = p}
    BY DEF MapsMatchEntities
  <2>1. CASE p = o
    <3>1. fields'[p] = NoFields
      BY <1>1, <1>3, <1>4, <2>1
    <3> QED
      BY <1>2, <1>3, <1>5, <2>1, <3>1 DEF NoFields, TopicNamesOf
  <2>2. CASE p # o
    <3>1. p \in Live /\ fields'[p] = fields[p]
      BY <1>1, <1>3, <1>4, <1>7, <2>2, EntitiesTyped DEF IInv
    <3> QED
      BY <1>2, <1>5, <3>1 DEF IInv, MapsMatchEntities
  <2> QED
    BY <2>1, <2>2
<1>14. LeakOnlyWithLoan'
  BY <1>5, <1>7, <1>10 DEF IInv, LeakOnlyWithLoan
<1> QED
  BY <1>6, <1>8, <1>9, <1>11, <1>12, <1>13, <1>14 DEF IInv

\* A node that is deleted leaves the writers that have samples on loan, and what holds them.
LEMMA DeleteKeeps ==
    ASSUME IInv, NEW n \in Names, DeleteNode(n)
    PROVE  IInv'
<1> DEFINE o == nodes[n]
           z == dds'
<1>1. /\ Found(n) /\ dds' = Destroyed(dds, o)
      /\ buffers' = {b \in buffers : ~(b.node = o /\ b.topic \in fields[o].subs)}
      /\ fields' = [fields EXCEPT ![o] = NoFields]
      /\ nodes' = [nodes EXCEPT ![n] = Null] /\ answer' = "ok"
      /\ types' = {x \in types : x[1] \in dds'.participants} /\ taken' = FALSE
  BY DEF DeleteNode, Erased, TypesOf
<1>2. /\ dds \in Entities /\ fields \in [Objects -> Fields]
      /\ nodes \in [Names -> Objects \cup {Null}] /\ o \in Objects /\ o \in Live
  BY <1>1, EntitiesTyped DEF IInv, TypeOK
<1>3. /\ \A e \in dds.readers : e.node = o => e.topic \in fields[o].subs
      /\ \A e \in dds.writers : e.node = o => e.topic \in fields[o].pubs
      /\ \A q : q \in fields[o].topics <=> q \in dds.topics /\ q.node = o
      /\ \A b \in buffers : b.node = o => b \in dds.readers
  <2> HIDE DEF o
  <2> QED
    BY <1>2, MapsName DEF IInv
<1>4. /\ z \in Entities
      /\ z.readers = {e \in dds.readers : e.node # o}
      /\ z.subscribers = dds.subscribers \ {o}
      /\ z.writers = {e \in dds.writers : ~(e.node = o /\ dds.loans[<<o, e.topic>>] = 0)}
      /\ (\E e \in z.writers : e.node = o) => z.publishers = dds.publishers
      /\ (\A e \in z.writers : e.node # o) => z.publishers = dds.publishers \ {o}
      /\ z.topics = {p \in dds.topics : p \in fields[o].topics =>
                        \E e \in z.writers \cup z.readers : e.node = p.node /\ e.topic = p.topic}
      /\ (o \in z.publishers \/ o \in z.subscribers \/ \E p \in z.topics : p.node = o)
            => z.participants = dds.participants
      /\ (o \notin z.publishers /\ o \notin z.subscribers /\ \A p \in z.topics : p.node # o)
            => z.participants = dds.participants \ {o}
      /\ z.loans = dds.loans
  <2> HIDE DEF o, z
  <2>1. z = Destroyed(dds, o)
    BY <1>1 DEF z
  <2> QED
    BY <1>2, <1>3, <2>1, DestroyedEffect
<1> HIDE DEF o, z
<1>5. z.writers \subseteq dds.writers /\ z.readers \subseteq dds.readers
  BY <1>4
<1>6. z.topics = z.writers \cup z.readers
  <2>1. ASSUME NEW p \in z.topics
        PROVE  p \in z.writers \cup z.readers
    <3>1. p \in dds.topics /\ p \in dds.writers \cup dds.readers
      BY <1>4 DEF IInv, TopicsInUse
    <3>2. CASE p.node # o
      BY <1>4, <3>1, <3>2
    <3>3. CASE p.node = o
      <4>1. PICK e \in z.writers \cup z.readers : e.node = p.node /\ e.topic = p.topic
        BY <1>3, <1>4, <3>1, <3>3
      <4>2. e \in dds.topics
        BY <1>5, <4>1 DEF IInv, TopicsInUse
      <4>3. e = p
        BY <3>1, <4>1, <4>2 DEF IInv, OneType
      <4> QED
        BY <4>1, <4>3
    <3> QED
      BY <3>2, <3>3
  <2>2. ASSUME NEW e \in z.writers \cup z.readers
        PROVE  e \in z.topics
    <3>1. e \in dds.topics
      BY <1>5, <2>2 DEF IInv, TopicsInUse
    <3>2. \E f \in z.writers \cup z.readers : f.node = e.node /\ f.topic = e.topic
      BY <2>2
    <3> QED
      BY <1>4, <3>1, <3>2
  <2> QED
    BY <2>1, <2>2
<1>7. Live' = Live \ {o}
  BY <1>1, <1>2, ServiceAssumption DEF IInv, NamesApart, Live, Found, o
<1>8. TypeOK'
  <2>1. dds' \in Entities
    BY <1>4 DEF z
  <2>2. fields' \in [Objects -> Fields]
    BY <1>1, <1>2 DEF Fields, NoFields
  <2>3. nodes' \in [Names -> Objects \cup {Null}]
    BY <1>1, <1>2
  <2>4. buffers' \subseteq Topic /\ types' \subseteq Objects \X Types
    BY <1>1 DEF IInv, TypeOK
  <2> QED
    BY <1>1, <2>1, <2>2, <2>3, <2>4 DEF TypeOK, Entities, Fields
<1>9. NamesApart'
  BY <1>1, <1>2, ServiceAssumption DEF IInv, NamesApart, Found
<1>10. OneType'
  <2>1. z.topics \subseteq dds.topics
    BY <1>4
  <2> QED
    BY <2>1 DEF IInv, OneType, z
<1>12. Contained'
  <2>1. \A e \in z.writers : e.node \in z.publishers
    BY <1>4, <1>5 DEF IInv, Contained
  <2>2. \A e \in z.readers : e.node \in z.subscribers
    BY <1>4 DEF IInv, Contained
  <2>3. z.publishers \cup z.subscribers \subseteq z.participants
    <3>1. z.publishers \subseteq dds.publishers /\ z.subscribers \subseteq dds.subscribers
      BY <1>4
    <3>2. z.publishers \cup z.subscribers \subseteq dds.participants
      BY <3>1 DEF IInv, Contained
    <3>3. CASE o \in z.publishers \/ o \in z.subscribers \/ \E p \in z.topics : p.node = o
      <4>1. z.participants = dds.participants
        BY <1>4, <3>3
      <4> QED
        BY <3>2, <4>1
    <3>4. CASE o \notin z.publishers /\ o \notin z.subscribers /\ \A p \in z.topics : p.node # o
      <4>1. z.participants = dds.participants \ {o}
        BY <1>4, <3>4
      <4> QED
        BY <3>2, <3>4, <4>1
    <3> QED
      BY <3>3, <3>4
  <2>4. \A x \in types' : x[1] \in z.participants
    BY <1>1 DEF z
  <2> QED
    BY <2>1, <2>2, <2>3, <2>4 DEF Contained, z
<1>11. TopicsInUse'
  <2>1. ASSUME NEW p \in z.topics
        PROVE  <<p.node, p.type>> \in types'
    <3>1. p.node \in z.participants
      BY <1>6, <1>12 DEF Contained, z
    <3>2. <<p.node, p.type>> \in types
      BY <1>4 DEF IInv, TopicsInUse
    <3> QED
      BY <1>1, <3>1, <3>2 DEF z
  <2> QED
    BY <1>6, <2>1 DEF TopicsInUse, z
<1>13. OnLoan' = OnLoan
  BY <1>4 DEF OnLoan, z
<1>14. LoansHaveWriters'
  <2> SUFFICES ASSUME NEW w \in OnLoan
               PROVE  \E e \in z.writers : e.node = w[1] /\ e.topic = w[2]
    BY <1>13 DEF LoansHaveWriters, z
  <2>1. PICK e \in dds.writers : e.node = w[1] /\ e.topic = w[2]
    BY DEF IInv, LoansHaveWriters
  <2>2. w = <<e.node, e.topic>> /\ dds.loans[w] > 0
    BY <2>1 DEF OnLoan
  <2>3. e \in z.writers
    BY <1>4, <2>2
  <2> QED
    BY <2>1, <2>3
<1>15. BuffersLive'
  BY <1>1, <1>3, <1>7 DEF IInv, BuffersLive
<1>16. MapsMatchEntities'
  <2> SUFFICES ASSUME NEW p \in Live, p # o
               PROVE  /\ p \in z.participants \cap z.publishers \cap z.subscribers
                      /\ fields'[p].topics = {q \in z.topics : q.node = p}
                      /\ fields'[p].pubs = TopicNamesOf(z.writers, p)
                      /\ fields'[p].subs = TopicNamesOf(z.readers, p)
                      /\ {b \in buffers' : b.node = p} = {e \in z.readers : e.node = p}
    BY <1>7 DEF MapsMatchEntities, z
  <2>1. /\ p \in dds.participants /\ p \in dds.publishers /\ p \in dds.subscribers
        /\ fields[p].topics = {q \in dds.topics : q.node = p}
        /\ fields[p].pubs = TopicNamesOf(dds.writers, p)
        /\ fields[p].subs = TopicNamesOf(dds.readers, p)
        /\ {b \in buffers : b.node = p} = {e \in dds.readers : e.node = p}
    BY DEF IInv, MapsMatchEntities
  <2>2. fields'[p] = fields[p]
    BY <1>1, <1>2, EntitiesTyped DEF IInv
  <2>3. p \in z.publishers /\ p \in z.subscribers
    BY <1>4, <2>1
  <2>4. {b \in buffers' : b.node = p} = {b \in buffers : b.node = p}
    BY <1>1
  <2>5. /\ {q \in z.readers : q.node = p} = {q \in dds.readers : q.node = p}
        /\ {q \in z.writers : q.node = p} = {q \in dds.writers : q.node = p}
    BY <1>4
  <2>6. {q \in z.topics : q.node = p} = {q \in dds.topics : q.node = p}
    BY <1>3, <1>4
  <2>7. p \in z.participants
    BY <1>12, <2>3 DEF Contained, z
  <2>8. /\ fields'[p].pubs = TopicNamesOf(z.writers, p)
        /\ fields'[p].subs = TopicNamesOf(z.readers, p)
    BY <2>1, <2>2, <2>5 DEF TopicNamesOf
  <2> QED
    BY <2>1, <2>2, <2>3, <2>4, <2>5, <2>6, <2>7, <2>8
<1>17. LeakOnlyWithLoan'
  <2>1. ASSUME NEW p \in Objects, p \notin Live, p # o
        PROVE  /\ p \in z.participants \cup z.publishers => \E w \in OnLoan : w[1] = p
               /\ \A e \in z.topics \cup z.writers : e.node = p => <<p, e.topic>> \in OnLoan
               /\ p \notin z.subscribers /\ \A e \in z.readers : e.node # p
    <3>1. /\ p \in dds.participants \cup dds.publishers => \E w \in OnLoan : w[1] = p
          /\ \A e \in dds.topics \cup dds.writers : e.node = p => <<p, e.topic>> \in OnLoan
          /\ p \notin dds.subscribers /\ \A e \in dds.readers : e.node # p
      BY <2>1 DEF IInv, LeakOnlyWithLoan
    <3>2. z.participants \subseteq dds.participants /\ z.publishers \subseteq dds.publishers
      BY <1>4
    <3> QED
      BY <1>4, <3>1, <3>2
  <2>2. /\ o \notin z.subscribers /\ \A e \in z.readers : e.node # o
        /\ \A e \in z.topics \cup z.writers : e.node = o => <<o, e.topic>> \in OnLoan
    <3>1. o \notin z.subscribers /\ \A e \in z.readers : e.node # o
      BY <1>4
    <3>2. ASSUME NEW e \in z.topics \cup z.writers, e.node = o
          PROVE  <<o, e.topic>> \in OnLoan
      <4>1. e \in z.writers
        BY <1>6, <3>1, <3>2
      <4>2. e \in dds.writers /\ dds.loans[<<o, e.topic>>] # 0
        BY <1>4, <3>2, <4>1
      <4>3. <<o, e.topic>> \in Objects \X TopicNames
        BY <1>2, <4>2 DEF Entities, Topic
      <4>4. dds.loans[<<o, e.topic>>] \in Nat
        BY <1>2, <4>3, ServiceAssumption DEF Entities
      <4> QED
        BY <4>2, <4>3, <4>4 DEF OnLoan
    <3> QED
      BY <3>1, <3>2
  <2>3. o \in z.participants \cup z.publishers => \E w \in OnLoan : w[1] = o
    <3>1. CASE \E e \in z.writers : e.node = o
      <4>1. PICK e \in z.writers : e.node = o
        BY <3>1
      <4>2. <<o, e.topic>> \in OnLoan /\ <<o, e.topic>>[1] = o
        BY <2>2, <4>1
      <4> QED
        BY <4>2
    <3>2. CASE \A e \in z.writers : e.node # o
      <4>1. o \notin z.publishers
        BY <1>4, <3>2
      <4>2. \A p \in z.topics : p.node # o
        BY <1>6, <2>2, <3>2
      <4>3. z.participants = dds.participants \ {o}
        BY <1>4, <2>2, <4>1, <4>2
      <4> QED
        BY <4>1, <4>3
    <3> QED
      BY <3>1, <3>2
  <2> QED
    BY <1>7, <1>13, <2>1, <2>2, <2>3 DEF LeakOnlyWithLoan, z
<1> QED
  BY <1>8, <1>9, <1>10, <1>11, <1>12, <1>14, <1>15, <1>16, <1>17 DEF IInv

\* A registration that fails takes back exactly what it made.
LEMMA RollBackSame ==
    ASSUME IInv, NEW o \in Live, NEW t \in TopicNames, NEW ty \in Types,
           Reusable(Entity(o, t, ty))
    PROVE  LET p == Entity(o, t, ty) IN
           /\ RolledBack([dds EXCEPT !.topics = @ \cup {p}], p) = dds
           /\ TopicsRolledBack(p) = fields[o].topics
<1> DEFINE p == Entity(o, t, ty)
           d == [dds EXCEPT !.topics = @ \cup {p}]
<1>1. /\ dds \in Entities /\ fields \in [Objects -> Fields] /\ o \in Objects
      /\ \A q : q \in fields[o].topics <=> q \in dds.topics /\ q.node = o
  BY EntitiesTyped, MapsName DEF IInv
<1>2. p \in Topic /\ p.node = o /\ p.topic = t /\ p.type = ty
  BY <1>1 DEF Entity, Topic
<1>3. \A q \in fields[o].topics : q \in Topic
  BY <1>1, EntitiesTyped DEF IInv
<1>4. /\ d \in Entities /\ d.topics = dds.topics \cup {p}
      /\ d.participants = dds.participants /\ d.publishers = dds.publishers
      /\ d.subscribers = dds.subscribers /\ d.writers = dds.writers
      /\ d.readers = dds.readers /\ d.loans = dds.loans
  BY <1>1, <1>2 DEF Entities
<1> HIDE DEF d
<1>5. CASE TopicExisted(p)
  <2>1. PICK q \in fields[o].topics : q.topic = t
    BY <1>2, <1>5 DEF TopicExisted
  <2>2. q.type = ty
    BY <1>2, <2>1 DEF Reusable
  <2>3. q = p
    BY <1>1, <1>2, <1>3, <2>1, <2>2 DEF Topic
  <2>4. p \in fields[o].topics /\ p \in dds.topics
    BY <1>1, <2>3
  <2>5. d = dds
    <3>1. d.topics = dds.topics
      BY <1>4, <2>4
    <3> QED
      BY <1>1, <1>4, <3>1, SameEntities
  <2>6. RolledBack(d, p) = d
    BY <1>5 DEF RolledBack
  <2>7. TopicsRolledBack(p) = fields[o].topics
    BY <1>2, <1>5, <2>4 DEF TopicsRolledBack
  <2> QED
    BY <2>5, <2>6, <2>7 DEF d
<1>6. CASE ~TopicExisted(p)
  <2>1. \A q \in dds.topics : ~(q.node = o /\ q.topic = t)
    BY <1>1, <1>2, <1>6 DEF TopicExisted
  <2>2. p \notin dds.topics /\ p \notin fields[o].topics
    BY <1>1, <1>2, <2>1
  <2>3. \A e \in dds.writers \cup dds.readers : ~(e.node = p.node /\ e.topic = p.topic)
    BY <1>2, <2>1 DEF IInv, TopicsInUse
  <2> DEFINE z == DeleteTopics(d, {p})
  <2>4. /\ z \in Entities
        /\ z.topics = {q \in d.topics : q \in {p} => \E e \in d.writers \cup d.readers :
                                                         e.node = q.node /\ e.topic = q.topic}
        /\ z.participants = d.participants /\ z.publishers = d.publishers
        /\ z.subscribers = d.subscribers /\ z.writers = d.writers /\ z.readers = d.readers
        /\ z.loans = d.loans
    BY <1>4, TopicsDeleted
  <2> HIDE DEF z
  <2>5. z.topics = dds.topics
    BY <1>4, <2>2, <2>3, <2>4
  <2>6. z = dds
    BY <1>1, <1>4, <2>4, <2>5, SameEntities
  <2>7. RolledBack(d, p) = z
    BY <1>6 DEF RolledBack, z
  <2>8. TopicsRolledBack(p) = fields[o].topics
    BY <1>2, <1>6, <2>2 DEF TopicsRolledBack
  <2> QED
    BY <2>6, <2>7, <2>8 DEF d
<1> QED
  BY <1>5, <1>6

\* A publication that is registered has a topic of its type and a writer on it.
LEMMA PublisherRegistered ==
    ASSUME IInv, NEW n \in Names, NEW t \in TopicNames, NEW ty \in Types,
           RegisterPubTopic(n, t, ty)
    PROVE  \/ IInv' /\ answer' = "ok"
           \/ OnlyType /\ answer' = "no"
<1> DEFINE o == nodes[n]
           p == Entity(o, t, ty)
<1>1. Found(n) /\ t \notin fields[o].pubs /\ Reusable(p) /\ UNCHANGED <<nodes, buffers>>
      /\ types' = types \cup {<<o, ty>>} /\ taken' = TRUE
  BY DEF RegisterPubTopic, Registered
<1>2. /\ dds \in Entities /\ fields \in [Objects -> Fields] /\ o \in Objects /\ o \in Live
      /\ \A q : q \in fields[o].topics <=> q \in dds.topics /\ q.node = o
  BY <1>1, EntitiesTyped, MapsName DEF IInv
<1>3. p \in Topic /\ p.node = o /\ p.topic = t /\ p.type = ty
  BY <1>2 DEF Entity, Topic
<1>4. CASE /\ dds' = [dds EXCEPT !.topics = @ \cup {p}, !.writers = @ \cup {p}]
           /\ fields' = [fields EXCEPT ![o].topics = @ \cup {p}, ![o].pubs = @ \cup {t}]
           /\ answer' = "ok"
  <2> HIDE DEF o, p
  <2>1. /\ dds' \in Entities /\ dds'.topics = dds.topics \cup {p}
        /\ dds'.writers = dds.writers \cup {p} /\ dds'.participants = dds.participants
        /\ dds'.publishers = dds.publishers /\ dds'.subscribers = dds.subscribers
        /\ dds'.readers = dds.readers /\ dds'.loans = dds.loans
    BY <1>2, <1>3, <1>4 DEF Entities
  <2>2. /\ fields' \in [Objects -> Fields]
        /\ fields'[o].topics = fields[o].topics \cup {p}
        /\ fields'[o].pubs = fields[o].pubs \cup {t} /\ fields'[o].subs = fields[o].subs
        /\ \A x \in Objects : x # o => fields'[x] = fields[x]
    <3> DEFINE F == [fields[o] EXCEPT !.topics = @ \cup {p}, !.pubs = @ \cup {t}]
    <3>1. F \in Fields /\ F.topics = fields[o].topics \cup {p}
          /\ F.pubs = fields[o].pubs \cup {t} /\ F.subs = fields[o].subs
      BY <1>2, <1>3 DEF Fields
    <3>2. fields' = [fields EXCEPT ![o] = F]
      BY <1>2, <1>4 DEF Fields
    <3> HIDE DEF F
    <3> QED
      BY <1>2, <3>1, <3>2
  <2>3. Live' = Live /\ OnLoan' = OnLoan
    BY <1>1, <2>1 DEF Live, OnLoan
  <2>4. TypeOK'
    BY <1>1, <1>2, <1>4, <2>1, <2>2 DEF IInv, TypeOK, Entities, Fields
  <2>5. NamesApart' /\ BuffersLive'
    BY <1>1, <2>3 DEF IInv, NamesApart, BuffersLive, Found
  <2>6. o \in dds.publishers /\ o \in dds.participants
    BY <1>2 DEF IInv, MapsMatchEntities
  <2>7. Contained' /\ TopicsInUse' /\ LoansHaveWriters'
    BY <1>1, <1>3, <2>1, <2>3, <2>6 DEF IInv, Contained, TopicsInUse, LoansHaveWriters
  <2>8. OneType'
    <3>1. ASSUME NEW q \in dds.topics, q.node = o, q.topic = t
          PROVE  q = p
      <4>1. q \in fields[o].topics /\ q \in Topic
        BY <1>2, <3>1, EntitiesTyped DEF IInv
      <4>2. q.type = ty
        BY <1>1, <1>3, <3>1, <4>1 DEF Reusable
      <4> QED
        BY <1>3, <3>1, <4>1, <4>2 DEF Topic
    <3> QED
      BY <1>3, <2>1, <3>1 DEF IInv, OneType
  <2>9. MapsMatchEntities'
    <3> SUFFICES ASSUME NEW x \in Live
                 PROVE  /\ x \in dds'.participants \cap dds'.publishers \cap dds'.subscribers
                        /\ fields'[x].topics = {q \in dds'.topics : q.node = x}
                        /\ fields'[x].pubs = TopicNamesOf(dds'.writers, x)
                        /\ fields'[x].subs = TopicNamesOf(dds'.readers, x)
                        /\ {b \in buffers' : b.node = x} = {e \in dds'.readers : e.node = x}
      BY <2>3 DEF MapsMatchEntities
    <3>1. /\ x \in dds.participants \cap dds.publishers \cap dds.subscribers
          /\ fields[x].topics = {q \in dds.topics : q.node = x}
          /\ fields[x].pubs = TopicNamesOf(dds.writers, x)
          /\ fields[x].subs = TopicNamesOf(dds.readers, x)
          /\ {b \in buffers : b.node = x} = {e \in dds.readers : e.node = x}
      BY DEF IInv, MapsMatchEntities
    <3>2. CASE x = o
      <4>1. fields'[x].topics = {q \in dds'.topics : q.node = x}
        BY <1>3, <2>1, <2>2, <3>1, <3>2
      <4>2. fields'[x].pubs = TopicNamesOf(dds'.writers, x)
        <5>1. TopicNamesOf(dds'.writers, o) = TopicNamesOf(dds.writers, o) \cup {t}
          BY <1>3, <2>1 DEF TopicNamesOf
        <5> QED
          BY <2>2, <3>1, <3>2, <5>1
      <4> QED
        BY <1>1, <2>1, <2>2, <3>1, <3>2, <4>1, <4>2
    <3>3. CASE x # o
      <4>1. fields'[x] = fields[x]
        BY <2>2, <3>3, EntitiesTyped DEF IInv
      <4>2. /\ {q \in dds'.topics : q.node = x} = {q \in dds.topics : q.node = x}
            /\ {q \in dds'.writers : q.node = x} = {q \in dds.writers : q.node = x}
        BY <1>3, <2>1, <3>3
      <4>3. TopicNamesOf(dds'.writers, x) = TopicNamesOf(dds.writers, x)
        BY <4>2 DEF TopicNamesOf
      <4> QED
        BY <1>1, <2>1, <3>1, <4>1, <4>2, <4>3
    <3> QED
      BY <3>2, <3>3
  <2>10. LeakOnlyWithLoan'
    BY <1>2, <1>3, <2>1, <2>3 DEF IInv, LeakOnlyWithLoan
  <2> QED
    BY <1>4, <2>4, <2>5, <2>7, <2>8, <2>9, <2>10 DEF IInv
<1>5. CASE /\ dds' = RolledBack([dds EXCEPT !.topics = @ \cup {p}], p)
           /\ fields' = [fields EXCEPT ![o].topics = TopicsRolledBack(p)]
           /\ answer' = "no"
  <2>1. dds' = dds /\ TopicsRolledBack(p) = fields[o].topics
    BY <1>1, <1>2, <1>5, RollBackSame
  <2>2. fields' = fields
    BY <1>2, <1>5, <2>1 DEF Fields
  <2> QED
    BY <1>1, <1>2, <1>5, <2>1, <2>2 DEF OnlyType, Registered
<1>6. \/ /\ dds' = [[dds EXCEPT !.topics = @ \cup {p}] EXCEPT !.writers = @ \cup {p}]
         /\ fields' = [fields EXCEPT ![o].topics = @ \cup {p}, ![o].pubs = @ \cup {t}]
         /\ answer' = "ok"
      \/ /\ dds' = RolledBack([dds EXCEPT !.topics = @ \cup {p}], p)
         /\ fields' = [fields EXCEPT ![o].topics = TopicsRolledBack(p)]
         /\ answer' = "no"
  BY DEF RegisterPubTopic
<1>7. [[dds EXCEPT !.topics = @ \cup {p}] EXCEPT !.writers = @ \cup {p}]
        = [dds EXCEPT !.topics = @ \cup {p}, !.writers = @ \cup {p}]
  BY <1>2 DEF Entities
<1> QED
  BY <1>4, <1>5, <1>6, <1>7

\* A subscription that is registered has a topic of its type, a reader on it and its buffer.
LEMMA SubscriberRegistered ==
    ASSUME IInv, NEW n \in Names, NEW t \in TopicNames, NEW ty \in Types,
           RegisterSubTopic(n, t, ty)
    PROVE  \/ IInv' /\ answer' = "ok"
           \/ OnlyType /\ answer' = "no"
<1> DEFINE o == nodes[n]
           p == Entity(o, t, ty)
<1>1. Found(n) /\ t \notin fields[o].subs /\ Reusable(p) /\ nodes' = nodes
      /\ types' = types \cup {<<o, ty>>} /\ taken' = TRUE
  BY DEF RegisterSubTopic, Registered
<1>2. /\ dds \in Entities /\ fields \in [Objects -> Fields] /\ o \in Objects /\ o \in Live
      /\ \A q : q \in fields[o].topics <=> q \in dds.topics /\ q.node = o
  BY <1>1, EntitiesTyped, MapsName DEF IInv
<1>3. p \in Topic /\ p.node = o /\ p.topic = t /\ p.type = ty
  BY <1>2 DEF Entity, Topic
<1>4. CASE /\ dds' = [dds EXCEPT !.topics = @ \cup {p}, !.readers = @ \cup {p}]
           /\ fields' = [fields EXCEPT ![o].topics = @ \cup {p}, ![o].subs = @ \cup {t}]
           /\ buffers' = buffers \cup {p} /\ answer' = "ok"
  <2> HIDE DEF o, p
  <2>1. /\ dds' \in Entities /\ dds'.topics = dds.topics \cup {p}
        /\ dds'.readers = dds.readers \cup {p} /\ dds'.participants = dds.participants
        /\ dds'.publishers = dds.publishers /\ dds'.subscribers = dds.subscribers
        /\ dds'.writers = dds.writers /\ dds'.loans = dds.loans
    BY <1>2, <1>3, <1>4 DEF Entities
  <2>2. /\ fields' \in [Objects -> Fields]
        /\ fields'[o].topics = fields[o].topics \cup {p}
        /\ fields'[o].subs = fields[o].subs \cup {t} /\ fields'[o].pubs = fields[o].pubs
        /\ \A x \in Objects : x # o => fields'[x] = fields[x]
    <3> DEFINE F == [fields[o] EXCEPT !.topics = @ \cup {p}, !.subs = @ \cup {t}]
    <3>1. F \in Fields /\ F.topics = fields[o].topics \cup {p}
          /\ F.subs = fields[o].subs \cup {t} /\ F.pubs = fields[o].pubs
      BY <1>2, <1>3 DEF Fields
    <3>2. fields' = [fields EXCEPT ![o] = F]
      BY <1>2, <1>4 DEF Fields
    <3> HIDE DEF F
    <3> QED
      BY <1>2, <3>1, <3>2
  <2>3. Live' = Live /\ OnLoan' = OnLoan
    BY <1>1, <2>1 DEF Live, OnLoan
  <2>4. TypeOK'
    BY <1>1, <1>2, <1>3, <1>4, <2>1, <2>2 DEF IInv, TypeOK, Entities, Fields
  <2>5. NamesApart' /\ BuffersLive'
    BY <1>1, <1>2, <1>3, <1>4, <2>3 DEF IInv, NamesApart, BuffersLive, Found
  <2>6. o \in dds.subscribers /\ o \in dds.participants
    BY <1>2 DEF IInv, MapsMatchEntities
  <2>7. Contained' /\ TopicsInUse' /\ LoansHaveWriters'
    BY <1>1, <1>3, <2>1, <2>3, <2>6 DEF IInv, Contained, TopicsInUse, LoansHaveWriters
  <2>8. OneType'
    <3>1. ASSUME NEW q \in dds.topics, q.node = o, q.topic = t
          PROVE  q = p
      <4>1. q \in fields[o].topics /\ q \in Topic
        BY <1>2, <3>1, EntitiesTyped DEF IInv
      <4>2. q.type = ty
        BY <1>1, <1>3, <3>1, <4>1 DEF Reusable
      <4> QED
        BY <1>3, <3>1, <4>1, <4>2 DEF Topic
    <3> QED
      BY <1>3, <2>1, <3>1 DEF IInv, OneType
  <2>9. MapsMatchEntities'
    <3> SUFFICES ASSUME NEW x \in Live
                 PROVE  /\ x \in dds'.participants \cap dds'.publishers \cap dds'.subscribers
                        /\ fields'[x].topics = {q \in dds'.topics : q.node = x}
                        /\ fields'[x].pubs = TopicNamesOf(dds'.writers, x)
                        /\ fields'[x].subs = TopicNamesOf(dds'.readers, x)
                        /\ {b \in buffers' : b.node = x} = {e \in dds'.readers : e.node = x}
      BY <2>3 DEF MapsMatchEntities
    <3>1. /\ x \in dds.participants \cap dds.publishers \cap dds.subscribers
          /\ fields[x].topics = {q \in dds.topics : q.node = x}
          /\ fields[x].pubs = TopicNamesOf(dds.writers, x)
          /\ fields[x].subs = TopicNamesOf(dds.readers, x)
          /\ {b \in buffers : b.node = x} = {e \in dds.readers : e.node = x}
      BY DEF IInv, MapsMatchEntities
    <3>2. CASE x = o
      <4>1. fields'[x].topics = {q \in dds'.topics : q.node = x}
        BY <1>3, <2>1, <2>2, <3>1, <3>2
      <4>2. fields'[x].subs = TopicNamesOf(dds'.readers, x)
        <5>1. TopicNamesOf(dds'.readers, o) = TopicNamesOf(dds.readers, o) \cup {t}
          BY <1>3, <2>1 DEF TopicNamesOf
        <5> QED
          BY <2>2, <3>1, <3>2, <5>1
      <4>3. {b \in buffers' : b.node = x} = {e \in dds'.readers : e.node = x}
        <5>1. /\ {b \in buffers' : b.node = o} = {b \in buffers : b.node = o} \cup {p}
              /\ {e \in dds'.readers : e.node = o} = {e \in dds.readers : e.node = o} \cup {p}
          BY <1>3, <1>4, <2>1
        <5> QED
          BY <3>1, <3>2, <5>1
      <4> QED
        BY <2>1, <2>2, <3>1, <3>2, <4>1, <4>2, <4>3
    <3>3. CASE x # o
      <4>1. fields'[x] = fields[x]
        BY <2>2, <3>3, EntitiesTyped DEF IInv
      <4>2. /\ {q \in dds'.topics : q.node = x} = {q \in dds.topics : q.node = x}
            /\ {q \in dds'.readers : q.node = x} = {q \in dds.readers : q.node = x}
        BY <1>3, <2>1, <3>3
      <4>3. TopicNamesOf(dds'.readers, x) = TopicNamesOf(dds.readers, x)
        BY <4>2 DEF TopicNamesOf
      <4>4. {b \in buffers' : b.node = x} = {b \in buffers : b.node = x}
        BY <1>3, <1>4, <3>3
      <4> QED
        BY <2>1, <3>1, <4>1, <4>2, <4>3, <4>4
    <3> QED
      BY <3>2, <3>3
  <2>10. LeakOnlyWithLoan'
    BY <1>2, <1>3, <2>1, <2>3 DEF IInv, LeakOnlyWithLoan
  <2> QED
    BY <1>4, <2>4, <2>5, <2>7, <2>8, <2>9, <2>10 DEF IInv
<1>5. CASE /\ dds' = RolledBack([dds EXCEPT !.topics = @ \cup {p}], p)
           /\ fields' = [fields EXCEPT ![o].topics = TopicsRolledBack(p)]
           /\ buffers' = BufferDeleted(p) /\ answer' = "no"
  <2>1. dds' = dds /\ TopicsRolledBack(p) = fields[o].topics
    BY <1>1, <1>2, <1>5, RollBackSame
  <2>2. fields' = fields
    BY <1>2, <1>5, <2>1 DEF Fields
  <2>3. p \notin buffers
    <3>1. ASSUME p \in buffers
          PROVE  t \in fields[o].subs
      BY <1>2, <1>3, <3>1, MapsName DEF IInv
    <3> QED
      BY <1>1, <3>1
  <2>4. buffers' = buffers
    BY <1>5, <2>3 DEF BufferDeleted
  <2> QED
    BY <1>1, <1>2, <1>5, <2>1, <2>2, <2>4 DEF OnlyType, Registered
<1>6. \/ /\ dds' = [[dds EXCEPT !.topics = @ \cup {p}] EXCEPT !.readers = @ \cup {p}]
         /\ fields' = [fields EXCEPT ![o].topics = @ \cup {p}, ![o].subs = @ \cup {t}]
         /\ buffers' = buffers \cup {p} /\ answer' = "ok"
      \/ /\ dds' = RolledBack([dds EXCEPT !.topics = @ \cup {p}], p)
         /\ fields' = [fields EXCEPT ![o].topics = TopicsRolledBack(p)]
         /\ buffers' = BufferDeleted(p) /\ answer' = "no"
  BY DEF RegisterSubTopic
<1>7. [[dds EXCEPT !.topics = @ \cup {p}] EXCEPT !.readers = @ \cup {p}]
        = [dds EXCEPT !.topics = @ \cup {p}, !.readers = @ \cup {p}]
  BY <1>2 DEF Entities
<1> QED
  BY <1>4, <1>5, <1>6, <1>7

\* A sample that is loaned or given back changes the writer's count, and that within bounds.
LEMMA LoansKeep ==
    ASSUME IInv, NEW n \in Names, NEW t \in TopicNames, Loan(n, t) \/ ReturnSample(n, t)
    PROVE  IInv'
<1> DEFINE w == <<nodes[n], t>>
<1>1. /\ Publishes(n, t) /\ answer' = "ok" /\ UNCHANGED <<nodes, fields, buffers, types>>
      /\ taken' = FALSE
      /\ Found(n) /\ t \in fields[nodes[n]].pubs
  BY DEF Loan, ReturnSample, Publishes
<1>2. dds \in Entities /\ nodes[n] \in Objects /\ nodes[n] \in Live
  BY <1>1, EntitiesTyped DEF IInv
<1>3. w \in Objects \X TopicNames /\ w[1] = nodes[n] /\ w[2] = t
  BY <1>2
<1>4. dds.loans \in [Objects \X TopicNames -> 0..PoolSize] /\ dds.loans[w] \in 0..PoolSize
  BY <1>2, <1>3 DEF Entities
<1> HIDE DEF w
<1>5. PICK k \in 0..PoolSize : dds' = [dds EXCEPT !.loans[w] = k]
  <2>1. CASE Loan(n, t)
    <3>1. dds.loans[w] < PoolSize /\ dds' = [dds EXCEPT !.loans[w] = @ + 1]
      BY <2>1 DEF Loan, w
    <3>2. dds.loans[w] + 1 \in 0..PoolSize
      BY <1>4, <3>1, ServiceAssumption
    <3> QED
      BY <3>1, <3>2
  <2>2. CASE ReturnSample(n, t)
    <3>1. w \in OnLoan /\ dds' = [dds EXCEPT !.loans[w] = @ - 1]
      BY <2>2 DEF ReturnSample, w
    <3>2. dds.loans[w] - 1 \in 0..PoolSize
      BY <1>4, <3>1, ServiceAssumption DEF OnLoan
    <3> QED
      BY <3>1, <3>2
  <2> QED
    BY <2>1, <2>2
<1>6. /\ dds' \in Entities /\ dds'.topics = dds.topics
      /\ dds'.writers = dds.writers /\ dds'.participants = dds.participants
      /\ dds'.publishers = dds.publishers /\ dds'.subscribers = dds.subscribers
      /\ dds'.readers = dds.readers
      /\ \A v \in Objects \X TopicNames : v # w => dds'.loans[v] = dds.loans[v]
  BY <1>2, <1>3, <1>4, <1>5 DEF Entities
<1>7. Live' = Live /\ \A v : v # w => (v \in OnLoan' <=> v \in OnLoan)
  BY <1>1, <1>6 DEF Live, OnLoan
<1>8. TypeOK'
  BY <1>1, <1>6 DEF IInv, TypeOK, Entities
<1>9. NamesApart' /\ BuffersLive' /\ Contained' /\ OneType' /\ TopicsInUse'
  BY <1>1, <1>6, <1>7
     DEF IInv, NamesApart, BuffersLive, Found, Contained, OneType, TopicsInUse
<1>10. LoansHaveWriters'
  <2>1. \E e \in dds.writers : e.node = nodes[n] /\ e.topic = t
    BY <1>1, <1>2, MapsName DEF IInv
  <2> QED
    BY <1>3, <1>6, <1>7, <2>1 DEF IInv, LoansHaveWriters
<1>11. MapsMatchEntities'
  BY <1>1, <1>6, <1>7 DEF IInv, MapsMatchEntities, TopicNamesOf
<1>12. LeakOnlyWithLoan'
  <2> SUFFICES ASSUME NEW o \in Objects \ Live
               PROVE  /\ o \in dds.participants \cup dds.publishers => \E v \in OnLoan' : v[1] = o
                      /\ \A e \in dds.topics \cup dds.writers : e.node = o => <<o, e.topic>> \in OnLoan'
                      /\ o \notin dds.subscribers /\ \A e \in dds.readers : e.node # o
    BY <1>6, <1>7 DEF LeakOnlyWithLoan
  <2>1. /\ o \in dds.participants \cup dds.publishers => \E v \in OnLoan : v[1] = o
        /\ \A e \in dds.topics \cup dds.writers : e.node = o => <<o, e.topic>> \in OnLoan
        /\ o \notin dds.subscribers /\ \A e \in dds.readers : e.node # o
    BY DEF IInv, LeakOnlyWithLoan
  <2>2. o # nodes[n]
    BY <1>2
  <2>3. ASSUME NEW v \in OnLoan, v[1] = o
        PROVE  v \in OnLoan'
    BY <1>3, <1>7, <2>2, <2>3
  <2> QED
    BY <2>1, <2>3
<1> QED
  BY <1>8, <1>9, <1>10, <1>11, <1>12 DEF IInv
-----------------------------------------------------------------------------
(* The theorems.                                                            *)

\* The invariant holds at the start.
LEMMA InitHolds == Init => IInv
<1> SUFFICES ASSUME Init PROVE IInv
  OBVIOUS
<1>1. Live = {}
  BY DEF Init, Live
<1>2. OnLoan = {}
  <2>1. ASSUME NEW w \in Objects \X TopicNames
        PROVE  dds.loans[w] = 0
    BY DEF Init, NoEntities
  <2> QED
    BY <2>1 DEF OnLoan
<1>3. TypeOK
  <2>1. dds \in Entities
    BY ServiceAssumption DEF Init, NoEntities, Entities
  <2>2. fields \in [Objects -> Fields]
    BY DEF Init, NoFields, Fields
  <2> QED
    BY <2>1, <2>2 DEF Init, TypeOK, Entities, Fields
<1>4. NamesApart /\ Contained /\ OneType /\ BuffersLive /\ TopicsInUse
  BY DEF Init, NoEntities, NamesApart, Found, Contained, OneType, BuffersLive, TopicsInUse
<1>5. LoansHaveWriters /\ MapsMatchEntities /\ LeakOnlyWithLoan
  BY <1>1, <1>2 DEF Init, NoEntities, LoansHaveWriters, MapsMatchEntities, LeakOnlyWithLoan
<1> QED
  BY <1>3, <1>4, <1>5 DEF IInv

\* What a step does: it keeps the invariant, and if it answers eNo it leaves at most a type.
LEMMA StepHolds ==
    ASSUME IInv, [Next]_vars
    PROVE  /\ IInv'
           /\ vars' # vars /\ answer' = "no" => OnlyType
<1>1. CASE UNCHANGED vars
  <2>1. OnlyType /\ answer' \in {"none", "ok", "no"}
    BY <1>1 DEF vars, IInv, TypeOK, OnlyType
  <2> QED
    BY <1>1, <2>1, NoEffect
<1>2. ASSUME OnlyType, answer' = "no" \/ answer' = "ok"
      PROVE  IInv'
  BY <1>2, NoEffect
<1>3. ASSUME NEW n \in Names, CreateNode(n)
      PROVE  IInv' /\ answer' = "ok"
  BY <1>3, CreateKeeps DEF CreateNode
<1>4. ASSUME NEW n \in Names, CreateNodeFails(n)
      PROVE  OnlyType /\ answer' = "no"
  <2>1. UNCHANGED <<nodes, fields, buffers, dds>>
    BY <1>4, CreateFailsSame
  <2> QED
    BY <1>4, <2>1 DEF CreateNodeFails, OnlyType
<1>5. ASSUME NEW n \in Names, DeleteNode(n)
      PROVE  IInv' /\ answer' = "ok"
  BY <1>5, DeleteKeeps DEF DeleteNode
<1>6. ASSUME NEW n \in Names, NEW t \in TopicNames, NEW ty \in Types,
             RegisterPubTopic(n, t, ty) \/ RegisterSubTopic(n, t, ty)
      PROVE  \/ IInv' /\ answer' = "ok"
             \/ OnlyType /\ answer' = "no"
  BY <1>6, PublisherRegistered, SubscriberRegistered
<1>7. ASSUME NEW n \in Names, NEW t \in TopicNames, Loan(n, t) \/ ReturnSample(n, t)
      PROVE  IInv' /\ answer' = "ok"
  BY <1>7, LoansKeep DEF Loan, ReturnSample
<1>8. ASSUME NEW n \in Names, NEW t \in TopicNames, PublishCopy(n, t)
      PROVE  OnlyType /\ answer' = "ok"
  BY <1>8 DEF PublishCopy, OnlyType
<1>9. ASSUME \/ \E n \in Names : DeleteNodeFails(n)
             \/ \E n \in Names, t \in TopicNames : RegisterRefused(n, t)
             \/ UseFails
      PROVE  OnlyType /\ answer' = "no"
  BY <1>9 DEF DeleteNodeFails, RegisterRefused, UseFails, Refused, OnlyType
<1>10. ASSUME NEW n \in Names, NEW t \in TopicNames, NEW ty \in Types, TopicRefused(n, t, ty)
       PROVE  OnlyType /\ answer' = "no"
  <2>1. nodes[n] \in Live
    BY <1>10, EntitiesTyped DEF IInv, TopicRefused
  <2> QED
    BY <1>10, <2>1 DEF TopicRefused, OnlyType
<1> QED
  BY <1>1, <1>2, <1>3, <1>4, <1>5, <1>6, <1>7, <1>8, <1>9, <1>10 DEF Next

\* The inductive invariant holds in every state.
THEOREM Inductive == Spec => []IInv
<1>1. Init => IInv
  BY InitHolds
<1>2. IInv /\ [Next]_vars => IInv'
  BY StepHolds
<1> QED
  BY <1>1, <1>2, PTL DEF Spec

\* Every variable has its type, and a name in nodes_ has an object.
THEOREM TypesHold == Spec => []TypeOK
<1>1. IInv => TypeOK
  BY DEF IInv
<1> QED
  BY <1>1, Inductive, PTL

\* The maps of every node say exactly what exists in Fast DDS, whichever calls failed.
THEOREM MapsMatch == Spec => []MapsMatchEntities
<1>1. IInv => MapsMatchEntities
  BY DEF IInv
<1> QED
  BY <1>1, Inductive, PTL

\* A topic exists exactly as long as an endpoint of its type does, and its participant knows
\* the type.
THEOREM TopicsUsed == Spec => []TopicsInUse
<1>1. IInv => TopicsInUse
  BY DEF IInv
<1> QED
  BY <1>1, Inductive, PTL

\* A node that was deleted leaves behind only what a sample on loan holds.
THEOREM LeaksHaveLoans == Spec => []LeakOnlyWithLoan
<1>1. IInv => LeakOnlyWithLoan
  BY DEF IInv
<1> QED
  BY <1>1, Inductive, PTL

\* A request that answers eNo leaves nothing behind, whichever calls into Fast DDS failed, but a
\* type with the participant of a live node if it had taken the type object over.
THEOREM FailuresUndone == Spec => FailedRequestLeavesOnlyType
<1>1. IInv /\ [Next]_vars
        => [answer' = "no" =>
              /\ UNCHANGED <<nodes, fields, buffers, dds>>
              /\ types' # types =>
                    taken' /\ \E o \in Live, ty \in Types : types' = Registered(o, ty)]_vars
  BY StepHolds DEF OnlyType
<1> QED
  BY <1>1, Inductive, PTL DEF Spec, FailedRequestLeavesOnlyType
-----------------------------------------------------------------------------
(* The service implements the registry of nodes and endpoints.              *)

\* The endpoints of one side, publishing or subscribing.
SideOf(side) == IF side = "pub" THEN dds.writers ELSE dds.readers

\* What the endpoints of the registry are.
LEMMA Endpoints ==
    /\ EndpointsInDDS \subseteq Registry!Endpoint
    /\ \A x \in Registry!Endpoint :
          x \in EndpointsInDDS <=>
             Found(x.node) /\ Entity(nodes[x.node], x.topic, x.type) \in SideOf(x.side)
  BY DEF EndpointsInDDS, Registry!Endpoint, SideOf

\* The same, after a step.
LEMMA EndpointsNext ==
    /\ EndpointsInDDS' \subseteq Registry!Endpoint
    /\ \A x \in Registry!Endpoint :
          x \in EndpointsInDDS' <=>
             Found(x.node)' /\ Entity(nodes'[x.node], x.topic, x.type) \in SideOf(x.side)'
  BY DEF EndpointsInDDS, Registry!Endpoint, SideOf, Entity, Found

\* A step that leaves nodes, writers and readers alone leaves the registry alone.
LEMMA Unchanged ==
    ASSUME nodes' = nodes, dds'.writers = dds.writers, dds'.readers = dds.readers
    PROVE  LiveNames' = LiveNames /\ EndpointsInDDS' = EndpointsInDDS
  BY DEF LiveNames, Found, EndpointsInDDS

\* A node that publishes a topic has an endpoint of it.
LEMMA PublishingEndpoint ==
    ASSUME IInv, NEW n \in Names, NEW t \in TopicNames, Publishes(n, t)
    PROVE  \E e \in Registry!Endpoint : e \in EndpointsInDDS /\ e.side = "pub"
<1>1. Found(n) /\ nodes[n] \in Live /\ t \in fields[nodes[n]].pubs
  BY EntitiesTyped DEF Publishes, IInv
<1>2. PICK w \in dds.writers : w.node = nodes[n] /\ w.topic = t
  BY <1>1, MapsName DEF IInv
<1>3. w \in Topic
  BY <1>2, EntitiesTyped DEF IInv
<1> DEFINE e == [node |-> n, topic |-> t, type |-> w.type, side |-> "pub"]
<1>4. e \in Registry!Endpoint /\ e.node = n /\ e.topic = t /\ e.type = w.type /\ e.side = "pub"
  BY <1>3 DEF Registry!Endpoint, Topic
<1>5. Entity(nodes[n], t, w.type) = w
  BY <1>2, <1>3 DEF Entity, Topic
<1> HIDE DEF e
<1>6. e \in EndpointsInDDS
  BY <1>1, <1>2, <1>4, <1>5, Endpoints DEF SideOf
<1> QED
  BY <1>4, <1>6

\* CreateNode() creates a node in the registry.
LEMMA CreateMaps ==
    ASSUME IInv, NEW n \in Names, CreateNode(n)
    PROVE  Registry!Create(n)
<1>1. PICK o \in Free :
        /\ nodes' = [nodes EXCEPT ![n] = o]
        /\ dds' = [dds EXCEPT !.participants = @ \cup {o}, !.publishers = @ \cup {o},
                              !.subscribers = @ \cup {o}]
  BY DEF CreateNode
<1>2. ~Found(n) /\ answer' = "ok"
  BY DEF CreateNode
<1>3. /\ o \in Objects /\ \A e \in dds.writers \cup dds.readers : e.node # o
  BY FreeIsEmpty
<1>4. dds'.writers = dds.writers /\ dds'.readers = dds.readers
  BY <1>1, EntitiesTyped DEF IInv, Entities
<1>5. nodes'[n] = o /\ \A m \in Names : m # n => nodes'[m] = nodes[m]
  BY <1>1 DEF IInv, TypeOK
<1>6. n \notin LiveNames /\ LiveNames' = LiveNames \cup {n}
  BY <1>2, <1>3, <1>5, ServiceAssumption DEF LiveNames, Found
<1>7. ASSUME NEW x \in Registry!Endpoint
      PROVE  x \in EndpointsInDDS' <=> x \in EndpointsInDDS
  <2>1. x.node \in Names
    BY DEF Registry!Endpoint
  <2>2. CASE x.node = n
    <3>1. Entity(o, x.topic, x.type) \notin dds.writers \cup dds.readers
      BY <1>3 DEF Entity
    <3> QED
      BY <1>2, <1>4, <1>5, <2>2, <3>1, Endpoints, EndpointsNext DEF SideOf
  <2>3. CASE x.node # n
    <3>1. nodes'[x.node] = nodes[x.node] /\ (Found(x.node)' <=> Found(x.node))
      BY <1>5, <2>1, <2>3 DEF Found
    <3> QED
      BY <1>4, <3>1, Endpoints, EndpointsNext DEF SideOf
  <2> QED
    BY <2>2, <2>3
<1>8. EndpointsInDDS' = EndpointsInDDS
  BY <1>7, Endpoints, EndpointsNext
<1> QED
  BY <1>2, <1>6, <1>8 DEF Registry!Create

\* DeleteNode() deletes a node of the registry, and all its endpoints.
LEMMA DeleteMaps ==
    ASSUME IInv, NEW n \in Names, DeleteNode(n)
    PROVE  Registry!Delete(n)
<1> DEFINE o == nodes[n]
<1>1. /\ Found(n) /\ dds' = Destroyed(dds, o)
      /\ nodes' = [nodes EXCEPT ![n] = Null] /\ answer' = "ok"
  BY DEF DeleteNode, Erased
<1>2. dds \in Entities /\ o \in Objects /\ o \in Live
  BY <1>1, EntitiesTyped DEF IInv
<1> HIDE DEF o
<1>3. /\ \A e \in dds.readers : e.node = o => e.topic \in fields[o].subs
      /\ \A e \in dds.writers : e.node = o => e.topic \in fields[o].pubs
  BY <1>2, MapsName DEF IInv
<1>4. /\ dds'.readers = {e \in dds.readers : e.node # o}
      /\ dds'.writers = {e \in dds.writers : ~(e.node = o /\ dds.loans[<<o, e.topic>>] = 0)}
  BY <1>1, <1>2, <1>3, DestroyedEffect
<1>5. nodes'[n] = Null /\ \A m \in Names : m # n => nodes'[m] = nodes[m]
  BY <1>1 DEF IInv, TypeOK
<1>6. n \in LiveNames /\ LiveNames' = LiveNames \ {n}
  BY <1>1, <1>5 DEF LiveNames, Found
<1>7. ASSUME NEW x \in Registry!Endpoint
      PROVE  x \in EndpointsInDDS' <=> x \in EndpointsInDDS /\ x.node # n
  <2>1. x.node \in Names
    BY DEF Registry!Endpoint
  <2>2. CASE x.node = n
    BY <1>5, <2>2, EndpointsNext DEF Found
  <2>3. CASE x.node # n
    <3> DEFINE e == Entity(nodes[x.node], x.topic, x.type)
    <3>1. nodes'[x.node] = nodes[x.node] /\ (Found(x.node)' <=> Found(x.node))
      BY <1>5, <2>1, <2>3 DEF Found
    <3>2. CASE Found(x.node)
      <4>1. e.node = nodes[x.node] /\ nodes[x.node] # o
        BY <1>1, <2>1, <2>3, <3>2 DEF Entity, IInv, NamesApart, o
      <4>2. e \in SideOf(x.side)' <=> e \in SideOf(x.side)
        BY <1>4, <4>1 DEF SideOf
      <4> QED
        BY <2>3, <3>1, <4>2, Endpoints, EndpointsNext
    <3>3. CASE ~Found(x.node)
      BY <3>1, <3>3, Endpoints, EndpointsNext
    <3> QED
      BY <3>2, <3>3
  <2> QED
    BY <2>2, <2>3
<1>8. EndpointsInDDS' = {x \in EndpointsInDDS : x.node # n}
  BY <1>7, Endpoints, EndpointsNext
<1> QED
  BY <1>1, <1>6, <1>8 DEF Registry!Delete

\* A node that gets a new writer or reader registers an endpoint: its topic keeps one type.
LEMMA RegisterMaps ==
    ASSUME IInv, NEW n \in Names, NEW t \in TopicNames, NEW ty \in Types,
           NEW side \in {"pub", "sub"}, Found(n), Reusable(Entity(nodes[n], t, ty)),
           t \notin (IF side = "pub" THEN fields[nodes[n]].pubs ELSE fields[nodes[n]].subs),
           nodes' = nodes, answer' = "ok",
           dds'.writers = dds.writers \cup (IF side = "pub" THEN {Entity(nodes[n], t, ty)} ELSE {}),
           dds'.readers = dds.readers \cup (IF side = "pub" THEN {} ELSE {Entity(nodes[n], t, ty)})
    PROVE  \E e \in Registry!Endpoint : Registry!Register(e)
<1> DEFINE o == nodes[n]
           p == Entity(o, t, ty)
           e == [node |-> n, topic |-> t, type |-> ty, side |-> side]
<1>1. /\ o \in Live /\ o \in Objects
      /\ \A f \in dds.readers : f.node = o => f.topic \in fields[o].subs
      /\ \A f \in dds.writers : f.node = o => f.topic \in fields[o].pubs
      /\ \A q : q \in fields[o].topics <=> q \in dds.topics /\ q.node = o
  BY EntitiesTyped, MapsName DEF IInv
<1>2. p.node = o /\ p.topic = t /\ p.type = ty
  BY DEF Entity
<1>3. e \in Registry!Endpoint /\ e.node = n /\ e.topic = t /\ e.type = ty /\ e.side = side
  BY DEF Registry!Endpoint
<1> HIDE DEF o, p, e
<1>4. ASSUME NEW f \in EndpointsInDDS, Registry!SameTopic(e, f)
      PROVE  f.side # e.side /\ f.type = e.type
  <2>1. f \in Registry!Endpoint /\ f.node = n /\ f.topic = t
    BY <1>3, <1>4, Endpoints DEF Registry!SameTopic
  <2> DEFINE q == Entity(o, t, f.type)
  <2>2. q.node = o /\ q.topic = t /\ q.type = f.type
    BY DEF Entity
  <2>3. q \in SideOf(f.side)
    BY <2>1, Endpoints DEF o
  <2> HIDE DEF q
  <2>4. q \in dds.topics
    BY <2>3 DEF SideOf, IInv, TopicsInUse
  <2>5. f.type = ty
    BY <1>1, <1>2, <2>2, <2>4 DEF Reusable, p, o
  <2>6. f.side # side
    BY <1>1, <2>1, <2>2, <2>3 DEF SideOf, o, Registry!Endpoint
  <2> QED
    BY <1>3, <2>5, <2>6
<1>5. n \in LiveNames /\ LiveNames' = LiveNames
  BY DEF LiveNames, Found
<1>6. ASSUME NEW x \in Registry!Endpoint
      PROVE  x \in EndpointsInDDS' <=> x \in EndpointsInDDS \/ x = e
  <2> DEFINE q == Entity(nodes[x.node], x.topic, x.type)
  <2>1. q = p /\ Found(x.node) /\ x.side = side <=> x = e
    <3>1. x.node \in Names /\ x \in [node : Names, topic : TopicNames, type : Types, side : {"pub", "sub"}]
      BY DEF Registry!Endpoint
    <3>2. ASSUME q = p, Found(x.node), x.side = side
          PROVE  x = e
      <4>1. nodes[x.node] = nodes[n] /\ x.topic = t /\ x.type = ty
        BY <3>2, <1>2 DEF Entity, o
      <4>2. x.node = n
        BY <3>1, <3>2, <4>1 DEF IInv, NamesApart
      <4> QED
        BY <3>1, <3>2, <4>1, <4>2 DEF e
    <3>3. ASSUME x = e
          PROVE  q = p /\ Found(x.node) /\ x.side = side
      BY <1>3, <3>3 DEF p, o
    <3> QED
      BY <3>2, <3>3
  <2>2. Found(x.node)' <=> Found(x.node)
    BY DEF Found
  <2>3. x.side = "pub" \/ x.side = "sub"
    BY DEF Registry!Endpoint
  <2>4. q \in SideOf(x.side)' <=> q \in SideOf(x.side) \/ (q = p /\ x.side = side)
    <3> HIDE DEF q
    <3>1. dds'.writers = dds.writers \cup (IF side = "pub" THEN {p} ELSE {})
      BY DEF p, o
    <3>2. dds'.readers = dds.readers \cup (IF side = "pub" THEN {} ELSE {p})
      BY DEF p, o
    <3>3. CASE side = "pub"
      BY <2>3, <3>1, <3>2, <3>3 DEF SideOf
    <3>4. CASE side = "sub"
      BY <2>3, <3>1, <3>2, <3>4 DEF SideOf
    <3> QED
      BY <3>3, <3>4
  <2>5. x \in EndpointsInDDS <=> Found(x.node) /\ q \in SideOf(x.side)
    BY Endpoints
  <2>6. x \in EndpointsInDDS' <=> Found(x.node) /\ q \in SideOf(x.side)'
    BY <2>2, EndpointsNext
  <2> QED
    BY <2>1, <2>4, <2>5, <2>6
<1>7. EndpointsInDDS' = EndpointsInDDS \cup {e}
  BY <1>3, <1>6, Endpoints, EndpointsNext
<1> QED
  BY <1>3, <1>4, <1>5, <1>7 DEF Registry!Register

\* A publication that is registered is registered in the registry.
LEMMA PublicationMaps ==
    ASSUME IInv, NEW n \in Names, NEW t \in TopicNames, NEW ty \in Types,
           RegisterPubTopic(n, t, ty), answer' = "ok"
    PROVE  \E e \in Registry!Endpoint : Registry!Register(e)
<1> DEFINE p == Entity(nodes[n], t, ty)
<1>1. Found(n) /\ t \notin fields[nodes[n]].pubs /\ Reusable(p) /\ nodes' = nodes
  BY DEF RegisterPubTopic
<1>2. dds' = [[dds EXCEPT !.topics = @ \cup {p}] EXCEPT !.writers = @ \cup {p}]
  BY DEF RegisterPubTopic
<1>3. dds'.writers = dds.writers \cup {p} /\ dds'.readers = dds.readers
  BY <1>2, EntitiesTyped DEF IInv, Entities
<1> QED
  BY <1>1, <1>3, RegisterMaps

\* So is a subscription.
LEMMA SubscriptionMaps ==
    ASSUME IInv, NEW n \in Names, NEW t \in TopicNames, NEW ty \in Types,
           RegisterSubTopic(n, t, ty), answer' = "ok"
    PROVE  \E e \in Registry!Endpoint : Registry!Register(e)
<1> DEFINE p == Entity(nodes[n], t, ty)
<1>1. Found(n) /\ t \notin fields[nodes[n]].subs /\ Reusable(p) /\ nodes' = nodes
  BY DEF RegisterSubTopic
<1>2. dds' = [[dds EXCEPT !.topics = @ \cup {p}] EXCEPT !.readers = @ \cup {p}]
  BY DEF RegisterSubTopic
<1>3. dds'.readers = dds.readers \cup {p} /\ dds'.writers = dds.writers
  BY <1>2, EntitiesTyped DEF IInv, Entities
<1> QED
  BY <1>1, <1>3, RegisterMaps

\* Every request is one step of the registry, or none.
LEMMA StepMaps ==
    ASSUME IInv, [Next]_vars
    PROVE  [Registry!Next]_(Registry!vars)
<1>1. CASE UNCHANGED vars
  BY <1>1, Unchanged DEF vars, Registry!vars
<1>2. ASSUME NEW n \in Names, CreateNode(n) PROVE Registry!Next
  BY <1>2, CreateMaps DEF Registry!Next
<1>3. ASSUME NEW n \in Names, DeleteNode(n) PROVE Registry!Next
  BY <1>3, DeleteMaps DEF Registry!Next
<1>4. ASSUME NEW n \in Names, NEW t \in TopicNames, NEW ty \in Types,
             RegisterPubTopic(n, t, ty) \/ RegisterSubTopic(n, t, ty), answer' = "ok"
      PROVE  Registry!Next
  BY <1>4, PublicationMaps, SubscriptionMaps DEF Registry!Next
<1>5. ASSUME NEW n \in Names, NEW t \in TopicNames,
             PublishCopy(n, t) \/ Loan(n, t) \/ ReturnSample(n, t)
      PROVE  Registry!Next
  <2>1. Publishes(n, t) /\ answer' = "ok" /\ nodes' = nodes
    BY <1>5 DEF PublishCopy, Loan, ReturnSample
  <2>2. dds'.writers = dds.writers /\ dds'.readers = dds.readers
    BY <1>5, EntitiesTyped DEF PublishCopy, Loan, ReturnSample, IInv, Entities
  <2>3. LiveNames' = LiveNames /\ EndpointsInDDS' = EndpointsInDDS
    BY <2>1, <2>2, Unchanged
  <2>4. \E e \in Registry!Endpoint : Registry!Use(e)
    BY <2>1, <2>3, PublishingEndpoint DEF Registry!Use
  <2> QED
    BY <2>4 DEF Registry!Next
<1>6. ASSUME answer' = "no", vars' # vars PROVE Registry!Next
  <2>1. UNCHANGED <<nodes, fields, buffers, dds>>
    BY <1>6, StepHolds DEF OnlyType
  <2>2. LiveNames' = LiveNames /\ EndpointsInDDS' = EndpointsInDDS
    BY <2>1, Unchanged
  <2> QED
    BY <1>6, <2>2 DEF Registry!Next, Registry!Refuse
<1>7. ASSUME \/ \E n \in Names : CreateNodeFails(n) \/ DeleteNodeFails(n)
             \/ \E n \in Names, t \in TopicNames, ty \in Types : TopicRefused(n, t, ty)
             \/ \E n \in Names, t \in TopicNames : RegisterRefused(n, t)
             \/ UseFails
      PROVE  answer' = "no"
  BY <1>7 DEF CreateNodeFails, DeleteNodeFails, TopicRefused, RegisterRefused, UseFails, Refused
<1>8. ASSUME NEW n \in Names, NEW t \in TopicNames, NEW ty \in Types,
             RegisterPubTopic(n, t, ty) \/ RegisterSubTopic(n, t, ty)
      PROVE  answer' = "ok" \/ answer' = "no"
  BY <1>8 DEF RegisterPubTopic, RegisterSubTopic
<1> QED
  BY <1>1, <1>2, <1>3, <1>4, <1>5, <1>6, <1>7, <1>8 DEF Next

\* The service is the registry it promises: each request takes its whole effect or none.
THEOREM RegistryImplemented == Spec => ImplementsRegistry
<1>1. Init => Registry!Init
  BY DEF Init, Registry!Init, LiveNames, Found, EndpointsInDDS
<1>2. IInv /\ [Next]_vars => [Registry!Next]_(Registry!vars)
  BY StepMaps
<1>3. Spec => Registry!Spec
  BY <1>1, <1>2, Inductive, PTL DEF Spec, Registry!Spec
<1> QED
  BY <1>3 DEF ImplementsRegistry

\* Whatever was refused or failed, both sides of a topic of a node have one type, and every
\* endpoint belongs to a node that exists (getOrCreateTopic(), FastDDSNode.cpp:149-158).
THEOREM TopicsHaveOneType == Spec => []Registry!OneTypePerTopic
<1>1. IInv => Registry!OneTypePerTopic
  <2> SUFFICES ASSUME IInv PROVE Registry!OneTypePerTopic
    OBVIOUS
  <2>1. ASSUME NEW e \in EndpointsInDDS
        PROVE  /\ e \in Registry!Endpoint /\ e.node \in LiveNames
               /\ Entity(nodes[e.node], e.topic, e.type) \in dds.topics
    <3>1. /\ e \in Registry!Endpoint /\ Found(e.node)
          /\ Entity(nodes[e.node], e.topic, e.type) \in SideOf(e.side)
      BY Endpoints
    <3> QED
      BY <3>1 DEF LiveNames, SideOf, IInv, TopicsInUse, Registry!Endpoint
  <2>2. ASSUME NEW e \in EndpointsInDDS, NEW f \in EndpointsInDDS, Registry!SameTopic(e, f)
        PROVE  e.type = f.type
    <3>1. nodes[e.node] = nodes[f.node] /\ e.topic = f.topic
      BY <2>2 DEF Registry!SameTopic
    <3>2. Entity(nodes[e.node], e.topic, e.type) = Entity(nodes[f.node], f.topic, f.type)
      BY <2>1, <3>1 DEF IInv, OneType, Entity
    <3> QED
      BY <3>2 DEF Entity
  <2> QED
    BY <2>1, <2>2, Endpoints DEF Registry!OneTypePerTopic, LiveNames
<1> QED
  BY <1>1, Inductive, PTL
=============================================================================
