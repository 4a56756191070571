----------------------------- MODULE RpcService ------------------------------
(***************************************************************************)
(* YomkRpcService and the FastDDSNode objects behind it. The mutex of the  *)
(* service is held over every request, so a request is one action; inside  *)
(* it the calls into Fast DDS may fail one by one, and their effects are   *)
(* kept in "dds", apart from what the node's own maps say.                 *)
(***************************************************************************)
EXTENDS Naturals, FiniteSets

CONSTANTS
    Names,       \* node names
    TopicNames,  \* topic names
    Types,       \* DDS type names
    Plain,       \* the plain ones, whose samples can be loaned
    Objects,     \* bound: FastDDSNode objects, and participants, at one time
    PoolSize,    \* bound: samples one writer can have on loan
    Null         \* no object

ASSUME ServiceAssumption ==
    /\ Plain \subseteq Types /\ Null \notin Objects /\ PoolSize \in Nat

Topic == [node : Objects, topic : TopicNames, type : Types]

VARIABLES
    nodes,    \* nodes_: the object a name stands for, Null if none
    fields,   \* per object: topics_, and the keys of pubTopics_ and subTopics_
    buffers,  \* sample buffers made by create_data() and not deleted
    dds,      \* the entities that exist in Fast DDS
    types,    \* the types registered with participants
    taken,    \* the last request took the caller's type object over
    answer    \* the status of the last response

vars == <<nodes, fields, buffers, dds, types, taken, answer>>

NoFields == [topics |-> {}, pubs |-> {}, subs |-> {}]

NoEntities ==
    [participants |-> {}, publishers |-> {}, subscribers |-> {}, topics |-> {},
     writers |-> {}, readers |-> {}, loans |-> [w \in Objects \X TopicNames |-> 0]]

Init ==
    /\ nodes = [n \in Names |-> Null]
    /\ fields = [o \in Objects |-> NoFields]
    /\ buffers = {} /\ dds = NoEntities /\ types = {}
    /\ taken = FALSE /\ answer = "none"

Entity(o, t, ty) == [node |-> o, topic |-> t, type |-> ty]

-----------------------------------------------------------------------------
(* Fast DDS: a delete refuses while the entity is still used.              *)

DeleteReaders(d, o, topics) ==
    [d EXCEPT !.readers = {e \in @ : ~(e.node = o /\ e.topic \in topics)}]

DeleteSubscriber(d, o) ==
    IF \E e \in d.readers : e.node = o THEN d ELSE [d EXCEPT !.subscribers = @ \ {o}]

\* A writer with a sample on loan cannot be deleted.
DeleteWriters(d, o, topics) ==
    [d EXCEPT !.writers =
        {e \in @ : ~(e.node = o /\ e.topic \in topics /\ d.loans[<<o, e.topic>>] = 0)}]

DeletePublisher(d, o) ==
    IF \E e \in d.writers : e.node = o THEN d ELSE [d EXCEPT !.publishers = @ \ {o}]

DeleteTopics(d, topics) ==
    [d EXCEPT !.topics =
        {p \in @ : p \in topics => \E e \in d.writers \cup d.readers :
                                        e.node = p.node /\ e.topic = p.topic}]

DeleteParticipant(d, o) ==
    IF \/ o \in d.publishers \cup d.subscribers
       \/ \E p \in d.topics : p.node = o
    THEN d ELSE [d EXCEPT !.participants = @ \ {o}]

\* register_type(): a name that is registered already keeps its type, an error the code ignores.
Registered(o, ty) == types \cup {<<o, ty>>}

\* Types that a participant has registered go with it, and not before.
TypesOf(d) == {x \in types : x[1] \in d.participants}

-----------------------------------------------------------------------------
(* FastDDSNode. *)

\* Mutant: the topics are deleted while writers and readers still use them.
DestroyedTopicsFirst(d, o) ==
    LET d1 == DeleteTopics(d, fields[o].topics)
        d2 == DeleteSubscriber(DeleteReaders(d1, o, fields[o].subs), o)
        d3 == DeletePublisher(DeleteWriters(d2, o, fields[o].pubs), o)
    IN DeleteParticipant(d3, o)

\* ~FastDDSNode(): the return codes of the deletes are not looked at.
Destroyed(d, o) ==
    LET d1 == DeleteSubscriber(DeleteReaders(d, o, fields[o].subs), o)
        d2 == DeletePublisher(DeleteWriters(d1, o, fields[o].pubs), o)
        d3 == DeleteTopics(d2, fields[o].topics)
    IN DeleteParticipant(d3, o)

\* Mutant: getOrCreateTopic() reuses a topic without looking at its type.
AnyType(p) == TRUE

\* getOrCreateTopic(): an existing topic is reused only for its own type.
Reusable(p) == \A q \in fields[p.node].topics : q.topic = p.topic => q.type = p.type

TopicExisted(p) == \E q \in fields[p.node].topics : q.topic = p.topic

\* Mutant: a registration that fails leaves the topic it has just made.
NewTopicLeft(d, p) == d

\* Mutant: a registration that fails deletes the topic even if others use it.
TopicAlwaysDeleted(d, p) == [d EXCEPT !.topics = @ \ {p}]

\* A registration that fails deletes the topic again if it has made it.
RolledBack(d, p) == IF TopicExisted(p) THEN d ELSE DeleteTopics(d, {p})

TopicsRolledBack(p) ==
    (fields[p.node].topics \cup {p}) \ (IF TopicExisted(p) THEN {} ELSE {p})

\* Mutant: the sample buffer of a failed subscription is not deleted.
BufferKept(b) == buffers \cup {b}

\* create_data(), then delete_data() when the reader could not be made.
BufferDeleted(b) == (buffers \cup {b}) \ {b}

-----------------------------------------------------------------------------
(* The requests. *)

Refused == answer' = "no" /\ taken' = FALSE /\ UNCHANGED <<nodes, fields, buffers, dds, types>>

Found(n) == nodes[n] # Null

Free == {o \in Objects \ dds.participants : \A n \in Names : nodes[n] # o}

\* A name that is taken, or an entity that cannot be made: what was made is destroyed again.
CreateNodeFails(n) ==
    /\ UNCHANGED <<nodes, fields, buffers, types>> /\ answer' = "no" /\ taken' = FALSE
    /\ \/ Found(n) /\ UNCHANGED dds
       \/ /\ ~Found(n)
          /\ \/ UNCHANGED dds    \* no participant could be made
             \/ \E o \in Free : \E P, S \in SUBSET {o} :
                   /\ P = {} \/ S = {}
                   /\ dds' = Destroyed([dds EXCEPT !.participants = @ \cup {o},
                                        !.publishers = @ \cup P, !.subscribers = @ \cup S], o)

CreateNode(n) ==
    /\ ~Found(n)
    /\ \E o \in Free :
          /\ nodes' = [nodes EXCEPT ![n] = o]
          /\ fields' = [fields EXCEPT ![o] = NoFields]
          /\ dds' = [dds EXCEPT !.participants = @ \cup {o}, !.publishers = @ \cup {o},
                                !.subscribers = @ \cup {o}]
    /\ answer' = "ok" /\ taken' = FALSE
    /\ UNCHANGED <<buffers, types>>

DeleteNodeFails(n) == ~Found(n) /\ Refused

\* Mutant: it->second.reset(), which leaves a null pointer in nodes_ under the name.
EntryReset(n) == [nodes EXCEPT ![n] = 0]

\* nodes_.erase(it): the name has no entry any more.
Erased(n) == [nodes EXCEPT ![n] = Null]

\* nodes_.erase(): the destructor runs under the service's mutex.
DeleteNode(n) ==
    /\ Found(n)
    /\ LET o == nodes[n] IN
          /\ dds' = Destroyed(dds, o)
          /\ types' = TypesOf(dds')
          /\ buffers' = {b \in buffers : ~(b.node = o /\ b.topic \in fields[o].subs)}
          /\ fields' = [fields EXCEPT ![o] = NoFields]
    /\ nodes' = Erased(n)
    /\ answer' = "ok" /\ taken' = FALSE

\* No such node, or the topic is already registered on this side: nobody takes the type object.
RegisterRefused(n, t) ==
    /\ Found(n) => t \in fields[nodes[n]].pubs \cup fields[nodes[n]].subs
    /\ Refused

\* The topic exists with another type, or cannot be made. A TypeSupport has the type object by
\* then, and the participant the type, unless register_type() failed too.
TopicRefused(n, t, ty) ==
    /\ Found(n) /\ t \notin fields[nodes[n]].pubs \cap fields[nodes[n]].subs
    /\ LET p == Entity(nodes[n], t, ty) IN ~Reusable(p) \/ ~TopicExisted(p)
    /\ types' \in {types, Registered(nodes[n], ty)}
    /\ taken' = TRUE /\ answer' = "no"
    /\ UNCHANGED <<nodes, fields, buffers, dds>>

RegisterPubTopic(n, t, ty) ==
    LET o == nodes[n]
        p == Entity(o, t, ty)
        d == [dds EXCEPT !.topics = @ \cup {p}]
    IN  /\ Found(n) /\ o \in dds.publishers /\ t \notin fields[o].pubs /\ Reusable(p)
        /\ types' = Registered(o, ty) /\ taken' = TRUE
        /\ \/ /\ dds' = [d EXCEPT !.writers = @ \cup {p}]
              /\ fields' = [fields EXCEPT ![o].topics = @ \cup {p}, ![o].pubs = @ \cup {t}]
              /\ answer' = "ok"
           \/ /\ dds' = RolledBack(d, p)
              /\ fields' = [fields EXCEPT ![o].topics = TopicsRolledBack(p)]
              /\ answer' = "no"
        /\ UNCHANGED <<nodes, buffers>>

RegisterSubTopic(n, t, ty) ==
    LET o == nodes[n]
        p == Entity(o, t, ty)
        d == [dds EXCEPT !.topics = @ \cup {p}]
    IN  /\ Found(n) /\ o \in dds.subscribers /\ t \notin fields[o].subs /\ Reusable(p)
        /\ types' = Registered(o, ty) /\ taken' = TRUE
        /\ \/ /\ dds' = [d EXCEPT !.readers = @ \cup {p}]
              /\ fields' = [fields EXCEPT ![o].topics = @ \cup {p}, ![o].subs = @ \cup {t}]
              /\ buffers' = buffers \cup {p}
              /\ answer' = "ok"
           \/ /\ dds' = RolledBack(d, p)
              /\ fields' = [fields EXCEPT ![o].topics = TopicsRolledBack(p)]
              /\ buffers' = BufferDeleted(p)
              /\ answer' = "no"
        /\ UNCHANGED nodes

\* The samples the callers have on loan, by the writer they came from.
OnLoan == {w \in Objects \X TopicNames : dds.loans[w] > 0}

Publishes(n, t) == Found(n) /\ t \in fields[nodes[n]].pubs

\* No such node or publisher, or Fast DDS refuses the write, the loan or its return.
UseFails == Refused

\* write() of the caller's own data, or of a sample that another writer has loaned.
PublishCopy(n, t) ==
    /\ Publishes(n, t) /\ answer' = "ok" /\ taken' = FALSE
    /\ UNCHANGED <<nodes, fields, buffers, dds, types>>

\* write() or discard_loan() of a sample this writer has loaned: Fast DDS has it back.
ReturnSample(n, t) ==
    LET w == <<nodes[n], t>> IN
    /\ Publishes(n, t) /\ w \in OnLoan
    /\ dds' = [dds EXCEPT !.loans[w] = @ - 1]
    /\ answer' = "ok" /\ taken' = FALSE
    /\ UNCHANGED <<nodes, fields, buffers, types>>

\* loan_sample(): plain types only, and only while the pool has samples.
Loan(n, t) ==
    LET w == <<nodes[n], t>> IN
    /\ Publishes(n, t) /\ dds.loans[w] < PoolSize
    /\ \E e \in dds.writers : e.node = nodes[n] /\ e.topic = t /\ e.type \in Plain
    /\ dds' = [dds EXCEPT !.loans[w] = @ + 1]
    /\ answer' = "ok" /\ taken' = FALSE
    /\ UNCHANGED <<nodes, fields, buffers, types>>

Next ==
    \/ \E n \in Names :
          CreateNode(n) \/ CreateNodeFails(n) \/ DeleteNode(n) \/ DeleteNodeFails(n)
    \/ \E n \in Names, t \in TopicNames, ty \in Types :
          RegisterPubTopic(n, t, ty) \/ RegisterSubTopic(n, t, ty) \/ TopicRefused(n, t, ty)
    \/ \E n \in Names, t \in TopicNames :
          \/ RegisterRefused(n, t) \/ PublishCopy(n, t)
          \/ ReturnSample(n, t) \/ Loan(n, t)
    \/ UseFails

Spec == Init /\ [][Next]_vars

-----------------------------------------------------------------------------
Live == {nodes[n] : n \in Names} \ {Null}

TopicNamesOf(entities, o) == {e.topic : e \in {f \in entities : f.node = o}}

\* Every variable has its type; an entry of nodes_ has an object, which every request uses
\* without looking at the pointer (YomkRpcService.cpp:79).
TypeOK ==
    /\ nodes \in [Names -> Objects \cup {Null}]
    /\ fields \in [Objects -> [topics : SUBSET Topic, pubs : SUBSET TopicNames,
                               subs : SUBSET TopicNames]]
    /\ buffers \subseteq Topic
    /\ dds \in [participants : SUBSET Objects, publishers : SUBSET Objects,
                subscribers : SUBSET Objects, topics : SUBSET Topic,
                writers : SUBSET Topic, readers : SUBSET Topic,
                loans : [Objects \X TopicNames -> 0..PoolSize]]
    /\ types \subseteq Objects \X Types
    /\ taken \in BOOLEAN /\ answer \in {"none", "ok", "no"}

\* What a node's maps say is what exists in Fast DDS: topics_, pubTopics_ and subTopics_
\* name the node's topics, writers and readers, and each reader has its one sample buffer.
MapsMatchEntities ==
    \A o \in Live :
        /\ o \in dds.participants \cap dds.publishers \cap dds.subscribers
        /\ fields[o].topics = {p \in dds.topics : p.node = o}
        /\ fields[o].pubs = TopicNamesOf(dds.writers, o)
        /\ fields[o].subs = TopicNamesOf(dds.readers, o)
        /\ {b \in buffers : b.node = o} = {e \in dds.readers : e.node = o}

\* A topic stays exactly as long as it is used, by endpoints of its own type
\* (the roll-backs at FastDDSNode.cpp:193-198 and 243-248), which its participant knows.
TopicsInUse ==
    /\ dds.topics = dds.writers \cup dds.readers
    /\ \A p \in dds.topics : <<p.node, p.type>> \in types

\* Deleting a node leaves entities behind only when a sample is on loan, and then
\* the writer of the sample and what holds it.
LeakOnlyWithLoan ==
    \A o \in Objects \ Live :
        /\ o \in dds.participants \cup dds.publishers => \E w \in OnLoan : w[1] = o
        /\ \A e \in dds.topics \cup dds.writers : e.node = o => <<o, e.topic>> \in OnLoan
        /\ o \notin dds.subscribers /\ \A e \in dds.readers : e.node # o

\* A request that answers eNo leaves nothing behind, in the service or in Fast DDS, but a type
\* with the participant of a live node, and that only if it took the type object over: after
\* register_type() the roll-backs of FastDDSNode.cpp:185-200 and 224-250 do not undo it.
FailedRequestLeavesOnlyType ==
    [][answer' = "no" =>
        /\ UNCHANGED <<nodes, fields, buffers, dds>>
        /\ types' # types =>
              taken' /\ \E o \in Live, ty \in Types : types' = Registered(o, ty)]_vars

LiveNames == {n \in Names : Found(n)}

\* The endpoints that exist in Fast DDS, under the name of their node.
EndpointsInDDS ==
    {x \in [node : Names, topic : TopicNames, type : Types, side : {"pub", "sub"}] :
        /\ Found(x.node)
        /\ Entity(nodes[x.node], x.topic, x.type)
              \in (IF x.side = "pub" THEN dds.writers ELSE dds.readers)}

Registry == INSTANCE RpcRegistry WITH live <- LiveNames, endpoints <- EndpointsInDDS

\* The service is the registry it promises to be, each failure an error without effect.
ImplementsRegistry == Registry!Spec
=============================================================================
