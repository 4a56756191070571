----------------------------- MODULE RpcDelivery ------------------------------
(***************************************************************************)
(* How samples reach the callbacks of YomkRpcService: the requests that    *)
(* publish or delete a node, under the service's mutex, and SubListener,   *)
(* which Fast DDS runs with the mutex of the reader held: on a thread of   *)
(* its own for samples of other processes, on the publishing thread, under *)
(* the service's mutex, for samples of this one.                           *)
(*                                                                         *)
(* One topic; each reader belongs to a node of its own. A reader keeps the *)
(* newest sample of each instance until it is taken (KEEP_LAST, depth 1).  *)
(***************************************************************************)
EXTENDS Naturals

CONSTANTS
    Users,       \* application threads
    Receivers,   \* Fast DDS threads that bring samples of other processes
    Readers,     \* readers of the topic, one per subscribing node
    Distant,     \* readers that are matched with writers of other processes, too
    Nesting,     \* readers whose callback may make a request of the service
    Keys,        \* instances of the topic
    MaxSamples,  \* bound: samples written of one instance
    MaxBatch,    \* bound: samples of one instance that one notification stands for
    MaxFaults,   \* bound: takes that fail
    Null

ASSUME DeliveryAssumption ==
    /\ Users \cap Receivers = {} /\ Null \notin Users \cup Receivers \cup Readers \cup Keys
    /\ Nesting \subseteq Readers /\ Distant \subseteq Readers
    /\ MaxSamples \in Nat /\ MaxFaults \in Nat
    /\ MaxBatch \in Nat \ {0}

Threads == Users \cup Receivers
Notice == 0   \* the number of the invalid sample that says that an instance has no writer left
Items == Keys \X Nat   \* an instance, and the number of a sample of it, from 1 as they come
Sources == {"here", "there"}   \* the writer of this process, the writers of others

VARIABLES
    mtx,     \* the thread that holds YomkRpcService::mtx_, or Null
    pc,      \* per thread
    op,      \* per user: its request, and the readers its write has still to reach
    nodes,   \* readers whose node is in nodes_
    readers, \* readers that exist in Fast DDS
    at,      \* per reader: its history, its listener and what the callback was told
    made, faults

vars == <<mtx, pc, op, nodes, readers, at, made, faults>>

NoOp == [kind |-> "none", reader |-> Null, key |-> Null, todo |-> {}]

NewReader(r) ==
    [holder |-> Null,   \* the thread that holds the mutex of the reader
     left |-> IF r \in Distant THEN {} ELSE {"there"},   \* sources that have gone
     writers |-> [k \in Keys |-> {}],   \* sources that keep an instance alive
     history |-> {},    \* what has come and is not taken
     loaned |-> TRUE,   \* loanSupported_
     lent |-> {},       \* samples on loan to the listener
     queue |-> {},      \* what it has taken and not looked at
     data |-> Null,     \* the sample in data_
     seen |-> Null,     \* the sample that the callback has been given
     late |-> {},       \* instances whose sample a failed take has left behind
     arrived |-> [k \in Keys |-> 0],   \* the number of the newest sample that came
     told |-> [k \in Keys |-> 0]]      \* and of the last one the callback was told of

Init ==
    /\ mtx = Null /\ pc = [t \in Threads |-> "idle"] /\ op = [u \in Users |-> NoOp]
    /\ nodes = Readers /\ readers = Readers
    /\ at = [r \in Readers |-> NewReader(r)]
    /\ made = 0 /\ faults = 0

Goes(t, point) == pc' = [pc EXCEPT ![t] = point]
-----------------------------------------------------------------------------
(* Fast DDS: what comes to a reader, under its mutex.                       *)

\* The listener runs at once, on the same thread.
Notifies(t, r, state) ==
    at' = [at EXCEPT ![r] = [state EXCEPT !.holder = t]] /\ Goes(t, "taking")

\* n samples come of each instance in K; the last of them is kept, and no earlier one.
Arrived(a, K, n, source) ==
    [a EXCEPT !.arrived = [k \in Keys |-> IF k \in K THEN a.arrived[k] + n ELSE a.arrived[k]],
              !.writers = [k \in Keys |-> a.writers[k] \cup (IF k \in K THEN {source} ELSE {})],
              !.history = {i \in a.history : i[2] = Notice \/ i[1] \notin K}
                              \cup {<<k, a.arrived[k] + n>> : k \in K}]

\* One notification for one sample or several.
SamplesArrive(t, r, K, n, source) ==
    /\ r \in readers /\ at[r].holder = Null
    /\ Notifies(t, r, Arrived(at[r], K, n, source))

\* The instances that lose their last writer with this source.
Orphans(a, source) == {k \in Keys : a.writers[k] = {source}}

\* They are alive no longer, and get a notice each.
Departed(a, source) ==
    [a EXCEPT !.left = a.left \cup {source},
              !.writers = [k \in Keys |-> a.writers[k] \ {source}],
              !.history = a.history \cup (Orphans(a, source) \X {Notice})]

\* A source goes; for notices the listener may or may not be run.
SourceLeaves(t, r, source) ==
    /\ r \in readers /\ at[r].holder = Null
    /\ \/ Orphans(at[r], source) # {} /\ Notifies(t, r, Departed(at[r], source))
       \/ at' = [at EXCEPT ![r] = Departed(at[r], source)] /\ UNCHANGED pc

\* Another process writes samples, or its last writer goes.
Receive(t, r) ==
    /\ pc[t] = "idle" /\ "there" \notin at[r].left
    /\ \/ \E K \in SUBSET Keys \ {{}}, n \in 1..MaxBatch :
             /\ made + n <= MaxSamples /\ made' = made + n
             /\ SamplesArrive(t, r, K, n, "there")
       \/ SourceLeaves(t, r, "there") /\ UNCHANGED made
    /\ UNCHANGED <<mtx, op, nodes, readers, faults>>
-----------------------------------------------------------------------------
(* SubListener *)

\* The thread is at this point of on_data_available() of this reader.
Listens(t, r, point) == pc[t] = point /\ at[r].holder = t

requests == <<mtx, op, nodes, readers, made>>

\* Mutant: the loan is returned right after the take.
ReturnedEarly(items) == {}

\* The samples are on loan until return_loan().
Lent(items) == items

\* Mutant: the samples are read, and stay in the reader.
ReadOnly(r, items) == at[r].history

\* What a take leaves.
Left(r, items) == at[r].history \ items

\* take() lends what is there, or part of it; take_next_sample() copies one to data_.
Take(t, r) ==
    /\ Listens(t, r, "taking")
    /\ \E items \in SUBSET at[r].history : \E i \in items :
          /\ at[r].loaned \/ items = {i}
          /\ at' = [at EXCEPT ![r] = [at[r] EXCEPT
                !.history = Left(r, items), !.queue = items,
                !.lent = IF at[r].loaned THEN Lent(items) ELSE {},
                !.data = IF at[r].loaned THEN at[r].data ELSE i]]
    /\ Goes(t, "giving")
    /\ UNCHANGED <<requests, faults>>

\* take() answers neither OK nor NO_DATA: samples are copied now and ever after.
TakeFails(t, r) ==
    /\ Listens(t, r, "taking") /\ at[r].loaned /\ faults < MaxFaults
    /\ faults' = faults + 1 /\ at' = [at EXCEPT ![r].loaned = FALSE]
    /\ UNCHANGED <<requests, pc>>

\* on_data_available() returns, and Fast DDS releases the reader.
Leaves(t, r, state) ==
    /\ at' = [at EXCEPT ![r] = [state EXCEPT !.holder = Null]]
    /\ Goes(t, IF t \in Users THEN "writing" ELSE "idle")

\* take_next_sample() answers an error: the loop ends, and what has come waits for the next
\* notification.
CopyFails(t, r) ==
    /\ Listens(t, r, "taking") /\ ~at[r].loaned /\ faults < MaxFaults
    /\ faults' = faults + 1
    /\ Leaves(t, r, [at[r] EXCEPT
          !.late = at[r].late \cup {i[1] : i \in {j \in at[r].history : j[2] # Notice}}])
    /\ UNCHANGED requests

\* Mutant: the loop goes on until a take gives something.
TakesOn(r) == FALSE

\* Mutant: after a take that failed the listener returns without copying.
NoFallback(r) == at[r].history = {} \/ ~at[r].loaned

\* The take finds nothing.
NoData(r) == at[r].history = {}

ListenerReturns(t, r) ==
    /\ Listens(t, r, "taking") /\ NoData(r) /\ Leaves(t, r, at[r])
    /\ UNCHANGED <<requests, faults>>

\* Mutant: the callback is called whatever the SampleInfo says.
GivesAny(r, i) == TRUE

\* valid_data, and the instance is alive
Gives(r, i) == i[2] # Notice /\ at[r].writers[i[1]] # {}

\* The callback gets the next sample, or the sample is passed over.
Given(a, i) ==
    [a EXCEPT !.queue = a.queue \ {i}, !.seen = i, !.late = a.late \ {i[1]},
              !.told = [a.told EXCEPT ![i[1]] = i[2]]]
Dropped(a, i) == [a EXCEPT !.queue = a.queue \ {i}]

GiveNext(t, r) ==
    /\ Listens(t, r, "giving")
    /\ \E i \in at[r].queue :
          IF Gives(r, i) THEN at' = [at EXCEPT ![r] = Given(at[r], i)] /\ Goes(t, "callback")
          ELSE at' = [at EXCEPT ![r] = Dropped(at[r], i)] /\ UNCHANGED pc
    /\ UNCHANGED <<requests, faults>>

CallbackReturns(t, r) ==
    /\ Listens(t, r, "callback")
    /\ Goes(t, "giving") /\ at' = [at EXCEPT ![r].seen = Null]
    /\ UNCHANGED <<requests, faults>>

\* return_loan(), when there is a loan, and the next take
TakeAgain(t, r) ==
    /\ Listens(t, r, "giving") /\ at[r].queue = {}
    /\ Goes(t, "taking") /\ at' = [at EXCEPT ![r].lent = {}]
    /\ UNCHANGED <<requests, faults>>

\* The callback asks the service for something, and needs its mutex for it.
CallbackRequests(t, r) ==
    /\ Listens(t, r, "callback") /\ r \in Nesting
    /\ Goes(t, "nested")
    /\ UNCHANGED <<requests, at, faults>>

NestedRequest(t, r) ==
    /\ Listens(t, r, "nested") /\ mtx = Null
    /\ Goes(t, "callback")
    /\ UNCHANGED <<requests, at, faults>>

Listener(t, r) ==
    \/ Take(t, r) \/ GiveNext(t, r) \/ CallbackReturns(t, r) \/ TakeAgain(t, r)
    \/ ListenerReturns(t, r) \/ NestedRequest(t, r)
-----------------------------------------------------------------------------
(* The requests *)

\* The readers that the writer of this process is matched with.
Matched == {r \in readers : "here" \notin at[r].left}

\* "withdraw" deletes the node of the writer, "delete" the node of a reader.
Request(u, kind, r, k) ==
    /\ pc[u] = "idle" /\ Goes(u, "locking")
    /\ op' = [op EXCEPT ![u] = [NoOp EXCEPT !.kind = kind, !.reader = r, !.key = k]]
    /\ UNCHANGED <<mtx, nodes, readers, at, made, faults>>

Requests(u) ==
    \/ \E k \in Keys : Matched # {} /\ Request(u, "publish", Null, k)
    \/ Matched # {} /\ Request(u, "withdraw", Null, Null)
    \/ \E r \in nodes : Request(u, "delete", r, Null)

Returns(u) ==
    /\ Goes(u, "idle") /\ op' = [op EXCEPT ![u] = NoOp]
    /\ mtx' = IF mtx = u THEN Null ELSE mtx

\* No such node, or no such publisher any more, or the bound on samples.
Refused(u) ==
    \/ op[u].kind = "publish" /\ (Matched = {} \/ made = MaxSamples)
    \/ op[u].kind = "withdraw" /\ Matched = {}
    \/ op[u].kind = "delete" /\ op[u].reader \notin nodes

RequestLocks(u) ==
    /\ pc[u] = "locking" /\ mtx = Null
    /\ IF Refused(u) THEN Returns(u) /\ UNCHANGED made
       ELSE /\ mtx' = u
            /\ made' = made + (IF op[u].kind = "publish" THEN 1 ELSE 0)
            /\ op' = [op EXCEPT ![u].todo = Matched]
            /\ Goes(u, IF op[u].kind = "delete" THEN "deleting" ELSE "writing")
    /\ UNCHANGED <<nodes, readers, at, faults>>

\* write(), or delete_datawriter(), reaches one more reader of this process.
Reaches(u, r) ==
    /\ pc[u] = "writing" /\ r \in op[u].todo
    /\ op' = [op EXCEPT ![u].todo = @ \ {r}]
    /\ IF op[u].kind = "publish" THEN SamplesArrive(u, r, {op[u].key}, 1, "here")
       ELSE SourceLeaves(u, r, "here")
    /\ UNCHANGED <<mtx, nodes, readers, made, faults>>

WriteReturns(u) ==
    /\ pc[u] = "writing" /\ op[u].todo = {} /\ Returns(u)
    /\ UNCHANGED <<nodes, readers, at, made, faults>>

\* Mutant: the destructor forgets the reader.
ReaderKept(r) == readers

\* A reader with samples on loan is not deleted.
ReaderDeleted(r) == IF at[r].lent = {} THEN readers \ {r} ELSE readers

\* ~FastDDSNode(): delete_datareader() takes the mutex of the reader, and so waits for a
\* running listener; delete_data() and the listener's own end follow.
DeleteNode(u, r) ==
    /\ pc[u] = "deleting" /\ op[u].reader = r /\ at[r].holder = Null
    /\ readers' = ReaderDeleted(r) /\ nodes' = nodes \ {r}
    /\ at' = [at EXCEPT ![r].data = Null]
    /\ Returns(u)
    /\ UNCHANGED <<made, faults>>
-----------------------------------------------------------------------------
Runs(t) ==
    \/ \E r \in Readers : Listener(t, r)
    \/ /\ t \in Users
       /\ RequestLocks(t) \/ WriteReturns(t) \/ \E r \in Readers : Reaches(t, r) \/ DeleteNode(t, r)

Next ==
    \/ \E u \in Users : Requests(u)
    \/ \E t \in Receivers, r \in Readers : Receive(t, r)
    \/ \E t \in Threads, r \in Readers :
          TakeFails(t, r) \/ CopyFails(t, r) \/ CallbackRequests(t, r)
    \/ \E t \in Threads : Runs(t)

Spec == Init /\ [][Next]_vars

\* Threads run and callbacks return. The mutexes are not fair, but each is always released,
\* and a write or a deletion ends.
FairSpec == Spec /\ \A t \in Threads : WF_vars(Runs(t))
-----------------------------------------------------------------------------
\* Every variable has its type; a callback is told of samples only, not of notices.
TypeOK ==
    /\ mtx \in Users \cup {Null}
    /\ pc \in [Threads -> {"idle", "locking", "writing", "deleting", "taking", "giving",
                           "callback", "nested"}]
    /\ op \in [Users -> [kind : {"none", "publish", "withdraw", "delete"}, key : Keys \cup {Null},
                         reader : Readers \cup {Null}, todo : SUBSET Readers]]
    /\ nodes \subseteq Readers /\ readers \subseteq Readers
    /\ at \in [Readers ->
          [holder : Threads \cup {Null}, left : SUBSET Sources, loaned : BOOLEAN,
           writers : [Keys -> SUBSET Sources], late : SUBSET Keys,
           history : SUBSET Items, queue : SUBSET Items, lent : SUBSET Items,
           data : Items \cup {Null}, seen : (Keys \X (Nat \ {Notice})) \cup {Null},
           arrived : [Keys -> Nat], told : [Keys -> Nat]]]
    /\ made \in 0..MaxSamples /\ faults \in 0..MaxFaults

\* What a callback has been given stays valid until it returns: on loan, or alone in data_,
\* of a node that exists (src/YomkRpc/README.md:193, FastDDSNode.cpp:21).
PointerValid ==
    \A r \in Readers : at[r].seen # Null =>
        r \in nodes /\ (at[r].seen \in at[r].lent \/ at[r].data = at[r].seen)

\* A listener that returns has given every loaned sample back, and the callback has been told
\* of the newest sample of every instance, lent or copied, overwritten ones left out. Only a
\* copied take that fails leaves one behind (FastDDSNode.cpp:62): it waits in the reader for
\* the next notification, and is lost when the writers of its instance go before.
NothingHeldBack ==
    \A r \in readers : at[r].holder = Null =>
        /\ at[r].lent = {}
        /\ \A k \in Keys :
              \/ at[r].told[k] = at[r].arrived[k]
              \/ /\ k \in at[r].late
                 /\ <<k, at[r].arrived[k]>> \in at[r].history \/ at[r].writers[k] = {}

\* A callback that begins gets the newest sample of its instance, and a later one than every
\* callback before: none is told twice or after its successor, from the loan loop to the
\* copying one and over failed takes, batches and sources that come and go.
NewestOnly ==
    [][\A r \in Readers : at'[r].seen \notin {at[r].seen, Null} =>
          LET i == at'[r].seen IN i[2] = at[r].arrived[i[1]] /\ i[2] > at[r].told[i[1]]]_vars

\* When deleteNode() has returned, the callbacks of the node run no more.
NoCallbackAfterDelete ==
    readers \subseteq nodes /\ \A r \in Readers : at[r].holder # Null => r \in nodes

\* A request returns, even while listeners run on its thread or in its way, as long as no
\* callback makes a request itself.
RequestsReturn ==
    \A u \in Users : pc[u] # "idle" ~> pc[u] = "idle" \/ \E t \in Threads : pc[t] = "nested"
=============================================================================
