# Verification of YomkExtensions

TLA+ models, TLC runs and TLAPS proofs about the first-party code of this repository:
`src/YomkRpc` (a Fast DDS node and the RPC-style service in front of it) and `src/YomkROS2` (a
thread-safe ROS 2 node with topics, parameters, services and actions). Everything else in the tree is
vendored (Fast DDS headers and libraries), generated (`YomkRpcMsg*`), example code or documentation.

## 1. Inventory

### ROS2Node (`src/YomkROS2`)

| Part | State | Operations | Interacts through |
|---|---|---|---|
| Life cycle | `node_`, `executor_`, `spinThread_`, `initialized_`, `running_`, `ownRclcppInit_` | `init`, `run`, `shutdown`, destructor | the process-wide rclcpp context; `mtx_`; `spinExitedCv_`; the executor's own spinning flag |
| Topics | `pubTopics_`, `subTopics_`, types, one callback group per subscription | `registerPubTopic`, `registerSubTopic`, `publish` | executor threads run callbacks, which publish |
| Parameters | `paramCallbacks_`, `paramCallbackNextId_`, `paramClients_` | declare/get/set/has/undeclare/list, on-set callbacks, remote get/set/has/list | set callbacks run under `mtx_` for a local set, on an executor thread for a remote one; remote calls wait 10 s + 1 s with `mtx_` held |
| Services | `serviceServers_`, `serviceClients_`, types, groups | `createService`, `createServiceClient`, `callService` (synchronous), `callServiceAsync` | `callService` holds `mtx_` for up to 6 s while it waits for an answer that an executor thread delivers |
| Actions | `actionServers_`, `actionClients_`, `actionActiveGoals_`, `actionGoalNextId_` | `createAction`, `createActionClient`, `callActionAsync`, `cancelGoal`, `cancelAllGoals`, `cancelGoalsBefore` | native goal-response, feedback and result callbacks on executor threads, cancel service of the action server |

### YomkRpc (`src/YomkRpc`)

| Part | State | Operations | Interacts through |
|---|---|---|---|
| YomkRpcService | `nodes_`, `mtx_` | `createNode`, `deleteNode`, `registerPubTopic`, `registerSubTopic`, `publish`, `loan`, `discardLoan` | holds `mtx_` over every call into a node |
| FastDDSNode | participant, publisher, subscriber, `topics_`, `pubs_`, `subs_`, types | `setDomainId`, `registerPubTopic`, `registerSubTopic`, `publish`, `loan`, `discardLoan`, destructor | Fast DDS entities with reference rules; ownership of type objects and of loaned samples |
| SubListener | `loanSupported_` | `on_data_available`: loaned and copied takes | the reader's history; user callbacks on a Fast DDS thread |

### What is hard

* Interleaving: `run()` and its thread read `executor_` outside `mtx_`; `shutdown()` releases `mtx_`
  between its steps; `callActionAsync` publishes a goal id before the goal is known to be accepted.
* Locks held over waits: synchronous ROS 2 calls wait with `mtx_` held; `YomkRpcService` deletes and
  writes with its mutex held while listeners may call back into it.
* Partial failure: an `init` that throws half-way; DDS entities created one by one and rolled back;
  deletes whose return codes are ignored.
* Ownership: type objects, loaned samples, the process-wide rclcpp context.
* Exactly-once promises: each goal gets one response and one result callback.

### What would make each part correct

| Part | Properties |
|---|---|
| Life cycle | no executor dies under a spin; `shutdown()` ends the spin it finds and returns; sessions do not mix; the context is shut down once, by its owner |
| Topics | a `publish()` under way uses a living publisher of its type; one topic's messages are in order; sessions do not mix; a topic does not wait for another's callbacks |
| Parameters | no value that a registered callback rejects is set; a handle removes the callback it was given for and no other; a removed callback is over; calls return |
| Services | every call returns; a service that answers is heard; callbacks do not hold each other up; `shutdown()` leaves no callback behind |
| Actions | one response and one result per goal, in order; cancelling is safe at any moment |
| YomkRpcService, FastDDSNode | a request takes its whole effect or, but for a registered type, none; maps and DDS entities agree; a deleted node leaves nothing |
| SubListener | every loan is given back; the newest sample of each instance reaches the callback, and none older after it; what a callback sees is valid; none runs for a deleted node; requests return |

## 2. Modules and plan

| Module | Models | State |
|---|---|---|
| `NodeSession` | what a session of the node promises its parts (abstract) | done |
| `NodeLifecycle` | life cycle, to the end of the object; refines `NodeSession` for one controller | done |
| `NodeLifecycleProofs` | theorems about it | all its safety properties proved, some under named conditions |
| `NodeTopics` | topics: registration, `publish()`, the workers and their callbacks, sessions; refines `NodeSession` | done |
| `NodeTopicsProofs` | theorems about it | all its safety properties proved |
| `Parameters` | parameters, set callbacks, remote parameter calls; refines `NodeSession` | done |
| `ParametersProofs` | theorems about it | all its safety properties proved |
| `ServiceCall` | services, synchronous calls, the workers of the executor, `shutdown()`; refines `NodeSession` | done |
| `ServiceCallProofs` | theorems about it | all its safety properties proved |
| `ActionClient` | the action client, and an action server as its environment; refines `NodeSession` | done |
| `ActionClientProofs` | theorems about it | all its safety properties proved |
| `RpcRegistry` | what `YomkRpcService` promises (abstract) | done |
| `RpcService` | `YomkRpcService` and `FastDDSNode`, refines `RpcRegistry` | done |
| `MCRpcService` | `RpcService` with its symmetry, for TLC | done |
| `RpcServiceProofs` | theorems about it | all its properties proved, the refinement included |
| `RpcDelivery` | `SubListener` on the threads that run it, under the requests that publish and delete | done |
| `RpcDeliveryProofs` | theorems about it | all its safety properties proved |

`NodeSession` is what holds the models of `ROS2Node` together. Topics, parameters, services and
actions are modelled apart, each with its own short `stage`; `NodeLifecycle` has the seven sections of
`shutdown()` in full. That each of the five implements `NodeSession` says that the short form is one
that the long form justifies, and that the parts may be put side by side.

To come: the registration map of the action server, if a property about it is found that those of
`ServiceCall` (the same code for services) do not say already.

There is one passing run per component, the largest that finishes in about two minutes, and one run
per disagreement found between code and documentation. Weaker versions of a run are not kept.

## 3. How modules correspond to the code

The line-by-line correspondence is the `map` of `PROJECT.json`. In outline:

**Atomicity.** A section of code that holds `mtx_` (or `YomkRpcService::mtx_`) and does not wait in it
is one action. What happens outside the mutex, or during a wait with it, is an action of its own. So
`shutdown()` is seven steps in `NodeLifecycle` (`step[t]`), `callService()` is `CallLocks`,
`CallSends`, `CallAnswered` or `CallTimesOut`, a native action callback is two actions (update of
`actionActiveGoals_` under `mtx_`, then the user's callback), `publish()` two (`PublishFinds` under
`mtx_`, `PublishSends` after it), and a request to `YomkRpcService` is one in `RpcService`. In
`RpcDelivery`, where listeners run inside such a request, it is one action for the lock, one for each
reader reached and one for the return.

**NodeLifecycle.** `initialized`, `running`, `executor`, `spinThread`, `ownInit` are the members;
`entities` stands for all the maps, by the session whose entities they hold; `local[t]` are the local
variables of `shutdown()`. `executor_` is read when a spinner leaves phase `call` (`SpinLoad`):
nothing holds `mtx_` there. `spinFlag` is the executor's own flag, set on entry to `spin()` and
cleared by `cancel()`. When the spin is over, `running_` is cleared under `mtx_` (`SpinReturn`) and
the waiters are notified without it (`SpinNotify`). `contextOf` says who made the process-wide
context. `Destroy` ends the object: an owner whose own `shutdown()` has returned. `failure` records
how the process or the object ended (`spin()` on a null pointer; assignment to a joinable thread;
destruction with another thread inside a function of the node; in order).

**NodeSession.** `stage` is "up" while `initialized_` is true, "closing" while a thread is inside
`shutdown()`. `busy` says that the spin, or a callback of the part in question, is running, `held`
that the members of this part hold something. Work begins only in a node that is not down, members
are registered only in one that is up, and go only when it closes and no work is left.

**NodeTopics.** `pub`, `pubType`, `subs` are `pubTopics_`, `pubTypes_`, `subTopics_`. Publishers are
numbered as they are made, and `alive` are those that a map or a call still holds by a shared pointer;
`call[t]` is the local variable of `publish()`. `job[w]` is the callback a worker runs, `GroupFree`
the mutually exclusive group each subscription has, `queue` the subscription's history of depth
`QueueSize`, which drops the oldest message when it is full. `ShutdownEnds` waits for the workers,
which is what the steps of `shutdown()` in `NodeLifecycle` come to (`NodeSession`). `era` is the
session each message was sent in, which is that of its `PublishSends`: a `publish()` that found its
publisher in one session may send in the next.

**Parameters.** There is one parameter, of several values. `mtx` is `mtx_`, `params` the mutex that
rclcpp holds while it changes parameters and asks the set callbacks. A local set has both, the set
request of another node, served by a worker, only the second. A callback is known by the order in
which it was added (`n`), a handle by its id (`given[n]`); `handles` is `paramCallbacks_`,
`registered` what rclcpp still has, which is weaker than the handle in `paramCallbacks_`: it keeps a
weak pointer. `setRemoteParam()` stands for the four remote calls: they seek the service, send, and
wait with `mtx_` held. While `shutdown()` is under way, `removeOnSetParamCallback()` only drops the
handle (`ROS2Node.cpp:240`).

**RpcService.** `nodes` is `nodes_`, `fields` the maps of each `FastDDSNode`, `buffers` the results of
`create_data()`, `dds` the entities that exist in the middleware with its rule that an entity in use
cannot be deleted. Every create call may fail. `types` are the types registered with participants:
`register_type()` comes first in a registration (`FastDDSNode.cpp:179`, `219`), and nothing that fails
after it takes the type back. `taken` says whether the request has used up the caller's type object.
The mapping to `RpcRegistry` takes the endpoints from
`dds`, not from the maps: what is promised has to exist. An object is reused after its node is deleted
only if nothing of it is left, as with addresses.

**RpcDelivery.** `at[r]` is a reader with its listener: `holder` is the thread inside
`on_data_available()` (Fast DDS holds the reader's mutex meanwhile), `history` what can be taken. The
reader has `DATAREADER_QOS_DEFAULT` (`FastDDSNode.cpp:238`), which keeps the newest sample of each
instance and no other: samples are numbered by instance, `arrived` is the newest that came and `told`
the last the callback was told of. `loaned` is `loanSupported_`, `lent` and `queue` the loaned sequence,
`data` is `data_`. A loaned take that fails turns the listener to copied ones for good (`TakeFails`); a
copied one that fails ends it, with the instances it leaves behind in `late` (`CopyFails`,
`FastDDSNode.cpp:62`). The listener runs on a thread of Fast DDS for samples of other processes
(`Receive`) and on the publishing thread, under the service's mutex, for samples of this one
(`Reaches`). The writers of a topic are the one of this process and those of others; when both are gone
the instance is no longer alive and what is left in the history is not given to the callback (`Gives`,
the check at `FastDDSNode.cpp:34`). `DeleteNode` waits for the reader's mutex, and Fast DDS keeps a
reader with loans.

**ActionClient.** `client`, `clientType`, `nextId`, `active` are the members; `phase[g]` is how far
the native callbacks of a goal are, `told[g]` what the user heard (`broken` once the order of
`ROS2Node.h:169-173` is broken), `server[g]` the goal at a server that rejects, executes at once or
defers, finishes, cancels, crashes and loses what it has not sent. A deferred goal is executed later or
cancelled before. Goals and client entities are numbered, so that a handle of a client that was
replaced can be told from one of its successor.

**ServiceCall.** A thread is an application thread or a worker of the `MultiThreadedExecutor`;
`job[w]` is the callback a worker runs, `op[t]` the call a thread makes. `Using` and `Calling` say
which callbacks call back into the node. `GroupFree` and `ClientFree` are the mutually exclusive
callback groups. A time-out may come at any moment if `patient` is false; if it is true, only when
nothing that could bring the answer can happen (`Stuck`): such a time-out is one that no faster
machine would have avoided. `NodeLifecycle` looks at the same `shutdown()` with the spin in detail and
no callbacks; here the spin is its workers.

## 4. Runs

| Run | Shows | States |
|---|---|---|
| `lifecycle_serial` | with one thread that calls `init()` and `shutdown()` and one that runs the spin and registers entities: no entity outlives its session, the context is released, and only by its owner until a context is lost from outside, `spinThread_` is free unless such a loss ended its spin, a `shutdown()` that starts when no thread is on its way into `spin()` returns and ends the spin, and the object may end after it | 4 989 |
| `lifecycle_overlap` | with three controllers (one of them a signal handler on top of a spinning thread), throwing constructors, a lost context: no executor is destroyed under a spin | 190 689 |
| `lifecycle_early_shutdown` | **violated**: `run()` passes its check, `shutdown()` resets `executor_`, `spin()` is called on null | |
| `lifecycle_lost_cancel` | **violated**: `cancel()` falls between the call of `spin()` and the flag it sets: `shutdown()` never returns | |
| `lifecycle_destroyed` | **violated**: a second `shutdown()` answers true while the first still runs, and its caller ends the object under the first | |
| `topics_publish` | `publish()` uses a publisher that lives and is of its type, over `shutdown()` and a second session with another type; a topic's callbacks neither overlap nor overtake one another; nothing of a session outlives it, and its callbacks get messages sent in it; a message does not wait for a callback of another topic that never returns | 58 194 |
| `parameters_calls` | no rejected value is set, a removed callback runs no more, handles (removed, or of an earlier session) remove no other callback, calls return | 199 705 |
| `service_calls` | answers reach a `callService()` that holds `mtx_`, asynchronous answers come, calls and `shutdown()` return, and the node keeps its sessions (`NodeSession`): `shutdown()` waits for callbacks, which may be in calls of the node | 102 144 |
| `action_goals` | callbacks in order, `actionActiveGoals_` as promised, cancelling safe, and a goal the server answers finishes | 142 268 |
| `action_replaced` | **violated**: a replaced client is given the handle of another | |
| `rpc_requests` | maps and entities agree, topics live as long as they are used, failures leave a registered type at most, leaks only with a loan, and the service implements `RpcRegistry` | 20 358 |
| `rpc_delivery` | what a callback sees is valid, loaned or copied; it is told of the newest sample of each instance, and never of an older one after it, though takes of both kinds fail; loans go back; `deleteNode()` leaves no callback; requests return | 266 207 |

`lifecycle_overlap` does not check what `lifecycle_serial` does: with two threads inside `init()` and
`shutdown()` at once these properties fail (a second session starts between the sections of a
`shutdown()`, which then clears its maps: `ROS2Node.cpp:113-142`). The header says nothing of
concurrent `init()` and `shutdown()`, so the serial run is the one that states the promise.
`lifecycle_destroyed` is about two calls of `shutdown()`, which the README of the component shows.

Properties with a boundary worth knowing:

* `AnswerInTime` holds in `service_calls` because callbacks that need `mtx_` come from one topic, which
  occupies at most one of the two workers; it is proved for fewer such topics than workers
  (`EnoughWorkers`). It fails, with the answer arriving only after the time-out,
  when such callbacks can occupy every worker (two topics and two workers), or when the service is
  local and its own callback calls the node: it then waits for the mutex that its caller holds.
* `DestroyedAtRest` leaves out a blocking `run()` that has still to notify: it does so after it has
  released `mtx_` (`ROS2Node.cpp:70`), so an owner whose `shutdown()` sees `running_` false may
  destroy the condition variable first. The background thread is joined and has no such gap.
* `NoCallbackAfterRemove` leaves out a removal during `shutdown()`, which drops the handle and does not
  wait for a running callback.
* `OnlyOwnContext` and `SpinThreadFree` let go once a context has been brought down from outside, and
  that is the only way; section 8 has what happens then.
* `NothingHeldBack` leaves out the instances whose sample a failed copied take has left in the reader:
  it waits there for the next notification, and is dropped (`FastDDSNode.cpp:34`) if the writers of its
  instance go first.
* `SessionsApart` (topics) counts a message for the session in which it is sent. A `publish()` that
  found its publisher in one session and sends in the next does reach callbacks of the next.
* `RequestsReturn` leaves out callbacks that make a request of the service themselves. They deadlock:
  such a callback waits for the service's mutex, `deleteNode()` holds it and waits for the callback
  (`YomkRpcService.cpp:57`), and a delivery on the publishing thread has it already (`:112`).
* `NotStarved` needs a worker for each callback that never returns, and one more.

## 5. Bounds and fairness

| Bound | Value | Why enough |
|---|---|---|
| `MaxSessions` | 2 | every cross-session error needs one old and one new session |
| `MaxContextDowns` | 1 | one loss reaches every combination of flags; a second loss repeats them |
| threads in `lifecycle_overlap` | 4 | two overlapping shutdowns, an `init()` between them, a spinner |
| `Names`, `TopicNames`, `Types`, `Objects` | 2 each | clashes need two; one of the types is plain, one is not |
| `PoolSize` | 1 | reaches the empty and the exhausted pool; more only repeats |
| `MaxGoals`, `MaxClients` | 2 | two goals of one action, under one client, a replaced one, or one per session |
| `MaxCrashes` | 1 | a crash before, between and after the answers of both goals |
| `ServiceCall`: `MaxCalls`, workers | 2 | a call in flight beside another call; callbacks that take one worker and leave one |
| `ServiceCall`: `MaxMessages` | 1 | one message is enough to occupy the topic's group |
| `Parameters`: `MaxCalls`, `MaxAdds`, `MaxRemote`, `MaxServed` | 5, 2, 1, 1 | declare, add, remove or restart, add again, set: the longest history a stale handle needs; a served set beside it; one remote call under `shutdown()` |
| `RpcDelivery`: `MaxSamples`, `MaxBatch`, `MaxFaults` | 2, 2, 2 | a sample that overwrites one or comes after it, one of each source; a loaned take that fails and then a copied one |
| `RpcDelivery`: `Keys` | 1 | instances do not touch one another but in a common take; the proofs are for any number |
| `RpcDelivery`: readers | 2 | a write that has reached one reader and not the other; one is also matched with other processes |
| `NodeTopics`: `MaxMessages`, `QueueSize`, `MaxEntities` | 3, 1, 2 | a message running, one waiting, one that overwrites it; a publisher of each session or type |

`rpc_requests` uses the symmetry of names, topic names and objects: it checks no liveness, and its
properties do not tell them apart. The other runs check liveness or have small sets, and use none.

Fairness, each weak:

* a thread inside `shutdown()`, `run()` or `spin()` goes on (the scheduler runs threads); nothing makes
  a thread call `init()`, `run()` or `shutdown()`, nor a context go down;
* an executor runs callbacks that are ready (it waits for any of its entities and `cancel()` is the
  only thing that stops it), for `NodeTopics` those of each topic whose group is free: the executor
  goes round its entities;
* a thread that waits for `mtx_` gets it in the end: in the bounded model it can be free only finitely
  often in between, so weak fairness says no more than that the mutex does not stay free unused. The
  same holds for the mutex of `YomkRpcService` and those of the readers;
* a server that is up answers, or is dead: `RemoteAnswers \/ RemoteDies`, `ServerAnswers`,
  `ServerFinishes`; a deferred goal is executed in the end. Nothing makes a dead server answer, and
  nothing at all is asked of another node's parameters;
* a user's callback returns, except those of the topics in `Slow`. Calls of the node are not forced,
  except those already begun.

## 6. Proofs

Every theorem holds for all values of the constants under the module's one assumption (sets are
disjoint where the code distinguishes them, bounds are natural numbers) and, where one is named, under
a condition on how the node is used. The conditions are those without which the property is false.

**`NodeLifecycleProofs`: whatever calls overlap.** `ExecutorOutlivesSpin` is not inductive: nothing in
it connects the executor a `shutdown()` destroys with the ones in use. The invariant `IInv` adds
`RunningIsToken` (whoever is between the check in `run()` and its end holds `running_`, alone),
`ExecutorsNumbered` (an executor is that of a session so far; the one in `executor_` is alive),
`TakenForGood` (an executor moved into a local of `shutdown()` is never `executor_` again) and
`WaitedForSpin` (past its wait, a `shutdown()` holds an executor nobody uses). The last is what makes
`reset()` safe. It is kept because a new spinner can load only `executor_`, which by `TakenForGood` is
another one. `LifecycleTyped` is type correctness. Two theorems about the rclcpp context need no more
than that, for any overlap: `ContextIsReleased`, unless a node constructor throws (`OwnedContext`: a
context that the node made has an owner, `ownRclcppInit_` or the `shutdown()` that took it), and
`OnlyOwnContextGoes` (`OneOwner`: until something else brings a context down there is one owner at
most, and what it owns is the context that is up). Section 8 says what happens otherwise.

**`NodeLifecycleProofs`: one controller.** The other properties assume `OneController`: one thread calls
`init()` and `shutdown()`, while any others spin, register and end. `SessionsApart` then says that a
thread inside `shutdown()` is alone there and no session begins beside it, and that past each section
what it cleared stays cleared. It gives `EntitiesNeverStale` and `LiveEntitiesAreKept`. `ThreadsJoined`
(a background thread that has begun is in `spinThread_`, or in the local of a `shutdown()` that has
still to join it) gives `DestroyedWhenAtRest`. `SpinGoesOn` gives `SpinThreadIsFree`: `spinThread_`
holds a thread of the current session only, and by `UndisturbedSpin`, while no context was lost, that
spin uses the session's executor, whose flag stays set, and does not end by itself. What is left is the
history of section 8 in which SIGINT ends a spin, and only that.

**Sessions.** `LifecycleKeepsSession` (with one controller), `TopicsKeepSession`,
`ParametersKeepSession`, `SessionIsKept` (services) and `ActionsKeepSession` prove that each model
implements `NodeSession`. Four of them classify the steps of their model by what they do to the
stage and to the members (`StageMoves`); `service_calls` checks the one of services too. For the
workers it is enough that none runs in a node that is down. What has to be found is why the thread that
ends `shutdown()` ends the session that it closed: `OneCloses` (one thread waits in `shutdown()`, and
then the node closes), or `SessionsApart`. For parameters a worker may complete a set while the node
closes: `Served` says that it then sets what was declared.

**`NodeTopicsProofs`.** The depth of the queues and the numbers of threads, topics and sessions are
arbitrary. `IInv` adds to the type invariant: `Counted` (the calls under way, a finite set, leave room
for their messages, which bounds `sent`); `Registered` (a publisher in the map lives and was made for
its topic with the type beside it) and `Found` (the same for what a call has found), which keep each
other through `Released` and `KeptByCalls` and give `PublishersLive`; `Alone` (a topic has one worker at
most) and `Ordered` (told and queued messages ascend, and all told precede all queued), which give
`TopicsInOrder`; `Apart` (a node that is down has no subscription, callback or message) and `Current`
(what waits or runs was sent in this session), which give `SessionsEnd`. Three lemmas about sequences
carry `Ordered`: what the bounded queue keeps is a suffix (`QueuedIsSuffix`), appending the newest keeps
it ascending (`AscendingQueued`), and taking the oldest keeps told before queued (`AscendingTaken`).

**`ActionClientProofs`.** `IInv` adds to the type invariant: `Numbered` (used goal ids are below
`actionGoalNextId_`, cached clients are among those made, and a goal sent by the cached client has its
type), `Phased` (what the user was told agrees with the callbacks that have run), `ActiveRunning`
(an active goal is one whose response came and whose result did not, under its own action) and
`HandlesKnown` (if clients are not replaced, an active goal is one of the cached client's). From it
follow `CallbacksInOrder`, `ActiveGoals` and `CancelSafe`. `CancelSafe` assumes
`Precreate # "any"`: the application makes a client before its first goal, and not again. Without
this assumption it is false, which is what `action_replaced` shows.

**`ServiceCallProofs`.** `IInv` is the type invariant with `Fitting` (a call carries what its
operation needs). `NoWorkAfterShutdown` is inductive beside it: the node goes down only when every
worker is idle, and a worker takes no callback in a node that is down. `AnswersComeInTime` is the
statement that `callService()` may hold `mtx_` while it waits: it gives up only on a request that its
server lost. It assumes `EnoughWorkers`: only callbacks of topics call the node, and there are fewer
such topics than workers. `AInv` adds `Numbered` (calls have numbers, and requests, of their own),
`Held` (who waits holds `mtx_`), `Awaited` (what is waited for was sent to a service that is there, by
the client that is cached), `Working` (which worker has which callback; groups are exclusive) and
`Blocked` (a worker inside a call of the node runs a callback of a topic in question). When a patient
call times out, nothing else can move (`Stuck`), so every busy worker is blocked; by the pigeonhole
principle (`IdleWorker`) one is idle, and it would bring the answer if there were one
(`StuckIsLost`).

**`ParametersProofs`.** `IInv` adds to the type invariant: `Holding` (a call inside the node holds
`mtx_`, in a node that is up; whoever sets the parameter holds the mutex of the parameters),
`Registry` (ids are never given twice, so the callback with id n is the n-th; `paramCallbacks_`,
rclcpp's list and what users want agree; none of them is over; a node that is down has none) and
`Vetted` (what is being set has passed every registered callback but those still ahead). They give
`CallbacksAreWanted`, `NoneAfterRemove` (a removal waits for the mutex that a running callback's set
holds) and `VetoIsRespected`. `MaxIsMember`, by well-founded induction, is what "the newest callback is
asked first" rests on. The module assumes that there is at least one session, as the model begins in
one.

**`RpcServiceProofs`.** `IInv` is the conjunction of the checked invariants and of what they need:
`NamesApart` (a name has an object of its own), `Contained` (what exists in Fast DDS exists inside what
it needs), `OneType` (a participant has one topic of a name), `LoansHaveWriters` (a sample on loan has
its writer) and `BuffersLive` (a deleted node has left no buffer). The hard steps are those where Fast
DDS calls fail. `DestroyedEffect` says what the destructor leaves, given that the node's maps name its
endpoints. `CreateFailsSame` and `RollBackSame` use `TopicsInUse` and `OneType` to show that a request
that failed took back exactly what it had made but the type, which gives `FailuresUndone`. `DeleteKeeps`
shows that after a delete the topics left are those of the endpoints left, which gives `LeaksHaveLoans`.
`RegistryImplemented` then maps each request to one step of `RpcRegistry`: because names have their own
objects and topics one type, the endpoints in Fast DDS change by exactly the one that was registered, or
by those of the node that was deleted.

**`RpcDeliveryProofs`.** `IInv` adds to the type invariant: `Holding` (a thread runs the listener of
one reader at most, one that exists), `Locking` (a request that has begun has the service's mutex, and
what it writes to exists), that a reader's node exists, and `Sound` for each reader at each point of
its listener: `Flow` (what is taken or in the history is the newest of its instance and newer than what
was told, and the newest was told, or is there, or was left by a failed take and lost its writers),
`Backed` (what is taken, and what the callback looks at, is on loan or in `data_`) and `Settled` (a
listener that has returned has given its loans back and left nothing in the history but what a failed
take left). They give `PointersValid`, `NothingIsHeldBack`, `OnlyNewestTold` and `NoneAfterDelete`, for
any numbers of threads, readers, instances, samples, batches and failures.

Only model-checked: liveness (`SettledShutdownReturns`, `AnsweredGoalFinishes`, `AsyncAnswered`,
`EveryCallReturns`, `RequestsReturn`, `NotStarved`), which is out of the prover's reach. Every safety
property that a passing run checks is a theorem. `LiveEntitiesAreKept` is proved and no run checks it.

## 7. Not modelled

* Most of the tree by size: the Fast DDS and Fast CDR headers and libraries, and the generated
  `YomkRpcMsg*` files, which hold no logic of this repository. They make up nearly all of its lines,
  so the map covers a small share of them and most of the first-party code.
* Time itself. Time-outs are possible steps, not durations.
* An action server that dies between `wait_for_action_server()` and the sending of the goal
  (`ROS2Node.h:755`) leaves a goal without callbacks; no property covers it because the code has no
  answer to it.
* What `declareParam()` returns: see section 8.
* Discovery: a client made while the node spins may miss answers, as the header warns
  (`ROS2Node.h:117-120`); in the models it does not.
* The registration map of the action server (`createAction`), which is that of `createService` with
  another template. The server itself is the environment of `ActionClient`.
* Serialisation, QoS other than the depth of a history, message contents; the macro headers, which wrap
  one call each. rclcpp and Fast DDS appear as far as the code relies on them; those definitions are
  marked external in the map.

## 8. Seen while modelling, without a run

Life cycle:

* If the node's constructor throws in `init()`, the context that `rclcpp::init()` made stays up and
  `ownRclcppInit_` is false: the next successful `init()` takes it for the application's.
  `ContextReleased` is checked with constructors that do not throw.
* When the context made by the node goes down (SIGINT) and the application makes one of its own,
  `ownRclcppInit_` is still true, and `shutdown()` brings down the application's.
  `OnlyOwnContext` says that this needs such a loss.
* After SIGINT has ended a background spin, `running_` is false and `spinThread_` still joinable: a
  second `run(false)` assigns to it (`ROS2Node.cpp:52`) and the process ends, where
  `ROS2Node.h:44-46` speaks of a boolean answer. `SpinThreadFree` says that this is the only way.
* `shutdown()` called on the spinning thread waits at `ROS2Node.cpp:105` for itself. `ROS2Node.h:46`
  forbids it; `src/YomkROS2/README.md:176`, which lets a signal handler call `shutdown()`, does not
  say so.

Parameters and services:

* `declareParam()` returns the default although an override has given the parameter another value
  (`ROS2Node.h:350-351`; line 67 says that it returns the current value), and it throws if the
  override has another type or a set callback rejects it.
* A set callback must not call the node (`ROS2Node.h:75`): a local set runs it with `mtx_` held.
* A callback that is blocked in `callService()` has `mtx_`, and so holds up callbacks of other topics
  that need it (`ROS2Node.h:565`), although each topic has its own group so that they do not wait for
  one another (`ROS2Node.h:111`, `ROS2Node.cpp:31`).
* A request to a service that times out stays in the client's table of pending requests, and nothing
  removes it.

Actions:

* `createAction()` hands `executeCallback` to rclcpp_action as the accepted callback, which rclcpp_action
  calls at acceptance for `ACCEPT_AND_DEFER` too, while `ROS2Node.h:143-144`, line 670 and
  `src/YomkROS2/README.md:56` say that a deferred goal does not run it. The deferred test gets its
  goal handle from that very call (`TestYomkROS2Action.cpp:173-177`, `302-310`). The server in the
  model starts a deferred goal at any time, which includes both.
* `cancelGoal()` before the goal response answers false for a goal that will run (`ROS2Node.h:828`
  against `189-190`).
* A goal whose server dies after `wait_for_action_server()` gets neither response nor result, which
  `ROS2Node.h:169-171` promises. `AnsweredGoalFinishes` states what does hold.
* `cancelGoalsBefore()` answers true if any goal is active, older than the stamp or not.

YomkRpc:

* A node deleted with a sample on loan leaves writer, topic, publisher and participant behind, and the
  answer is eOk (`FastDDSNode.cpp:110`; `src/YomkRpc/README.md:13` promises that they are destroyed).
  `LeakOnlyWithLoan` says that this is the only way.
* `src/YomkRpc/README.md:96` says that the type object passes to the node on registration. On an early
  failure (`FastDDSNode.cpp:171-174`) nobody takes it. On a later one (`FastDDSNode.cpp:185-200`,
  `224-250`) the participant keeps it, though the registration failed and nothing uses the type;
  `FailedRequestLeavesOnlyType` says that nothing else is left.
* A copied take that fails (`FastDDSNode.cpp:62`) ends the listener without a word; what is in the
  reader waits until something else arrives.
