---------------------------- MODULE NodeLifecycle ----------------------------
(***************************************************************************)
(* The life cycle of yomk::ROS2Node: init(), run(), shutdown() called by   *)
(* any number of application threads, the spin they start, and the         *)
(* process-wide rclcpp context they share with the rest of the process.    *)
(*                                                                         *)
(* Every section of the code that holds mtx_ is one action; everything it  *)
(* does outside mtx_ (reading executor_, entering and leaving spin(), the  *)
(* steps of shutdown() after its first section) is an action of its own.   *)
(* Executors, and the background threads, are numbered by the session (the *)
(* successful init()) that made them; 0 is a null pointer.                 *)
(***************************************************************************)
EXTENDS Integers

CONSTANTS
    Threads,        \* application threads that call the node
    Controllers,    \* those that call init() and shutdown()
    Hosted,         \* those whose calls run on top of a spinning thread (a signal handler)
    Owners,         \* those that end the life of the ROS2Node object
    MaxSessions,    \* bound: successful init() calls
    MaxContextDowns,\* bound: SIGINT, or rclcpp::shutdown() by the application
    UserContexts,   \* the application calls rclcpp::init() itself
    NodeMayThrow    \* the constructor of rclcpp::Node may throw

Sessions == 1..MaxSessions

ASSUME LifecycleAssumption ==
    /\ MaxSessions \in Nat /\ MaxContextDowns \in Nat
    /\ Controllers \subseteq Threads /\ Hosted \subseteq Threads /\ Owners \subseteq Controllers \ Hosted
    /\ UserContexts \in BOOLEAN /\ NodeMayThrow \in BOOLEAN
    /\ Threads \cap (Sessions \cup {0}) = {}

\* Whoever may be inside spin(): a thread in run(true), or a session's background thread.
Spinners == Threads \cup Sessions

Phases == {"out", "call", "enter", "spinning", "left", "notifying", "done"}

Steps == {"idle", "cancel", "wait", "join", "reset", "clear", "context"}

VARIABLES
    initialized,  \* initialized_
    running,      \* running_
    executor,     \* executor_ (and node_, assigned and reset with it)
    spinThread,   \* spinThread_: session of the thread it holds, 0 when not joinable
    ownInit,      \* ownRclcppInit_
    entities,     \* sessions that have entities in the maps of the node
    session,      \* successful init() calls so far
    alive,        \* executors not yet destroyed
    spinFlag,     \* the executor's own "spinning" flag, which cancel() clears
    phase,        \* where each spinner is in its call to spin()
    loaded,       \* the executor each spinner read from executor_
    step,         \* where each thread is in shutdown()
    local,        \* the locals of shutdown(): executor, threadToJoin, ownRclcppInit
    host,         \* the spinner a hosted shutdown() runs on top of, 0 if none
    contextOf,    \* who made the rclcpp context that is up: "nobody" when down
    contextDowns, \* contexts brought down from outside the node
    failure       \* how the process died, or the object ended

flags == <<initialized, running, executor, spinThread, ownInit, entities, session>>
spins == <<alive, spinFlag, phase, loaded>>
calls == <<step, local, host>>
process == <<contextOf, contextDowns, failure>>
vars == <<flags, spins, calls, process>>

NoLocals == [exec |-> 0, join |-> 0, own |-> FALSE]

Init ==
    /\ initialized = FALSE /\ running = FALSE /\ executor = 0 /\ spinThread = 0
    /\ ownInit = FALSE /\ entities = {} /\ session = 0
    /\ alive = {} /\ spinFlag = [e \in Sessions |-> FALSE]
    /\ phase = [x \in Spinners |-> "out"] /\ loaded = [x \in Spinners |-> 0]
    /\ step = [t \in Threads |-> "idle"] /\ local = [t \in Threads |-> NoLocals]
    /\ host = [t \in Threads |-> 0]
    /\ contextOf = "nobody" /\ contextDowns = 0 /\ failure = "none"

\* The thread is in none of the node's functions.
Idle(t) == phase[t] = "out" /\ step[t] = "idle"

InSpin(x) == phase[x] \in {"call", "enter", "spinning", "left"}

RclcppOk == contextOf # "nobody"

-----------------------------------------------------------------------------
(* init(), under mtx_ throughout. *)

MayInit(t) == t \in Controllers \ Hosted /\ Idle(t) /\ ~initialized

\* Mutant: the flag is not recorded when this call made the context.
OwnershipForgotten == FALSE

\* needRclcppInit: this call makes the context.
OwnershipTaken == ~RclcppOk

InitOk(t) ==
    /\ MayInit(t) /\ session < MaxSessions
    /\ contextOf' = IF RclcppOk THEN contextOf ELSE "node"
    /\ ownInit' = OwnershipTaken
    /\ initialized' = TRUE
    /\ session' = session + 1
    /\ executor' = session + 1
    /\ alive' = alive \cup {session + 1}
    /\ UNCHANGED <<running, spinThread, entities, spinFlag, phase, loaded, calls,
                   contextDowns, failure>>

\* rclcpp::init() was done but the constructor of the node throws: ownRclcppInit_ is not set.
InitThrows(t) ==
    /\ MayInit(t) /\ NodeMayThrow
    /\ contextOf' = IF RclcppOk THEN contextOf ELSE "node"
    /\ UNCHANGED <<flags, spins, calls, contextDowns, failure>>

\* Any register / create function: it returns false unless initialized_.
RegisterEntity(t) ==
    /\ Idle(t) /\ initialized
    /\ entities' = entities \cup {session}
    /\ UNCHANGED <<initialized, running, executor, spinThread, ownInit, session,
                   spins, calls, process>>

-----------------------------------------------------------------------------
(* run() and the spin. *)

\* Mutant: run() does not look at running_.
RunAlways(t) == Idle(t) /\ initialized

MayRun(t) == Idle(t) /\ initialized /\ ~running

\* run(true): the calling thread will spin.
RunBlocking(t) ==
    /\ t \notin Hosted /\ MayRun(t)
    /\ running' = TRUE
    /\ phase' = [phase EXCEPT ![t] = "call"]
    /\ UNCHANGED <<initialized, executor, spinThread, ownInit, entities, session,
                   alive, spinFlag, loaded, calls, process>>

\* run(false): assigning to a std::thread that is still joinable calls std::terminate.
RunBackground(t) ==
    /\ t \notin Hosted /\ MayRun(t)
    /\ running' = TRUE
    /\ IF spinThread = 0
       THEN /\ spinThread' = session
            /\ phase' = [phase EXCEPT ![session] = "call"]
            /\ UNCHANGED failure
       ELSE failure' = "joinableThread" /\ UNCHANGED <<spinThread, phase>>
    /\ UNCHANGED <<initialized, executor, ownInit, entities, session,
                   alive, spinFlag, loaded, calls, contextOf, contextDowns>>

\* executor_->spin() reads executor_ without mtx_; null is dereferenced.
SpinLoad(x) ==
    /\ phase[x] = "call"
    /\ IF executor # 0
       THEN /\ loaded' = [loaded EXCEPT ![x] = executor]
            /\ phase' = [phase EXCEPT ![x] = "enter"]
            /\ UNCHANGED failure
       ELSE failure' = "nullExecutor" /\ UNCHANGED <<loaded, phase>>
    /\ UNCHANGED <<flags, alive, spinFlag, calls, contextOf, contextDowns>>

\* spin() sets the executor's own flag, whether or not it was cancelled before.
SpinEnter(x) ==
    /\ phase[x] = "enter"
    /\ spinFlag' = [spinFlag EXCEPT ![loaded[x]] = TRUE]
    /\ phase' = [phase EXCEPT ![x] = "spinning"]
    /\ UNCHANGED <<flags, alive, loaded, calls, process>>

\* spin() returns once cancelled, or when the context is down; nothing runs on top of it.
SpinLeave(x) ==
    /\ phase[x] = "spinning"
    /\ ~spinFlag[loaded[x]] \/ ~RclcppOk
    /\ \A t \in Threads : host[t] # x
    /\ spinFlag' = [spinFlag EXCEPT ![loaded[x]] = FALSE]
    /\ phase' = [phase EXCEPT ![x] = "left"]
    /\ UNCHANGED <<flags, alive, loaded, calls, process>>

\* running_ = false under mtx_ ...
SpinReturn(x) ==
    /\ phase[x] = "left"
    /\ running' = FALSE
    /\ phase' = [phase EXCEPT ![x] = "notifying"]
    /\ loaded' = [loaded EXCEPT ![x] = 0]
    /\ UNCHANGED <<initialized, executor, spinThread, ownInit, entities, session,
                   alive, spinFlag, calls, process>>

\* ... then notify_all() without it, and run(), or the background thread, returns.
SpinNotify(x) ==
    /\ phase[x] = "notifying"
    /\ phase' = [phase EXCEPT ![x] = IF x \in Sessions THEN "done" ELSE "out"]
    /\ UNCHANGED <<flags, alive, spinFlag, loaded, calls, process>>

-----------------------------------------------------------------------------
(* shutdown(). *)

\* Mutant: initialized_ stays true while shutdown() is under way.
StillInitialized == TRUE

\* initialized_ = false comes first: from here on every function of the node refuses.
NoLongerInitialized == FALSE

\* First section: the members are taken into locals. A hosted call occupies a spinner.
ShutdownBegin(t) ==
    /\ t \in Controllers /\ Idle(t) /\ initialized
    /\ \E x \in {0} \cup {y \in Spinners : phase[y] = "spinning"} :
          /\ (t \in Hosted) = (x # 0)
          /\ host' = [host EXCEPT ![t] = x]
    /\ initialized' = NoLongerInitialized
    /\ local' = [local EXCEPT ![t] = [exec |-> executor, join |-> spinThread, own |-> ownInit]]
    /\ ownInit' = FALSE /\ executor' = 0 /\ spinThread' = 0
    /\ step' = [step EXCEPT ![t] = "cancel"]
    /\ UNCHANGED <<running, entities, session, spins, process>>

\* Mutant: shutdown() forgets to cancel the executor.
NotCancelled(e) == spinFlag

\* executor->cancel()
Cancelled(e) == [spinFlag EXCEPT ![e] = FALSE]

ShutdownCancel(t) ==
    /\ step[t] = "cancel"
    /\ spinFlag' = Cancelled(local[t].exec)
    /\ step' = [step EXCEPT ![t] = "wait"]
    /\ UNCHANGED <<flags, alive, phase, loaded, local, host, process>>

\* Mutant: shutdown() does not wait for the spin (a blocking run has no thread to join).
NoWait(t) == step[t] = "wait"

SpinHasStopped(t) == step[t] = "wait" /\ ~running

ShutdownWait(t) ==
    /\ SpinHasStopped(t)
    /\ step' = [step EXCEPT ![t] = "join"]
    /\ UNCHANGED <<flags, spins, local, host, process>>

\* threadToJoin.join(), when there is one
ShutdownJoin(t) ==
    /\ step[t] = "join"
    /\ local[t].join # 0 => phase[local[t].join] = "done"
    /\ step' = [step EXCEPT ![t] = "reset"]
    /\ UNCHANGED <<flags, spins, local, host, process>>

\* executor.reset() destroys the executor: this was the last reference.
ShutdownReset(t) ==
    /\ step[t] = "reset"
    /\ alive' = alive \ {local[t].exec}
    /\ step' = [step EXCEPT ![t] = "clear"]
    /\ UNCHANGED <<flags, spinFlag, phase, loaded, local, host, process>>

\* Mutant: one of the maps is not cleared.
NothingCleared == entities

\* Every map is cleared, whichever session filled it.
Cleared == {}

ShutdownClear(t) ==
    /\ step[t] = "clear"
    /\ entities' = Cleared
    /\ step' = [step EXCEPT ![t] = "context"]
    /\ UNCHANGED <<initialized, running, executor, spinThread, ownInit, session,
                   spins, local, host, process>>

\* Mutant: the context is shut down whoever made it.
AlwaysOurs(t) == RclcppOk

OursToShutDown(t) == local[t].own /\ RclcppOk

\* rclcpp::shutdown() if this node did rclcpp::init(); shutdown() returns.
ShutdownContext(t) ==
    /\ step[t] = "context"
    /\ contextOf' = IF OursToShutDown(t) THEN "nobody" ELSE contextOf
    /\ step' = [step EXCEPT ![t] = "idle"]
    /\ local' = [local EXCEPT ![t] = NoLocals]
    /\ host' = [host EXCEPT ![t] = 0]
    /\ UNCHANGED <<flags, spins, contextDowns, failure>>

\* Another thread is in a function of the node.
OthersInside(t) ==
    \/ \E u \in Threads \ {t} : step[u] # "idle"
    \/ \E x \in Spinners \ {t} : phase[x] \notin {"out", "done"}

\* The destructor, whose own shutdown() has returned: the members go.
Destroy(t) ==
    /\ t \in Owners /\ Idle(t) /\ ~initialized /\ session # 0
    /\ failure' = IF OthersInside(t) THEN "destroyedInUse" ELSE "ended"
    /\ UNCHANGED <<flags, spins, calls, contextOf, contextDowns>>

-----------------------------------------------------------------------------
(* The rest of the process. *)

\* rclcpp's SIGINT handler, or the application, shuts the context down.
ContextDown ==
    /\ RclcppOk /\ contextDowns < MaxContextDowns
    /\ contextOf' = "nobody"
    /\ contextDowns' = contextDowns + 1
    /\ UNCHANGED <<flags, spins, calls, failure>>

\* The application calls rclcpp::init() itself.
UserInit ==
    /\ UserContexts /\ ~RclcppOk
    /\ contextOf' = "user"
    /\ UNCHANGED <<flags, spins, calls, contextDowns, failure>>

-----------------------------------------------------------------------------
SpinStep(x) ==
    SpinLoad(x) \/ SpinEnter(x) \/ SpinLeave(x) \/ SpinReturn(x) \/ SpinNotify(x)

ShutdownStep(t) ==
    \/ ShutdownCancel(t) \/ ShutdownWait(t) \/ ShutdownJoin(t)
    \/ ShutdownReset(t) \/ ShutdownClear(t) \/ ShutdownContext(t)

Call(t) ==
    \/ InitOk(t) \/ InitThrows(t) \/ RegisterEntity(t)
    \/ RunBlocking(t) \/ RunBackground(t) \/ ShutdownBegin(t) \/ Destroy(t)

\* A dead process takes no step.
Next ==
    /\ failure = "none"
    /\ \/ \E t \in Threads : Call(t) \/ ShutdownStep(t)
       \/ \E x \in Spinners : SpinStep(x)
       \/ ContextDown \/ UserInit

Spec == Init /\ [][Next]_vars

\* The operating system runs every thread that is inside spin() or shutdown();
\* nothing obliges the application to make a call.
Fairness ==
    /\ \A x \in Spinners : WF_vars(failure = "none" /\ SpinStep(x))
    /\ \A t \in Threads : WF_vars(failure = "none" /\ ShutdownStep(t))

FairSpec == Spec /\ Fairness

-----------------------------------------------------------------------------
\* Every variable has its type, and executor_ (with node_) is there exactly while initialized_ is
\* true: initialized_ is all that the functions of the node look at before they use node_.
TypeOK ==
    /\ initialized \in BOOLEAN /\ running \in BOOLEAN /\ ownInit \in BOOLEAN
    /\ initialized <=> executor # 0
    /\ executor \in 0..MaxSessions /\ spinThread \in 0..MaxSessions
    /\ session \in 0..MaxSessions
    /\ entities \subseteq Sessions /\ alive \subseteq Sessions
    /\ spinFlag \in [Sessions -> BOOLEAN]
    /\ phase \in [Spinners -> Phases] /\ loaded \in [Spinners -> 0..MaxSessions]
    /\ step \in [Threads -> Steps]
    /\ local \in [Threads -> [exec : 0..MaxSessions, join : 0..MaxSessions, own : BOOLEAN]]
    /\ host \in [Threads -> Spinners \cup {0}]
    /\ contextOf \in {"nobody", "node", "user"}
    /\ contextDowns \in 0..MaxContextDowns
    /\ failure \in {"none", "nullExecutor", "joinableThread", "destroyedInUse", "ended"}

\* shutdown() destroys an executor only when no thread is between reading its pointer and
\* returning from its spin() (the comment at ROS2Node.cpp:96-98), whatever calls overlap.
ExecutorOutlivesSpin ==
    \A x \in Spinners : phase[x] \in {"enter", "spinning", "left"} => loaded[x] \in alive

\* init() can be called again only on clean maps: entities of an earlier session, whose
\* executor is gone, are never found by the functions of the current one.
NoStaleEntities == initialized => entities \subseteq {session}

\* An entity registered in a session stays in the maps until that session is shut down.
LiveEntitiesKept ==
    [][initialized /\ initialized' /\ session' = session => entities \subseteq entities']_vars

\* Once the node is shut down no context that it made is left up (ROS2Node.h:232).
ContextReleased ==
    ~initialized /\ (\A t \in Threads : step[t] = "idle") => contextOf # "node"

\* shutdown() brings down only a context this node made, as long as no context was ever brought
\* down from outside: the ownership flag is then about the context that is up.
OnlyOwnContext ==
    [][contextOf = "user" /\ contextOf' # "user" => contextDowns' > 0]_vars

\* run(false) assigns to a spinThread_ that holds a thread (and the process ends) in one case
\* only: a context was brought down from outside, and the spin of that very thread is over.
\* No other spin, of this session or an earlier one, leaves spinThread_ behind.
SpinThreadFree ==
    failure = "joinableThread" =>
        contextDowns > 0 /\ spinThread = session /\ phase[spinThread] \in {"notifying", "done"}

\* A run() that passed its check never finds executor_ reset (ROS2Node.h:45: run(true)
\* blocks until shutdown() is called).
RunFindsExecutor == failure # "nullExecutor"

\* Whoever ends the object after its own shutdown() finds nobody inside, since that leaves the
\* node destroyed (ROS2Node.cpp:84, 96-98), except a blocking run() that has still to notify.
DestroyedAtRest ==
    failure = "destroyedInUse" =>
        /\ \A t \in Threads : step[t] = "idle" /\ phase[t] \in {"out", "notifying"}
        /\ \A n \in Sessions : phase[n] \in {"out", "done"}

\* A shutdown() that cancels when no thread is still on its way into spin() returns,
\* and so does the run() it stops.
SettledShutdownReturns ==
    \A t \in Threads :
        (step[t] = "cancel" /\ \A x \in Spinners : phase[x] \notin {"call", "enter"})
            ~> (step[t] = "idle" /\ \A x \in Spinners : ~InSpin(x))

\* Every shutdown() returns, in a process that has not died (ROS2Node.cpp:63-64: spin()
\* returns after shutdown() -> cancel()).
ShutdownReturns ==
    \A t \in Threads : (step[t] = "cancel") ~> (step[t] = "idle" \/ failure # "none")
=============================================================================
