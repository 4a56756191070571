----------------------------- MODULE Parameters ------------------------------
(***************************************************************************)
(* The parameters of yomk::ROS2Node. A local call holds mtx_ throughout;   *)
(* rclcpp has a mutex of its own for the parameters, which it also holds   *)
(* while set callbacks run. Another node's set request is served by a      *)
(* worker of the executor, under that mutex only. A call that asks another *)
(* node for its parameters waits for the answer with mtx_ held, and a      *)
(* worker brings the answer.                                               *)
(***************************************************************************)
EXTENDS Naturals, FiniteSetsExt

CONSTANTS
    Setters,     \* application threads that use the node's parameters and set callbacks
    Managers,    \* those that call init(), shutdown() and ask other nodes
    Workers,     \* threads of the executor
    Values,      \* values of the one parameter
    Override,    \* the value that the command line gives it, Null if none
    MaxAdds,     \* bound: set callbacks added
    MaxCalls,    \* bound: calls made
    MaxRemote,   \* bound: those that ask another node
    MaxServed,   \* bound: set requests of other nodes
    MaxSessions, \* bound: successful init() calls
    Null

ASSUME ParametersAssumption ==
    /\ (Setters \cup Managers) \cap Workers = {}
    /\ Null \notin Setters \cup Managers \cup Workers \cup Values
    /\ Override \in Values \cup {Null}
    /\ MaxAdds \in Nat /\ MaxCalls \in Nat /\ MaxRemote \in Nat /\ MaxServed \in Nat
    /\ MaxSessions \in Nat \ {0}

Users == Setters \cup Managers
Threads == Users \cup Workers
Adds == 1..MaxAdds     \* the set callbacks, by the order in which they are added
Requests == 1..MaxRemote   \* what this node asks of others

VARIABLES
    stage,      \* "down", "up", "closing": shutdown() waits for the workers
    mtx, params, \* who holds mtx_, and the mutex of the parameters
    pc, op,     \* per thread: where it is, in which call
    todo, cb,   \* per thread: callbacks its set has still to pass, and the one it runs
    value,      \* of the parameter, Null while it is not declared
    registered, \* set callbacks that the rclcpp node has
    rejects,    \* per callback: the values it rejects
    nextId,     \* paramCallbackNextId_
    handles,    \* paramCallbacks_: the callback of an id, 0 if none
    given,      \* per callback: the id its user was given, 0 before
    wanted,     \* callbacks of this session that their users have not removed
    over,       \* callbacks whose removal has returned
    remote,     \* the requests to another node
    adds, calls, asked, served, sessions

locks == <<mtx, params>>
thread == <<pc, op, todo, cb>>
callbacks == <<registered, rejects, nextId, handles, given, wanted, over, adds>>
counters == <<calls, asked, served, sessions>>
vars == <<stage, locks, thread, value, callbacks, remote, counters>>

NoOp == [kind |-> "none", value |-> Null, callback |-> 0, id |-> 0]

Init ==
    /\ stage = "up" /\ mtx = Null /\ params = Null
    /\ pc = [t \in Threads |-> "idle"] /\ op = [t \in Threads |-> NoOp]
    /\ todo = [t \in Threads |-> {}] /\ cb = [t \in Threads |-> 0]
    /\ value = Null
    /\ registered = {} /\ rejects = [n \in Adds |-> {}]
    /\ nextId = 1 /\ handles = [i \in Adds |-> 0] /\ given = [n \in Adds |-> 0]
    /\ wanted = {} /\ over = {}
    /\ remote = [c \in Requests |-> "none"]
    /\ adds = 0 /\ calls = 0 /\ asked = 0 /\ served = 0 /\ sessions = 1
-----------------------------------------------------------------------------
(* Calls: mtx_ first. *)

Begin(u, kind, v, n) ==
    /\ pc[u] = "idle" /\ calls < MaxCalls /\ calls' = calls + 1
    /\ op' = [op EXCEPT ![u] = [kind |-> kind, value |-> v, callback |-> n, id |-> 0]]
    /\ pc' = [pc EXCEPT ![u] = "locking"]
    /\ UNCHANGED <<stage, locks, todo, cb, value, callbacks, remote, asked, served, sessions>>

UserCalls(u) ==
    \/ /\ u \in Setters
       /\ \/ \E kind \in {"declare", "set"}, v \in Values : Begin(u, kind, v, 0)
          \/ \E kind \in {"read", "add"} : Begin(u, kind, Null, 0)
          \/ \E n \in Adds : given[n] # 0 /\ Begin(u, "remove", Null, n)
    \/ u \in Managers /\ \E kind \in {"setRemote", "init", "shutdown"} : Begin(u, kind, Null, 0)

\* The call returns: lock_guard releases mtx_.
Returns(t) ==
    /\ pc' = [pc EXCEPT ![t] = "idle"] /\ op' = [op EXCEPT ![t] = NoOp]
    /\ mtx' = IF mtx = t THEN Null ELSE mtx

Locks(t, kind) == pc[t] = "locking" /\ op[t].kind = kind /\ mtx = Null

\* Not initialized, initialized already, or no such handle; or one of the bounds.
Refused(t) ==
    /\ Locks(t, op[t].kind)
    /\ \/ stage # "up" /\ op[t].kind \in {"declare", "set", "setRemote", "read", "add"}
       \/ op[t].kind = "remove" /\ handles[given[op[t].callback]] = 0
       \/ op[t].kind = "add" /\ adds = MaxAdds
       \/ op[t].kind = "init" /\ (stage = "up" \/ sessions = MaxSessions)
       \/ stage # "up" /\ op[t].kind = "shutdown"
    /\ Returns(t)
    /\ UNCHANGED <<stage, params, todo, cb, value, callbacks, remote, counters>>

Enters(t) ==
    /\ Locks(t, op[t].kind) /\ stage = "up"
    /\ \/ op[t].kind \in {"declare", "set", "setRemote", "read"}
       \/ op[t].kind = "add" /\ adds < MaxAdds
       \/ op[t].kind = "remove" /\ handles[given[op[t].callback]] # 0
    /\ mtx' = t /\ pc' = [pc EXCEPT ![t] = IF op[t].kind = "setRemote" THEN "seeking" ELSE "held"]
    /\ UNCHANGED <<stage, params, op, todo, cb, value, callbacks, remote, counters>>

\* The call holds mtx_ and gets the mutex of the parameters.
Inside(t, kind) == pc[t] = "held" /\ op[t].kind = kind /\ params = Null

\* hasParam(), getParam(), listParams(); and undeclareParam(), since a declared parameter has
\* a static type and stays.
Read(t) ==
    /\ Inside(t, "read") /\ Returns(t)
    /\ UNCHANGED <<stage, params, todo, cb, value, callbacks, remote, counters>>
-----------------------------------------------------------------------------
(* Set callbacks. *)

AddOnSetParamCallback(t) ==
    LET n == adds + 1 IN
    /\ Inside(t, "add") /\ Returns(t)
    /\ adds' = n /\ registered' = registered \cup {n} /\ wanted' = wanted \cup {n}
    /\ \E R \in SUBSET Values : rejects' = [rejects EXCEPT ![n] = R]
    /\ handles' = [handles EXCEPT ![nextId] = n] /\ given' = [given EXCEPT ![n] = nextId]
    /\ nextId' = nextId + 1
    /\ UNCHANGED <<stage, params, todo, cb, value, over, remote, counters>>

\* Mutant: only the handle is dropped, without waiting for the parameters.
HandleDropped(t) == TRUE

\* remove_on_set_parameters_callback() takes the mutex of the parameters.
NativelyRemoved(t) == params = Null

\* While shutdown() is under way only the handle is dropped; rclcpp, which has a weak pointer
\* to it, then passes the callback over.
RemoveOnSetParamCallback(t) ==
    LET n == op[t].callback
        i == given[n] IN
    /\ \/ pc[t] = "held" /\ op[t].kind = "remove" /\ NativelyRemoved(t)
       \/ Locks(t, "remove") /\ stage # "up" /\ handles[i] # 0
    /\ registered' = registered \ {handles[i]} /\ handles' = [handles EXCEPT ![i] = 0]
    /\ wanted' = wanted \ {n} /\ over' = over \cup {handles[i]}
    /\ Returns(t)
    /\ UNCHANGED <<stage, params, todo, cb, value, rejects, nextId, given, adds, remote, counters>>
-----------------------------------------------------------------------------
(* Setting: local calls, and workers that serve another node. *)

Passes(t) ==
    /\ params' = t /\ todo' = [todo EXCEPT ![t] = registered]
    /\ pc' = [pc EXCEPT ![t] = "checking"]

\* setParam() of a declared parameter.
SetParam(t) ==
    /\ Inside(t, "set") /\ value # Null
    /\ Passes(t)
    /\ UNCHANGED <<stage, mtx, op, cb, value, callbacks, remote, counters>>

\* declareParam() of a parameter that is not; the default gives way to an override.
DeclareParam(t) ==
    /\ Inside(t, "declare") /\ value = Null
    /\ op' = [op EXCEPT ![t].value = IF Override = Null THEN @ ELSE Override]
    /\ Passes(t)
    /\ UNCHANGED <<stage, mtx, cb, value, callbacks, remote, counters>>

\* setParam() of a parameter that is not declared; declareParam() of one that is.
NothingToSet(t) ==
    /\ Inside(t, op[t].kind)
    /\ \/ op[t].kind = "set" /\ value = Null
       \/ op[t].kind = "declare" /\ value # Null
    /\ Returns(t)
    /\ UNCHANGED <<stage, params, todo, cb, value, callbacks, remote, counters>>

\* A set request of another node for a declared parameter.
ServesSet(w) ==
    /\ pc[w] = "idle" /\ stage # "down" /\ params = Null /\ value # Null
    /\ served < MaxServed /\ served' = served + 1
    /\ \E v \in Values : op' = [op EXCEPT ![w] = [NoOp EXCEPT !.kind = "set", !.value = v]]
    /\ Passes(w)
    /\ UNCHANGED <<stage, mtx, cb, value, callbacks, remote, calls, asked, sessions>>

\* Callbacks that this set has still to pass.
Ahead(t) == todo[t] \cap registered

\* The newest callback is asked first.
AsksCallback(t) ==
    /\ pc[t] = "checking" /\ Ahead(t) # {}
    /\ cb' = [cb EXCEPT ![t] = Max(Ahead(t))]
    /\ todo' = [todo EXCEPT ![t] = Ahead(t) \ {Max(Ahead(t))}]
    /\ pc' = [pc EXCEPT ![t] = "callback"]
    /\ UNCHANGED <<stage, locks, op, value, callbacks, remote, counters>>

\* Mutant: what the callback returns is not passed on to rclcpp.
VerdictLost(t, v) == TRUE

\* result.successful
Successful(t, v) == v \notin rejects[cb[t]]

\* A rejection ends the set; declareParam() then throws, with the same effect on the node.
CallbackAnswers(t) ==
    /\ pc[t] = "callback" /\ cb' = [cb EXCEPT ![t] = 0]
    /\ IF Successful(t, op[t].value)
       THEN pc' = [pc EXCEPT ![t] = "checking"] /\ UNCHANGED <<op, locks>>
       ELSE Returns(t) /\ params' = Null
    /\ UNCHANGED <<stage, todo, value, callbacks, remote, counters>>

TakesEffect(t) ==
    /\ pc[t] = "checking" /\ Ahead(t) = {}
    /\ value' = op[t].value
    /\ Returns(t) /\ params' = Null
    /\ UNCHANGED <<stage, todo, cb, callbacks, remote, counters>>
-----------------------------------------------------------------------------
(* Asking another node: getRemoteParam(), hasRemoteParam(), listRemoteParams() and            *)
(* setRemoteParam() wait in the same way; setRemoteParam() stands for all of them.           *)

keep == <<stage, params, todo, cb, value, callbacks, counters>>

\* wait_for_service() times out.
RemoteNotThere(t) ==
    /\ pc[t] = "seeking" /\ Returns(t)
    /\ UNCHANGED <<keep, remote>>

SendsRemote(t) ==
    /\ pc[t] = "seeking" /\ asked < MaxRemote /\ asked' = asked + 1
    /\ remote' = [remote EXCEPT ![asked'] = "sent"]
    /\ op' = [op EXCEPT ![t].id = asked'] /\ pc' = [pc EXCEPT ![t] = "waiting"]
    /\ UNCHANGED <<stage, locks, todo, cb, value, callbacks, calls, served, sessions>>

\* The other node sets its parameter or refuses, or dies with it.
RemoteServes(c) ==
    /\ remote[c] = "sent"
    /\ \E answer \in {"answered", "lost"} : remote' = [remote EXCEPT ![c] = answer]
    /\ UNCHANGED <<keep, mtx, pc, op>>

\* A worker makes the future ready, whether or not somebody still waits for it.
BringsAnswer(w, c) ==
    /\ pc[w] = "idle" /\ stage # "down" /\ remote[c] = "answered"
    /\ remote' = [remote EXCEPT ![c] = "ready"]
    /\ UNCHANGED <<keep, mtx, pc, op>>

\* The call returns what the other node has answered.
RemoteReturns(t) ==
    /\ pc[t] = "waiting" /\ remote[op[t].id] = "ready"
    /\ Returns(t)
    /\ UNCHANGED <<keep, remote>>

\* Mutant: future.get() without wait_for().
Endless(c) == FALSE

\* wait_for() gives up after 1 s, or 5 s.
WaitedEnough(c) == remote[c] # "ready"

RemoteTimesOut(t) ==
    /\ pc[t] = "waiting" /\ WaitedEnough(op[t].id)
    /\ Returns(t)
    /\ UNCHANGED <<keep, remote>>
-----------------------------------------------------------------------------
(* init() and shutdown() *)

Reopens(t) ==
    /\ Locks(t, "init") /\ stage = "down" /\ sessions < MaxSessions
    /\ stage' = "up" /\ sessions' = sessions + 1 /\ Returns(t)
    /\ UNCHANGED <<params, todo, cb, value, callbacks, remote, calls, asked, served>>

ShutdownBegins(t) ==
    /\ Locks(t, "shutdown") /\ stage = "up"
    /\ stage' = "closing" /\ pc' = [pc EXCEPT ![t] = "draining"]
    /\ UNCHANGED <<locks, op, todo, cb, value, callbacks, remote, counters>>

\* Mutant: the ids of the set callbacks start over.
IdsStartOver == 1

\* Mutant: the counter is zeroed with the maps, and 0 says that no callback was added.
IdsCleared == 0

\* paramCallbackNextId_ goes on over sessions.
NextIdKept == nextId

\* The workers are gone, the maps are cleared, and the rclcpp node goes.
ShutdownEnds(t) ==
    /\ pc[t] = "draining" /\ mtx = Null /\ \A w \in Workers : pc[w] = "idle"
    /\ stage' = "down" /\ value' = Null
    /\ registered' = {} /\ wanted' = {} /\ handles' = [i \in Adds |-> 0] /\ nextId' = NextIdKept
    /\ Returns(t)
    /\ UNCHANGED <<params, todo, cb, rejects, given, over, adds, remote, counters>>
-----------------------------------------------------------------------------
Runs(t) ==
    \/ Refused(t) \/ Enters(t) \/ Read(t) \/ AddOnSetParamCallback(t) \/ RemoveOnSetParamCallback(t)
    \/ SetParam(t) \/ DeclareParam(t) \/ NothingToSet(t)
    \/ AsksCallback(t) \/ CallbackAnswers(t) \/ TakesEffect(t)
    \/ RemoteNotThere(t) \/ SendsRemote(t) \/ RemoteReturns(t) \/ RemoteTimesOut(t)
    \/ Reopens(t) \/ ShutdownBegins(t) \/ ShutdownEnds(t)

Next ==
    \/ \E u \in Users : UserCalls(u)
    \/ \E t \in Threads : Runs(t)
    \/ \E w \in Workers : ServesSet(w) \/ \E c \in Requests : BringsAnswer(w, c)
    \/ \E c \in Requests : RemoteServes(c)

Spec == Init /\ [][Next]_vars

\* Threads run and set callbacks return; nothing is asked of the other node.
FairSpec == Spec /\ \A t \in Threads : WF_vars(Runs(t))
-----------------------------------------------------------------------------
\* Every variable has its type.
TypeOK ==
    /\ stage \in {"down", "up", "closing"} /\ locks \in (Threads \cup {Null}) \X (Threads \cup {Null})
    /\ pc \in [Threads -> {"idle", "locking", "held", "checking", "callback", "seeking",
                           "waiting", "draining"}]
    /\ op \in [Threads -> [kind : {"none", "declare", "set", "setRemote", "read", "add", "remove",
                                   "init", "shutdown"},
                           value : Values \cup {Null}, callback : 0..MaxAdds, id : 0..MaxRemote]]
    /\ todo \in [Threads -> SUBSET Adds] /\ cb \in [Threads -> 0..MaxAdds]
    /\ value \in Values \cup {Null}
    /\ registered \cup wanted \subseteq Adds /\ over \subseteq 0..MaxAdds
    /\ rejects \in [Adds -> SUBSET Values]
    /\ nextId \in 1..(MaxAdds + 1) /\ handles \in [Adds -> 0..MaxAdds]
    /\ given \in [Adds -> 0..MaxAdds]
    /\ remote \in [Requests -> {"none", "sent", "answered", "ready", "lost"}]
    /\ adds \in 0..MaxAdds /\ calls \in 0..MaxCalls /\ asked \in 0..MaxRemote /\ served \in 0..MaxServed
    /\ sessions \in 1..MaxSessions

\* No value is set, by this node or for another, that a callback rejects which is registered
\* at that moment (ROS2Node.h:74, 85).
VetoRespected ==
    [][value' \notin {value, Null} => \A n \in registered : value' \notin rejects[n]]_vars

\* When removeOnSetParamCallback() has returned its callback is not running and does not run
\* again: what the callback refers to may go. Only a removal during shutdown() does not wait.
NoCallbackAfterRemove == \A t \in Threads : cb[t] \in over \ {0} => stage = "closing"

\* A callback stays registered until its own handle is removed or the node is shut down;
\* a handle that was removed, or is of an earlier session, removes no other callback.
CallbacksAsWanted == registered = wanted

\* Every call returns, shutdown() included, whatever another node does while mtx_ is held.
EveryCallReturns == \A u \in Users : pc[u] # "idle" ~> pc[u] = "idle"
=============================================================================
