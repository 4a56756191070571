---------------------------- MODULE ActionClient -----------------------------
(***************************************************************************)
(* The action client of yomk::ROS2Node: goals sent by callActionAsync(),   *)
(* the native callbacks that executor threads run for them, cancelling,    *)
(* the cached client entities, shutdown() and the action server beyond.    *)
(*                                                                         *)
(* A call of the node holds mtx_ throughout and is one action. A native    *)
(* callback updates actionActiveGoals_ under mtx_ and calls the user       *)
(* outside it: two actions, between which calls of other threads happen.   *)
(***************************************************************************)
EXTENDS Naturals

CONSTANTS
    ActionNames,   \* action names
    ActionTypes,   \* action types (the ActionT of the templates)
    MaxGoals,      \* bound: goals sent
    MaxClients,    \* bound: client entities made
    MaxSessions,   \* bound: successful init() calls
    MaxCrashes,    \* bound: crashes of the action server
    Precreate      \* createActionClient() is called: "never", "first" (before goals), "any"

Goals == 1..MaxGoals

ASSUME ActionAssumption ==
    /\ MaxGoals \in Nat /\ MaxClients \in Nat /\ MaxSessions \in Nat /\ MaxCrashes \in Nat
    /\ Precreate \in {"never", "first", "any"}

NoType == "none"

Codes == {"SUCCEEDED", "ABORTED", "CANCELED", "UNKNOWN"}

Phases == {"unsent", "sent", "responding", "active", "finishing", "over"}

ServerStates ==
    {"none", "asked", "rejected", "deferred", "executing", "canceling", "lost"} \cup Codes

VARIABLES
    stage,      \* "down", "up", or "closing": shutdown() waits for the spin to end
    sessions,   \* init() calls so far
    client,     \* actionClients_: number of the cached client entity, 0 if none
    clientType, \* actionClientTypes_
    made,       \* client entities made so far
    nextId,     \* actionGoalNextId_
    active,     \* actionActiveGoals_
    goal,       \* per goal id: its action name, its type and the client that sent it
    phase,      \* how far the native callbacks of the goal are
    told,       \* what the user's callbacks have been told
    server,     \* the goal at the action server
    toCancel,   \* goals the server has been asked to cancel and has not yet answered for
    serverUp, crashes

vars == <<stage, sessions, client, clientType, made, nextId, active, goal, phase, told,
          server, toCancel, serverUp, crashes>>

NoGoal == [name |-> "none", type |-> NoType, client |-> 0]

Init ==
    /\ stage = "down" /\ sessions = 0
    /\ client = [n \in ActionNames |-> 0] /\ clientType = [n \in ActionNames |-> NoType]
    /\ made = 0 /\ nextId = 1
    /\ active = [n \in ActionNames |-> {}]
    /\ goal = [g \in Goals |-> NoGoal]
    /\ phase = [g \in Goals |-> "unsent"] /\ told = [g \in Goals |-> "nothing"]
    /\ server = [g \in Goals |-> "none"] /\ toCancel = {}
    /\ serverUp = TRUE /\ crashes = 0

-----------------------------------------------------------------------------
(* init(), shutdown() and the client entities. *)

Open ==
    /\ stage = "down" /\ sessions < MaxSessions
    /\ stage' = "up" /\ sessions' = sessions + 1
    /\ UNCHANGED <<client, clientType, made, nextId, active, goal, phase, told,
                   server, toCancel, serverUp, crashes>>

CloseBegin ==
    /\ stage = "up"
    /\ stage' = "closing"
    /\ UNCHANGED <<sessions, client, clientType, made, nextId, active, goal, phase, told,
                   server, toCancel, serverUp, crashes>>

InCallback(g) == phase[g] \in {"responding", "finishing"}

\* The executor is gone, so no callback is under way; goals that are not over stay so.
CloseEnd ==
    /\ stage = "closing" /\ \A g \in Goals : ~InCallback(g)
    /\ stage' = "down"
    /\ client' = [n \in ActionNames |-> 0]
    /\ clientType' = [n \in ActionNames |-> NoType]
    /\ active' = [n \in ActionNames |-> {}]
    /\ UNCHANGED <<sessions, made, nextId, goal, phase, told, server, toCancel,
                   serverUp, crashes>>

\* createActionClientImpl(): the new entity replaces the one that is cached, if any.
MakeClient(n, ty) ==
    /\ made < MaxClients
    /\ made' = made + 1
    /\ client' = [client EXCEPT ![n] = made + 1]
    /\ clientType' = [clientType EXCEPT ![n] = ty]

\* createActionClient()
CreateActionClient(n, ty) ==
    /\ stage = "up"
    /\ Precreate = "first" => client[n] = 0
    /\ Precreate # "never"
    /\ MakeClient(n, ty)
    /\ UNCHANGED <<stage, sessions, nextId, active, goal, phase, told, server, toCancel,
                   serverUp, crashes>>

-----------------------------------------------------------------------------
(* callActionAsync(). *)

\* getOrCreateActionClient(): the cached client of this type, or a new one.
GetOrCreateClient(n, ty) ==
    IF client[n] # 0
    THEN clientType[n] = ty /\ UNCHANGED <<client, clientType, made>>
    ELSE MakeClient(n, ty)

\* The server is there: the goal gets its id and is sent.
CallActionAsync(n, ty) ==
    /\ stage = "up" /\ nextId \in Goals
    /\ GetOrCreateClient(n, ty)
    /\ serverUp
    /\ nextId' = nextId + 1
    /\ goal' = [goal EXCEPT ![nextId] = [name |-> n, type |-> ty, client |-> client'[n]]]
    /\ phase' = [phase EXCEPT ![nextId] = "sent"]
    /\ server' = [server EXCEPT ![nextId] = "asked"]
    /\ UNCHANGED <<stage, sessions, active, told, toCancel, serverUp, crashes>>

\* wait_for_action_server() times out: 0 is returned, and a new client stays cached.
CallActionFails(n, ty) ==
    /\ stage = "up" /\ ~serverUp
    /\ GetOrCreateClient(n, ty)
    /\ UNCHANGED <<stage, sessions, nextId, active, goal, phase, told, server, toCancel,
                   serverUp, crashes>>

-----------------------------------------------------------------------------
(* The user's callbacks, as the user follows them. *)

\* What the user knows of a goal after one more callback; "broken" when it may not come.
Told(knows, event) ==
    IF knows = "nothing" /\ event \in {"accepted", "rejected"} THEN event
    ELSE IF knows = "accepted" /\ event = "feedback" THEN "accepted"
    ELSE IF \/ knows = "accepted" /\ event \in Codes
            \/ knows = "rejected" /\ event = "UNKNOWN" THEN "finished"
    ELSE "broken"

Tell(g, event) == told' = [told EXCEPT ![g] = Told(@, event)]

-----------------------------------------------------------------------------
(* The native callbacks. *)

\* The executor still serves the client that sent the goal, and the mutually exclusive
\* callback group of that client is free.
Served(g) ==
    /\ stage \in {"up", "closing"}
    /\ client[goal[g].name] = goal[g].client
    /\ \A h \in Goals : InCallback(h) => goal[h].client # goal[g].client

Accepted(g) == server[g] \notin {"none", "asked", "rejected", "lost"}

\* Mutant: the goal is recorded before its id is set.
RecordedAsZero(g) == [active EXCEPT ![goal[g].name] = @ \cup {0}]

\* Mutant: an accepted goal is not recorded.
NotRecorded(g) == active

\* actionActiveGoals_[actionName][goalId] = goalHandle
Recorded(g) == [active EXCEPT ![goal[g].name] = @ \cup {g}]

\* goal_response_callback with a handle: first under mtx_ ...
GoalAccepted(g) ==
    /\ phase[g] = "sent" /\ Accepted(g) /\ Served(g)
    /\ active' = Recorded(g)
    /\ phase' = [phase EXCEPT ![g] = "responding"]
    /\ UNCHANGED <<stage, sessions, client, clientType, made, nextId, goal, told,
                   server, toCancel, serverUp, crashes>>

\* ... then the user; only when this returns is the result asked for.
UserToldAccepted(g) ==
    /\ phase[g] = "responding"
    /\ Tell(g, "accepted")
    /\ phase' = [phase EXCEPT ![g] = "active"]
    /\ UNCHANGED <<stage, sessions, client, clientType, made, nextId, active, goal,
                   server, toCancel, serverUp, crashes>>

\* Mutant: only the response is passed on, as the native client does.
RejectionOnly(knows) == Told(knows, "rejected")

\* Mutant: the made-up result comes before the response.
ResultFirst(knows) == Told(Told(knows, "UNKNOWN"), "rejected")

\* Both callbacks of a rejected goal, the result being made up.
Rejection(knows) == Told(Told(knows, "rejected"), "UNKNOWN")

\* goal_response_callback without a handle.
GoalRejected(g) ==
    /\ phase[g] = "sent" /\ server[g] = "rejected" /\ Served(g)
    /\ told' = [told EXCEPT ![g] = Rejection(@)]
    /\ phase' = [phase EXCEPT ![g] = "over"]
    /\ UNCHANGED <<stage, sessions, client, clientType, made, nextId, active, goal,
                   server, toCancel, serverUp, crashes>>

\* feedback_callback; feedback that comes before the response is dropped by rclcpp_action.
Feedback(g) ==
    /\ phase[g] = "active" /\ server[g] \in {"deferred", "executing", "canceling"} /\ Served(g)
    /\ Tell(g, "feedback")
    /\ UNCHANGED <<stage, sessions, client, clientType, made, nextId, active, goal, phase,
                   server, toCancel, serverUp, crashes>>

\* Mutant: the goal stays in actionActiveGoals_.
NotForgotten(g) == active

\* actionActiveGoals_ loses the goal.
Forgotten(g) == [active EXCEPT ![goal[g].name] = @ \ {g}]

\* rclcpp_action asks for the result only when goal_response_callback has returned.
ResultAwaited(g) == phase[g] = "active"

\* result_callback: first under mtx_ ...
GoalFinished(g) ==
    /\ ResultAwaited(g) /\ server[g] \in Codes /\ Served(g)
    /\ active' = Forgotten(g)
    /\ phase' = [phase EXCEPT ![g] = "finishing"]
    /\ UNCHANGED <<stage, sessions, client, clientType, made, nextId, goal, told,
                   server, toCancel, serverUp, crashes>>

\* ... then the user; then the native client forgets the goal.
UserToldResult(g) ==
    /\ phase[g] = "finishing"
    /\ Tell(g, server[g])
    /\ phase' = [phase EXCEPT ![g] = "over"]
    /\ UNCHANGED <<stage, sessions, client, clientType, made, nextId, active, goal,
                   server, toCancel, serverUp, crashes>>

-----------------------------------------------------------------------------
(* Cancelling. *)

\* The native client looks the handle up, and throws when it does not know it.
Known(g, c) == goal[g].client = c /\ phase[g] \in {"responding", "active", "finishing"}

\* What a cancelGoal() does: it refuses, sends the request, throws, or uses a handle of one
\* type as one of another.
CancelOutcome(n, ty, g) ==
    IF g \notin active[n] THEN "notActive"
    ELSE IF clientType[n] # ty THEN "typeMismatch"
    ELSE IF goal[g].type # ty THEN "miscast"
    ELSE IF Known(g, client[n]) THEN "sent" ELSE "throws"

\* cancelGoal(): true as soon as the request is sent.
CancelGoal(n, ty, g) ==
    /\ stage = "up"
    /\ CancelOutcome(n, ty, g) = "sent"
    /\ toCancel' = toCancel \cup {g}
    /\ UNCHANGED <<stage, sessions, client, clientType, made, nextId, active, goal, phase,
                   told, server, serverUp, crashes>>

\* Goals of this action that the server may cancel.
Cancellable(n) == {g \in Goals : goal[g].name = n /\ server[g] \in {"deferred", "executing"}}

\* cancelAllGoals(): every goal the server has for the action, whoever sent it.
CancelAllGoals(n, ty) ==
    /\ stage = "up" /\ active[n] # {} /\ clientType[n] = ty
    /\ toCancel' = toCancel \cup Cancellable(n)
    /\ UNCHANGED <<stage, sessions, client, clientType, made, nextId, active, goal, phase,
                   told, server, serverUp, crashes>>

\* cancelGoalsBefore(): the goals accepted before the stamp; ids stand for times.
CancelGoalsBefore(n, ty, stamp) ==
    /\ stage = "up" /\ active[n] # {} /\ clientType[n] = ty
    /\ toCancel' = toCancel \cup {g \in Cancellable(n) : g < stamp}
    /\ UNCHANGED <<stage, sessions, client, clientType, made, nextId, active, goal, phase,
                   told, server, serverUp, crashes>>

-----------------------------------------------------------------------------
(* The action server. *)

\* goalCallback: 1 rejects, 2 accepts and executes, 3 accepts and defers.
ServerAnswers(g) ==
    /\ serverUp /\ server[g] = "asked"
    /\ \E s \in {"rejected", "executing", "deferred"} : server' = [server EXCEPT ![g] = s]
    /\ UNCHANGED <<stage, sessions, client, clientType, made, nextId, active, goal, phase,
                   told, toCancel, serverUp, crashes>>

\* The user of the server calls execute() for a goal it has deferred, or never does.
ServerExecutes(g) ==
    /\ serverUp /\ server[g] = "deferred"
    /\ server' = [server EXCEPT ![g] = "executing"]
    /\ UNCHANGED <<stage, sessions, client, clientType, made, nextId, active, goal, phase,
                   told, toCancel, serverUp, crashes>>

\* cancelCallback: the user of the server accepts or refuses.
ServerCancels(g) ==
    /\ serverUp /\ g \in toCancel
    /\ toCancel' = toCancel \ {g}
    /\ \/ server[g] \in {"deferred", "executing"} /\ server' = [server EXCEPT ![g] = "canceling"]
       \/ UNCHANGED server
    /\ UNCHANGED <<stage, sessions, client, clientType, made, nextId, active, goal, phase,
                   told, serverUp, crashes>>

\* succeed(), abort() or, once cancelling, canceled().
ServerFinishes(g) ==
    /\ serverUp /\ server[g] \in {"executing", "canceling"}
    /\ \E c \in {"SUCCEEDED", "ABORTED"} \cup
                (IF server[g] = "canceling" THEN {"CANCELED"} ELSE {}) :
          server' = [server EXCEPT ![g] = c]
    /\ UNCHANGED <<stage, sessions, client, clientType, made, nextId, active, goal, phase,
                   told, toCancel, serverUp, crashes>>

\* The server's process dies: it will answer nothing it was asked, and what it has answered
\* but not sent is lost.
ServerCrashes ==
    /\ serverUp /\ crashes < MaxCrashes
    /\ serverUp' = FALSE /\ crashes' = crashes + 1
    /\ \E unsent \in SUBSET {g \in Goals : server[g] \in Codes \cup {"rejected"}} :
          server' = [g \in Goals |->
              IF \/ g \in unsent /\ phase[g] \in {"sent", "responding", "active"}
                 \/ server[g] \in {"asked", "deferred", "executing", "canceling"}
              THEN "lost" ELSE server[g]]
    /\ toCancel' = {}
    /\ UNCHANGED <<stage, sessions, client, clientType, made, nextId, active, goal, phase,
                   told>>

ServerRestarts ==
    /\ ~serverUp
    /\ serverUp' = TRUE
    /\ UNCHANGED <<stage, sessions, client, clientType, made, nextId, active, goal, phase,
                   told, server, toCancel, crashes>>

-----------------------------------------------------------------------------
Callback(g) ==
    \/ GoalAccepted(g) \/ UserToldAccepted(g) \/ GoalRejected(g)
    \/ GoalFinished(g) \/ UserToldResult(g)

Next ==
    \/ Open \/ CloseBegin \/ CloseEnd
    \/ \E n \in ActionNames, ty \in ActionTypes :
          \/ CreateActionClient(n, ty) \/ CallActionAsync(n, ty) \/ CallActionFails(n, ty)
          \/ CancelAllGoals(n, ty)
          \/ \E g \in 1..(nextId - 1) : CancelGoal(n, ty, g)
          \/ \E stamp \in Goals : CancelGoalsBefore(n, ty, stamp)
    \/ \E g \in Goals :
          \/ Callback(g) \/ Feedback(g)
          \/ ServerAnswers(g) \/ ServerExecutes(g) \/ ServerCancels(g) \/ ServerFinishes(g)
    \/ ServerCrashes \/ ServerRestarts

Spec == Init /\ [][Next]_vars

\* The executor runs callbacks that are ready, and a server that is up answers and finishes
\* what it was asked. Feedback, calls and crashes may or may not happen.
FairSpec ==
    /\ Spec
    /\ \A g \in Goals : WF_vars(Callback(g)) /\ WF_vars(ServerAnswers(g))
                        /\ WF_vars(ServerFinishes(g))

-----------------------------------------------------------------------------
\* Every variable has its type: the node's maps, the goals and what the server makes of them.
TypeOK ==
    /\ stage \in {"down", "up", "closing"} /\ sessions \in 0..MaxSessions
    /\ client \in [ActionNames -> 0..MaxClients]
    /\ clientType \in [ActionNames -> ActionTypes \cup {NoType}]
    /\ made \in 0..MaxClients /\ nextId \in 1..(MaxGoals + 1)
    /\ active \in [ActionNames -> SUBSET Goals]
    /\ goal \in [Goals -> [name : ActionNames, type : ActionTypes, client : 1..MaxClients]
                          \cup {NoGoal}]
    /\ phase \in [Goals -> Phases]
    /\ told \in [Goals -> {"nothing", "accepted", "rejected", "finished", "broken"}]
    /\ server \in [Goals -> ServerStates] /\ toCancel \subseteq Goals
    /\ serverUp \in BOOLEAN /\ crashes \in 0..MaxCrashes

\* The user hears of each goal in order: accepted or rejected, once and first; feedback only
\* of an accepted goal that is not finished; one result, UNKNOWN only after a rejection
\* (ROS2Node.h:169-173).
CallbackOrder == \A g \in Goals : told[g] # "broken"

\* A goal can be cancelled from before the user hears that it is accepted until just before
\* the user hears its result.
ActiveUntilResult ==
    \A g \in Goals :
        /\ told[g] \in {"rejected", "finished"} => \A n \in ActionNames : g \notin active[n]
        /\ told[g] = "accepted" /\ Served(g) /\ phase[g] = "active" => g \in active[goal[g].name]

\* A goal in actionActiveGoals_ is known to the native client that is cached for its action,
\* so that cancelGoal() neither throws nor casts the handle to another type: the code relies
\* on createActionClient() refusing another type (ROS2Node.h:159-160).
CancelIsSafe ==
    \A n \in ActionNames, ty \in ActionTypes, g \in Goals :
        CancelOutcome(n, ty, g) \notin {"throws", "miscast"}

\* A goal that the server rejects or finishes gets its result, unless the node is shut down,
\* the client that sent it goes (with a session, or replaced) or the server dies first.
AnsweredGoalFinishes ==
    \A g \in Goals :
        (phase[g] \in {"sent", "active"} /\ server[g] \in Codes \cup {"rejected"})
            ~> \/ told[g] = "finished" \/ server[g] = "lost"
               \/ stage # "up"
               \/ goal[g].client \notin {client[n] : n \in ActionNames}
=============================================================================
