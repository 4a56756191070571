------------------------- MODULE ActionClientProofs --------------------------
(***************************************************************************)
(* For any numbers of actions, types, goals, clients, sessions and server  *)
(* crashes: the user's callbacks of a goal come in order, the active goals *)
(* are the ones the user may cancel, and, when no client is replaced,      *)
(* cancelling neither throws nor mistakes a type.                          *)
(***************************************************************************)
EXTENDS ActionClient, TLAPS

\* Ids and client entities are handed out once, in order; an entity has one type.
Numbered ==
    /\ \A g \in Goals : g >= nextId => phase[g] = "unsent"
    /\ \A n \in ActionNames : client[n] <= made
    /\ \A g \in Goals : phase[g] # "unsent" =>
          /\ goal[g].name \in ActionNames /\ goal[g].client \in 1..made
          /\ client[goal[g].name] = goal[g].client => clientType[goal[g].name] = goal[g].type

\* What the user has heard of a goal is fixed by how far its callbacks are.
Phased ==
    \A g \in Goals :
        /\ phase[g] \in {"unsent", "sent", "responding"} => told[g] = "nothing"
        /\ phase[g] = "active" => told[g] = "accepted"
        /\ phase[g] = "finishing" => told[g] = "accepted" /\ server[g] \in Codes
        /\ phase[g] = "over" => told[g] = "finished"

\* A goal is active from its response to its result, as long as its client is cached.
ActiveRunning ==
    /\ \A n \in ActionNames : \A g \in active[n] :
          goal[g].name = n /\ phase[g] \in {"responding", "active"}
    /\ \A g \in Goals :
          phase[g] \in {"responding", "active"} /\ client[goal[g].name] = goal[g].client =>
              g \in active[goal[g].name]

\* The cached client is the one that sent the active goals.
HandlesKnown ==
    Precreate # "any" =>
        \A n \in ActionNames : \A g \in active[n] : goal[g].client = client[n]

\* The inductive invariant.
IInv == TypeOK /\ Numbered /\ Phased /\ ActiveRunning /\ HandlesKnown

\* The session as the action client takes part in it.
CallbacksRun == \E g \in Goals : InCallback(g)

MembersMade == \E n \in ActionNames : client[n] # 0

Session == INSTANCE NodeSession WITH busy <- CallbacksRun, held <- MembersMade

\* A node that is down runs no callback and caches no client.
Rests == stage = "down" => ~CallbacksRun /\ ~MembersMade
-----------------------------------------------------------------------------
\* A new entity gets a number of its own, and the other actions keep their clients.
LEMMA ClientMade ==
    ASSUME TypeOK, Numbered, NEW n \in ActionNames, NEW ty \in ActionTypes, MakeClient(n, ty)
    PROVE  /\ client' \in [ActionNames -> 0..MaxClients]
           /\ clientType' \in [ActionNames -> ActionTypes \cup {NoType}]
           /\ made' = made + 1 /\ made' \in 0..MaxClients
           /\ client'[n] = made' /\ clientType'[n] = ty
           /\ \A m \in ActionNames \ {n} : client'[m] = client[m] /\ clientType'[m] = clientType[m]
  BY ActionAssumption DEF TypeOK, Numbered, MakeClient

\* callActionAsync() has a cached client of its type, new only if there was none.
LEMMA ClientFound ==
    ASSUME TypeOK, Numbered, NEW n \in ActionNames, NEW ty \in ActionTypes, GetOrCreateClient(n, ty)
    PROVE  /\ client' \in [ActionNames -> 0..MaxClients]
           /\ clientType' \in [ActionNames -> ActionTypes \cup {NoType}]
           /\ made' \in 0..MaxClients /\ made <= made'
           /\ client'[n] \in 1..made' /\ clientType'[n] = ty
           /\ \A m \in ActionNames :
                 \/ client'[m] = client[m] /\ clientType'[m] = clientType[m]
                 \/ client[m] = 0 /\ client'[m] = made' /\ made' = made + 1
<1>1. CASE client[n] # 0
  BY <1>1, ActionAssumption DEF TypeOK, Numbered, GetOrCreateClient
<1>2. CASE client[n] = 0
  <2>1. MakeClient(n, ty)
    BY <1>2 DEF GetOrCreateClient
  <2>2. made \in Nat
    BY ActionAssumption DEF TypeOK
  <2> QED
    BY <1>2, <2>1, <2>2, ClientMade
<1> QED
  BY <1>1, <1>2

\* What the user is told, case by case.
LEMMA ToldValues ==
    /\ Told("nothing", "accepted") = "accepted"
    /\ Rejection("nothing") = "finished"
    /\ Told("accepted", "feedback") = "accepted"
    /\ \A c \in Codes : Told("accepted", c) = "finished"
<1>1. Told("nothing", "rejected") = "rejected"
  BY DEF Told, Codes
<1>2. Told("rejected", "UNKNOWN") = "finished"
  BY DEF Told, Codes
<1>3. \A c \in Codes : Told("accepted", c) = "finished"
  BY DEF Told, Codes
<1> QED
  BY <1>1, <1>2, <1>3 DEF Told, Codes, Rejection
-----------------------------------------------------------------------------
\* A step keeps every variable in its type.
LEMMA TypedStep ==
    ASSUME TypeOK, Numbered, Phased, [Next]_vars
    PROVE  TypeOK'
<1> USE ActionAssumption DEF TypeOK, Phased, Phases, ServerStates, Codes, Goals
<1>1. CASE Open
  BY <1>1 DEF Open
<1>2. CASE CloseBegin
  BY <1>2 DEF CloseBegin
<1>3. CASE CloseEnd
  BY <1>3 DEF CloseEnd, InCallback
<1>4. ASSUME NEW n \in ActionNames, NEW ty \in ActionTypes, CreateActionClient(n, ty)
     PROVE  TypeOK'
  BY <1>4, ClientMade DEF CreateActionClient
<1>5. ASSUME NEW n \in ActionNames, NEW ty \in ActionTypes, CallActionAsync(n, ty)
     PROVE  TypeOK'
  <2>1. /\ client' \in [ActionNames -> 0..MaxClients]
        /\ clientType' \in [ActionNames -> ActionTypes \cup {NoType}]
        /\ made' \in 0..MaxClients /\ client'[n] \in 1..MaxClients
    BY <1>5, ClientFound DEF CallActionAsync
  <2>2. goal' = [goal EXCEPT ![nextId] = [name |-> n, type |-> ty, client |-> client'[n]]]
    BY <1>5 DEF CallActionAsync
  <2>3. goal' \in [Goals -> [name : ActionNames, type : ActionTypes, client : 1..MaxClients]
                            \cup {NoGoal}]
    BY <2>1, <2>2
  <2>4. nextId' \in 1..(MaxGoals + 1)
    BY <1>5 DEF CallActionAsync
  <2>5. phase' \in [Goals -> Phases] /\ server' \in [Goals -> ServerStates]
    BY <1>5 DEF CallActionAsync
  <2> QED
    BY <1>5, <2>1, <2>3, <2>4, <2>5 DEF CallActionAsync
<1>6. ASSUME NEW n \in ActionNames, NEW ty \in ActionTypes, CallActionFails(n, ty)
     PROVE  TypeOK'
  BY <1>6, ClientFound DEF CallActionFails
<1>7. ASSUME NEW n \in ActionNames, NEW ty \in ActionTypes, NEW g \in 1..(nextId - 1),
            CancelGoal(n, ty, g)
     PROVE  TypeOK'
  BY <1>7 DEF CancelGoal
<1>8. ASSUME NEW n \in ActionNames, NEW ty \in ActionTypes, CancelAllGoals(n, ty) PROVE TypeOK'
  BY <1>8 DEF CancelAllGoals, Cancellable
<1>9. ASSUME NEW n \in ActionNames, NEW ty \in ActionTypes, NEW stamp \in Goals,
            CancelGoalsBefore(n, ty, stamp)
     PROVE  TypeOK'
  BY <1>9 DEF CancelGoalsBefore, Cancellable
<1>10. ASSUME NEW g \in Goals, GoalAccepted(g) PROVE TypeOK'
  BY <1>10 DEF GoalAccepted, Recorded, Served, Accepted
<1>11. ASSUME NEW g \in Goals, UserToldAccepted(g) PROVE TypeOK'
  BY <1>11, ToldValues DEF UserToldAccepted, Tell
<1>12. ASSUME NEW g \in Goals, GoalRejected(g) PROVE TypeOK'
  BY <1>12, ToldValues DEF GoalRejected
<1>13. ASSUME NEW g \in Goals, Feedback(g) PROVE TypeOK'
  BY <1>13, ToldValues DEF Feedback, Tell
<1>14. ASSUME NEW g \in Goals, GoalFinished(g) PROVE TypeOK'
  BY <1>14 DEF GoalFinished, Forgotten, ResultAwaited
<1>15. ASSUME NEW g \in Goals, UserToldResult(g) PROVE TypeOK'
  BY <1>15, ToldValues DEF UserToldResult, Tell
<1>16. ASSUME NEW g \in Goals, ServerAnswers(g) PROVE TypeOK'
  BY <1>16 DEF ServerAnswers
<1>22. ASSUME NEW g \in Goals, ServerExecutes(g) PROVE TypeOK'
  BY <1>22 DEF ServerExecutes
<1>17. ASSUME NEW g \in Goals, ServerCancels(g) PROVE TypeOK'
  BY <1>17 DEF ServerCancels
<1>18. ASSUME NEW g \in Goals, ServerFinishes(g) PROVE TypeOK'
  BY <1>18 DEF ServerFinishes
<1>19. CASE ServerCrashes
  <2>1. server' \in [Goals -> ServerStates]
    BY <1>19 DEF ServerCrashes
  <2>2. serverUp' \in BOOLEAN
    BY <1>19 DEF ServerCrashes
  <2>3. crashes' \in 0..MaxCrashes /\ toCancel' = {}
    BY <1>19 DEF ServerCrashes
  <2>4. UNCHANGED <<stage, sessions, client, clientType, made, nextId, active, goal, phase,
                    told>>
    BY <1>19 DEF ServerCrashes
  <2> QED
    BY <2>1, <2>2, <2>3, <2>4
<1>20. CASE ServerRestarts
  BY <1>20 DEF ServerRestarts
<1>21. CASE UNCHANGED vars
  BY <1>21 DEF vars
<1> QED
  BY <1>1, <1>2, <1>3, <1>4, <1>5, <1>6, <1>7, <1>8, <1>9, <1>10, <1>11,
     <1>12, <1>13, <1>14, <1>15, <1>16, <1>17, <1>18, <1>19, <1>20, <1>21, <1>22
     DEF Next, Callback
-----------------------------------------------------------------------------
\* What new client entities leave true of a goal that was sent.
StillTrue(h) ==
    /\ goal[h].name \in ActionNames /\ goal[h].client \in 1..made /\ goal[h].client \in 1..made'
    /\ client'[goal[h].name] = goal[h].client =>
          /\ client[goal[h].name] = goal[h].client
          /\ clientType'[goal[h].name] = clientType[goal[h].name]

LEMMA OldClients ==
    ASSUME TypeOK, Numbered, made <= made', made' \in Nat,
           \A m \in ActionNames :
              \/ client'[m] = client[m] /\ clientType'[m] = clientType[m]
              \/ client'[m] = made' /\ made' = made + 1
    PROVE  \A h \in Goals : phase[h] # "unsent" => StillTrue(h)
<1> SUFFICES ASSUME NEW h \in Goals, phase[h] # "unsent" PROVE StillTrue(h)
  OBVIOUS
<1>1. made \in Nat
  BY ActionAssumption DEF TypeOK
<1>2. goal[h].name \in ActionNames /\ goal[h].client \in 1..made
  BY DEF Numbered
<1>3. goal[h].client \in 1..made' /\ goal[h].client # made + 1
  BY <1>1, <1>2
<1> QED
  BY <1>2, <1>3 DEF StillTrue
-----------------------------------------------------------------------------
\* A step keeps the rest of the inductive invariant.
LEMMA InvariantStep ==
    ASSUME IInv, [Next]_vars
    PROVE  (Numbered /\ Phased /\ ActiveRunning /\ HandlesKnown)'
<1> USE ActionAssumption DEF IInv, TypeOK, Numbered, Phased, ActiveRunning, HandlesKnown, Goals,
        Phases, Codes
<1> DEFINE Goal == Numbered /\ Phased /\ ActiveRunning /\ HandlesKnown
<1>1. CASE Open
  BY <1>1 DEF Open
<1>2. CASE CloseBegin
  BY <1>2 DEF CloseBegin
<1>3. CASE CloseEnd
  <2>1. /\ client' = [n \in ActionNames |-> 0] /\ active' = [n \in ActionNames |-> {}]
        /\ UNCHANGED <<made, nextId, goal, phase, told, server>>
    BY <1>3 DEF CloseEnd
  <2>2. \A g \in Goals : phase[g] # "unsent" =>
            goal[g].name \in ActionNames /\ goal[g].client \in 1..made
    OBVIOUS
  <2>3. \A g \in Goals : phase[g] # "unsent" => client'[goal[g].name] # goal[g].client
    BY <2>1, <2>2
  <2> QED
    BY <2>1, <2>2, <2>3
<1>4. ASSUME NEW n \in ActionNames, NEW ty \in ActionTypes, CreateActionClient(n, ty)
     PROVE  Goal'
  <2>1. /\ made <= made' /\ made' \in Nat
        /\ \A m \in ActionNames :
              \/ client'[m] = client[m] /\ clientType'[m] = clientType[m]
              \/ m = n /\ client'[m] = made' /\ made' = made + 1
    BY <1>4, ClientMade DEF CreateActionClient
  <2>2. /\ UNCHANGED <<nextId, active, goal, phase, told, server>>
        /\ Precreate # "any" => client[n] = 0
    BY <1>4 DEF CreateActionClient
  <2>3. Precreate # "any" => active[n] = {}
    BY <2>2
  <2>4. \A h \in Goals : phase[h] # "unsent" => StillTrue(h)
    BY <2>1, OldClients
  <2>5. Numbered'
    <3>1. \A m \in ActionNames : client'[m] <= made'
      BY <2>1
    <3>2. \A h \in Goals : phase[h] # "unsent" =>
             (client'[goal[h].name] = goal[h].client => clientType'[goal[h].name] = goal[h].type)
      BY <2>4 DEF StillTrue
    <3> QED
      BY <2>2, <2>4, <3>1, <3>2 DEF StillTrue
  <2>6. Phased'
    BY <2>2
  <2>7. ActiveRunning'
    BY <2>2, <2>4 DEF StillTrue
  <2>8. HandlesKnown'
    BY <2>1, <2>2, <2>3
  <2> QED
    BY <2>5, <2>6, <2>7, <2>8
<1>5. ASSUME NEW n \in ActionNames, NEW ty \in ActionTypes, CallActionAsync(n, ty) PROVE Goal'
  <2>1. /\ made <= made' /\ made' \in Nat
        /\ client'[n] \in 1..made' /\ clientType'[n] = ty
        /\ \A m \in ActionNames :
              \/ client'[m] = client[m] /\ clientType'[m] = clientType[m]
              \/ client[m] = 0 /\ client'[m] = made' /\ made' = made + 1
    BY <1>5, ClientFound DEF CallActionAsync
  <2>2. /\ nextId \in Goals /\ nextId' = nextId + 1
        /\ goal' = [goal EXCEPT ![nextId] = [name |-> n, type |-> ty, client |-> client'[n]]]
        /\ phase' = [phase EXCEPT ![nextId] = "sent"]
        /\ server' = [server EXCEPT ![nextId] = "asked"]
        /\ UNCHANGED <<active, told>>
    BY <1>5 DEF CallActionAsync
  <2>3. phase[nextId] = "unsent" /\ \A m \in ActionNames : nextId \notin active[m]
    <3>1. phase[nextId] = "unsent"
      BY <2>2
    <3> QED
      BY <3>1
  <2>4. \A h \in Goals : phase[h] # "unsent" => StillTrue(h)
    BY <2>1, OldClients
  <2>5. \A h \in Goals \ {nextId} :
            goal'[h] = goal[h] /\ phase'[h] = phase[h] /\ server'[h] = server[h]
    BY <2>2
  <2>6. /\ goal'[nextId].name = n /\ goal'[nextId].type = ty /\ goal'[nextId].client = client'[n]
        /\ phase'[nextId] = "sent"
    BY <2>2
  <2>7. Numbered'
    <3>1. \A h \in Goals : h >= nextId' => phase'[h] = "unsent"
      BY <2>2, <2>5
    <3>2. \A m \in ActionNames : client'[m] <= made'
      BY <2>1
    <3>3. \A h \in Goals \ {nextId} : phase'[h] # "unsent" =>
             /\ goal'[h].name \in ActionNames /\ goal'[h].client \in 1..made'
             /\ client'[goal'[h].name] = goal'[h].client =>
                    clientType'[goal'[h].name] = goal'[h].type
      <4> SUFFICES ASSUME NEW h \in Goals \ {nextId}, phase'[h] # "unsent"
                   PROVE  /\ goal'[h].name \in ActionNames /\ goal'[h].client \in 1..made'
                          /\ client'[goal'[h].name] = goal'[h].client =>
                                clientType'[goal'[h].name] = goal'[h].type
        OBVIOUS
      <4>1. goal'[h] = goal[h] /\ phase'[h] = phase[h]
        BY <2>5
      <4>2. phase[h] # "unsent"
        BY <4>1
      <4>3. client[goal[h].name] = goal[h].client => clientType[goal[h].name] = goal[h].type
        BY <4>2
      <4>4. StillTrue(h)
        BY <2>4, <4>2
      <4> HIDE DEF TypeOK, Numbered, Phased, ActiveRunning, HandlesKnown
      <4> QED
        BY <4>1, <4>3, <4>4 DEF StillTrue
    <3>4. /\ goal'[nextId].name \in ActionNames /\ goal'[nextId].client \in 1..made'
          /\ clientType'[goal'[nextId].name] = goal'[nextId].type
      BY <2>1, <2>6
    <3> QED
      BY <3>1, <3>2, <3>3, <3>4
  <2>8. Phased'
    BY <2>2, <2>3, <2>5, <2>6
  <2>9. ActiveRunning'
    BY <2>2, <2>3, <2>4, <2>5, <2>6 DEF StillTrue
  <2>10. \A m \in ActionNames : client[m] = 0 /\ Precreate # "any" => active[m] = {}
    OBVIOUS
  <2>11. HandlesKnown'
    BY <2>1, <2>2, <2>3, <2>5, <2>10
  <2> QED
    BY <2>7, <2>8, <2>9, <2>11
<1>6. ASSUME NEW n \in ActionNames, NEW ty \in ActionTypes, CallActionFails(n, ty) PROVE Goal'
  <2>1. /\ made <= made' /\ made' \in Nat
        /\ \A m \in ActionNames :
              \/ client'[m] = client[m] /\ clientType'[m] = clientType[m]
              \/ client[m] = 0 /\ client'[m] = made' /\ made' = made + 1
    BY <1>6, ClientFound DEF CallActionFails
  <2>2. UNCHANGED <<nextId, active, goal, phase, told, server>>
    BY <1>6 DEF CallActionFails
  <2>3. \A m \in ActionNames : client[m] = 0 /\ Precreate # "any" => active[m] = {}
    OBVIOUS
  <2>4. \A h \in Goals : phase[h] # "unsent" => StillTrue(h)
    BY <2>1, OldClients
  <2>5. Numbered'
    <3>1. \A m \in ActionNames : client'[m] <= made'
      BY <2>1
    <3>2. \A h \in Goals : phase[h] # "unsent" =>
             (client'[goal[h].name] = goal[h].client => clientType'[goal[h].name] = goal[h].type)
      BY <2>4 DEF StillTrue
    <3> QED
      BY <2>2, <2>4, <3>1, <3>2 DEF StillTrue
  <2>6. Phased'
    BY <2>2
  <2>7. ActiveRunning'
    BY <2>2, <2>4 DEF StillTrue
  <2>8. HandlesKnown'
    BY <2>1, <2>2, <2>3
  <2> QED
    BY <2>5, <2>6, <2>7, <2>8
<1>7. ASSUME NEW n \in ActionNames, NEW ty \in ActionTypes, NEW g \in 1..(nextId - 1),
            CancelGoal(n, ty, g)
     PROVE  Goal'
  BY <1>7 DEF CancelGoal
<1>8. ASSUME NEW n \in ActionNames, NEW ty \in ActionTypes, CancelAllGoals(n, ty) PROVE Goal'
  BY <1>8 DEF CancelAllGoals, Cancellable
<1>9. ASSUME NEW n \in ActionNames, NEW ty \in ActionTypes, NEW stamp \in Goals,
            CancelGoalsBefore(n, ty, stamp)
     PROVE  Goal'
  BY <1>9 DEF CancelGoalsBefore, Cancellable
<1>10. ASSUME NEW g \in Goals, GoalAccepted(g) PROVE Goal'
  BY <1>10 DEF GoalAccepted, Recorded, Served, Accepted
<1>11. ASSUME NEW g \in Goals, UserToldAccepted(g) PROVE Goal'
  BY <1>11, ToldValues DEF UserToldAccepted, Tell
<1>12. ASSUME NEW g \in Goals, GoalRejected(g) PROVE Goal'
  BY <1>12, ToldValues DEF GoalRejected
<1>13. ASSUME NEW g \in Goals, Feedback(g) PROVE Goal'
  BY <1>13, ToldValues DEF Feedback, Tell
<1>14. ASSUME NEW g \in Goals, GoalFinished(g) PROVE Goal'
  BY <1>14 DEF GoalFinished, Forgotten, ResultAwaited
<1>15. ASSUME NEW g \in Goals, UserToldResult(g) PROVE Goal'
  <2>1. told' = [told EXCEPT ![g] = "finished"]
    <3>1. told[g] = "accepted" /\ server[g] \in Codes
      BY <1>15 DEF UserToldResult
    <3>2. Told(told[g], server[g]) = "finished"
      BY <3>1, ToldValues
    <3> QED
      BY <1>15, <3>2 DEF UserToldResult, Tell
  <2> QED
    BY <1>15, <2>1 DEF UserToldResult
<1>16. ASSUME NEW g \in Goals, ServerAnswers(g) PROVE Goal'
  <2>1. \A h \in Goals : server[h] \in Codes => server'[h] = server[h]
    BY <1>16 DEF ServerAnswers
  <2> HIDE DEF Codes
  <2> QED
    BY <1>16, <2>1 DEF ServerAnswers
<1>22. ASSUME NEW g \in Goals, ServerExecutes(g) PROVE Goal'
  <2>1. \A h \in Goals : server[h] \in Codes => server'[h] = server[h]
    BY <1>22 DEF ServerExecutes
  <2> HIDE DEF Codes
  <2> QED
    BY <1>22, <2>1 DEF ServerExecutes
<1>17. ASSUME NEW g \in Goals, ServerCancels(g) PROVE Goal'
  BY <1>17 DEF ServerCancels
<1>18. ASSUME NEW g \in Goals, ServerFinishes(g) PROVE Goal'
  BY <1>18 DEF ServerFinishes
<1>19. CASE ServerCrashes
  BY <1>19 DEF ServerCrashes
<1>20. CASE ServerRestarts
  BY <1>20 DEF ServerRestarts
<1>21. CASE UNCHANGED vars
  BY <1>21 DEF vars
<1> QED
  BY <1>1, <1>2, <1>3, <1>4, <1>5, <1>6, <1>7, <1>8, <1>9, <1>10, <1>11,
     <1>12, <1>13, <1>14, <1>15, <1>16, <1>17, <1>18, <1>19, <1>20, <1>21, <1>22
     DEF Next, Callback
-----------------------------------------------------------------------------
\* IInv holds in every state of the client, whatever is called and however the server behaves.
THEOREM ClientInvariant == Spec => []IInv
<1>1. Init => IInv
  BY ActionAssumption DEF Init, IInv, TypeOK, Numbered, Phased, ActiveRunning, HandlesKnown,
        Goals, Phases, ServerStates, NoGoal
<1>2. IInv /\ [Next]_vars => IInv'
  BY TypedStep, InvariantStep DEF IInv
<1> QED
  BY <1>1, <1>2, PTL DEF Spec

\* Every variable keeps its type.
THEOREM ClientTyped == Spec => []TypeOK
<1>1. IInv => TypeOK
  BY DEF IInv
<1> QED
  BY <1>1, ClientInvariant, PTL

\* The user hears of each goal in the order that ROS2Node.h:169-173 promises.
THEOREM CallbacksInOrder == Spec => []CallbackOrder
<1>1. IInv => CallbackOrder
  BY DEF IInv, TypeOK, Phases, Phased, CallbackOrder
<1> QED
  BY <1>1, ClientInvariant, PTL

\* actionActiveGoals_ holds a goal from its response to its result.
THEOREM ActiveGoals == Spec => []ActiveUntilResult
<1>1. IInv => ActiveUntilResult
  <2> SUFFICES ASSUME IInv PROVE ActiveUntilResult
    OBVIOUS
  <2>1. \A g \in Goals : told[g] \in {"rejected", "finished"} => phase[g] = "over"
    BY DEF IInv, TypeOK, Phases, Phased
  <2>2. \A g \in Goals, n \in ActionNames : phase[g] = "over" => g \notin active[n]
    BY DEF IInv, ActiveRunning
  <2> QED
    BY <2>1, <2>2 DEF IInv, ActiveRunning, ActiveUntilResult, Served
<1> QED
  BY <1>1, ClientInvariant, PTL

\* When createActionClient() is not called again for a cached client, cancelGoal() neither
\* throws nor casts a handle to another type.
THEOREM CancelSafe ==
    ASSUME Precreate # "any"
    PROVE  Spec => []CancelIsSafe
<1>1. IInv => CancelIsSafe
  <2> SUFFICES ASSUME IInv, NEW n \in ActionNames, NEW ty \in ActionTypes,
                      NEW g \in Goals
               PROVE  CancelOutcome(n, ty, g) \notin {"throws", "miscast"}
    BY DEF CancelIsSafe
  <2>1. CASE g \notin active[n]
    BY <2>1 DEF CancelOutcome
  <2>2. CASE clientType[n] # ty
    BY <2>2 DEF CancelOutcome
  <2>3. CASE g \in active[n] /\ clientType[n] = ty
    <3>1. goal[g].name = n /\ phase[g] \in {"responding", "active"} /\ goal[g].client = client[n]
      BY <2>3 DEF IInv, ActiveRunning, HandlesKnown
    <3>2. goal[g].type = ty
      BY <2>3, <3>1 DEF IInv, Numbered
    <3>3. Known(g, client[n])
      BY <3>1 DEF Known
    <3> QED
      BY <2>3, <3>2, <3>3 DEF CancelOutcome
  <2> QED
    BY <2>1, <2>2, <2>3
<1> QED
  BY <1>1, ClientInvariant, PTL
-----------------------------------------------------------------------------
\* callActionAsync() finds its client, or caches one.
LEMMA ClientCached ==
    ASSUME TypeOK, NEW n \in ActionNames, NEW ty \in ActionTypes, MakeClient(n, ty)
    PROVE  MembersMade'
  BY ActionAssumption DEF TypeOK, MakeClient, MembersMade

\* What a step does to the stage, to the cached clients and to the callbacks.
Unmoved ==
    /\ stage' = stage /\ UNCHANGED client
    /\ CallbacksRun' => CallbacksRun \/ stage # "down"

Makes == stage = "up" /\ stage' = "up" /\ MembersMade' /\ (CallbacksRun' <=> CallbacksRun)

Turns ==
    /\ UNCHANGED <<client, phase>>
    /\ \/ stage = "up" /\ stage' = "closing"
       \/ stage = "down" /\ stage' = "up"

Ends == stage = "closing" /\ stage' = "down" /\ ~MembersMade' /\ ~CallbacksRun /\ UNCHANGED phase

LEMMA StageMoves ==
    ASSUME IInv, [Next]_vars
    PROVE  Unmoved \/ Makes \/ Turns \/ Ends
<1> USE ActionAssumption DEF IInv, TypeOK, Goals, Unmoved, Makes, Turns, Ends
<1>1. UNCHANGED phase => (CallbacksRun' <=> CallbacksRun)
  BY DEF CallbacksRun, InCallback
<1>2. ASSUME NEW n \in ActionNames, NEW ty \in ActionTypes, CreateActionClient(n, ty)
      PROVE  Makes
  BY <1>1, <1>2, ClientCached DEF CreateActionClient
<1>3. ASSUME NEW n \in ActionNames, NEW ty \in ActionTypes, CallActionAsync(n, ty)
      PROVE  Unmoved \/ Makes
  <2>1. CASE client[n] # 0
    BY <1>3, <2>1 DEF CallActionAsync, GetOrCreateClient
  <2>2. CASE client[n] = 0
    <3>1. MembersMade'
      BY <1>3, <2>2, ClientCached DEF CallActionAsync, GetOrCreateClient
    <3>2. \A g \in Goals : InCallback(g)' <=> InCallback(g)
      BY <1>3 DEF CallActionAsync, InCallback, Numbered
    <3> QED BY <1>3, <3>1, <3>2 DEF CallActionAsync, CallbacksRun
  <2> QED BY <2>1, <2>2
<1>4. ASSUME NEW n \in ActionNames, NEW ty \in ActionTypes, CallActionFails(n, ty)
      PROVE  Unmoved \/ Makes
  <2>1. CASE client[n] # 0
    BY <1>1, <1>4, <2>1 DEF CallActionFails, GetOrCreateClient
  <2>2. CASE client[n] = 0
    BY <1>1, <1>4, <2>2, ClientCached DEF CallActionFails, GetOrCreateClient
  <2> QED BY <2>1, <2>2
<1>5. ASSUME NEW g \in Goals, NEW c \in {"active", "over"}, phase' = [phase EXCEPT ![g] = c]
      PROVE  CallbacksRun' => CallbacksRun
  BY <1>5 DEF CallbacksRun, InCallback
<1>6. CASE CloseEnd
  BY <1>6 DEF CloseEnd, MembersMade, CallbacksRun
<1>7. CASE Open \/ CloseBegin
  BY <1>7 DEF Open, CloseBegin
<1>8. ASSUME NEW g \in Goals, Callback(g) \/ Feedback(g) PROVE Unmoved
  <2>1. CASE GoalAccepted(g) \/ GoalFinished(g)
    BY <2>1 DEF GoalAccepted, GoalFinished, Served
  <2>2. CASE UserToldAccepted(g) \/ GoalRejected(g) \/ UserToldResult(g)
    BY <1>5, <2>2 DEF UserToldAccepted, GoalRejected, UserToldResult
  <2>3. CASE Feedback(g)
    BY <1>1, <2>3 DEF Feedback
  <2> QED BY <1>8, <2>1, <2>2, <2>3 DEF Callback
<1>9. ASSUME NEW n \in ActionNames, NEW ty \in ActionTypes, NEW g,
             CancelAllGoals(n, ty) \/ CancelGoal(n, ty, g) \/ CancelGoalsBefore(n, ty, g)
      PROVE  Unmoved
  BY <1>1, <1>9 DEF CancelAllGoals, CancelGoal, CancelGoalsBefore
<1>10. ASSUME NEW g \in Goals,
              ServerAnswers(g) \/ ServerExecutes(g) \/ ServerCancels(g) \/ ServerFinishes(g)
       PROVE  Unmoved
  BY <1>1, <1>10 DEF ServerAnswers, ServerExecutes, ServerCancels, ServerFinishes
<1>11. CASE ServerCrashes \/ ServerRestarts
  BY <1>1, <1>11 DEF ServerCrashes, ServerRestarts
<1>12. CASE UNCHANGED vars
  BY <1>1, <1>12 DEF vars
<1> HIDE DEF Unmoved, Makes, Turns, Ends
<1> QED
  BY <1>2, <1>3, <1>4, <1>6, <1>7, <1>8, <1>9, <1>10, <1>11, <1>12 DEF Next

\* A node at rest stays at rest until it is opened.
LEMMA RestsStep ==
    ASSUME IInv, Rests, [Next]_vars
    PROVE  Rests'
<1> USE DEF Rests
<1>1. CASE Unmoved
  BY <1>1 DEF Unmoved, MembersMade
<1>2. CASE Makes \/ Turns
  BY <1>2 DEF Makes, Turns
<1>3. CASE Ends
  BY <1>3 DEF Ends, CallbacksRun, InCallback
<1> QED BY <1>1, <1>2, <1>3, StageMoves

\* Every step is one of the session, or leaves it as it is.
LEMMA SessionStep ==
    ASSUME IInv, Rests, [Next]_vars
    PROVE  [Session!Next]_(Session!vars)
<1> USE DEF Session!Next, Session!vars
<1>1. CASE Unmoved
  <2>1. MembersMade' <=> MembersMade
    BY <1>1 DEF Unmoved, MembersMade
  <2>2. CASE CallbacksRun'
    <3>1. stage # "down"
      BY <1>1, <2>2 DEF Unmoved, Rests
    <3> QED BY <1>1, <2>1, <2>2, <3>1 DEF Unmoved, Session!WorkBegins
  <2>3. CASE ~CallbacksRun'
    BY <1>1, <2>1, <2>3 DEF Unmoved, Session!WorkEnds
  <2> QED BY <2>2, <2>3
<1>2. ASSUME Makes PROVE Session!Registers
  <2>1. CallbacksRun' <=> CallbacksRun
    BY <1>2 DEF Makes
  <2> QED BY <1>2, <2>1 DEF Makes, Session!Registers
<1>3. ASSUME Turns PROVE Session!Closes \/ Session!Opens
  <2>1. MembersMade' <=> MembersMade
    BY <1>3 DEF Turns, MembersMade
  <2>2. CallbacksRun' <=> CallbacksRun
    BY <1>3 DEF Turns, CallbacksRun, InCallback
  <2> QED BY <1>3, <2>1, <2>2 DEF Turns, Session!Closes, Session!Opens
<1>4. CASE Ends
  <2>1. ~CallbacksRun'
    BY <1>4 DEF Ends, CallbacksRun, InCallback
  <2> QED BY <1>4, <2>1 DEF Ends, Session!Closed
<1> QED BY <1>1, <1>2, <1>3, <1>4, StageMoves

\* The action client keeps the session of the node, goals that are not over included: none of
\* their callbacks runs, and no client is cached, when shutdown() has returned.
THEOREM ActionsKeepSession == Spec => Session!Spec
<1>1. Init => Session!Init /\ Rests
  <2>1. SUFFICES ASSUME Init PROVE Session!Init /\ Rests
    OBVIOUS
  <2>2. stage = "down" /\ ~CallbacksRun /\ ~MembersMade
    BY <2>1 DEF Init, CallbacksRun, InCallback, MembersMade
  <2>3. MembersMade \in BOOLEAN
    BY DEF MembersMade
  <2> QED BY <2>2, <2>3 DEF Session!Init, Rests
<1> QED
  BY <1>1, RestsStep, SessionStep, ClientInvariant, PTL DEF Spec, Session!Spec
=============================================================================
