-------------------------- MODULE ServiceCallProofs --------------------------
(***************************************************************************)
(* For any threads, services, topics and bounds: every variable keeps its  *)
(* type, shutdown() leaves no worker behind, and callService() gives up    *)
(* only on a lost request, as long as there are more workers than          *)
(* callbacks that can wait for mtx_.                                       *)
(***************************************************************************)
EXTENDS ServiceCall, FiniteSetTheorems, TLAPS

Points == {"idle", "running", "locking", "seeking", "waiting", "draining", "ending"}

OpTypes ==
    [kind : {"none", "use", "sync", "async", "serve", "create", "shutdown"},
     service : Services \cup {Null}, type : Types \cup {Null}, id : 0..MaxCalls]

\* A call carries what its operation needs.
Fitting ==
    \A t \in Threads :
        /\ pc[t] \in {"seeking", "waiting"} => op[t].kind \in {"sync", "async"}
        /\ op[t].kind \in {"sync", "async", "create"} =>
              op[t].service \in Services /\ op[t].type \in Types /\ op[t].id \in Calls
        /\ op[t].kind = "serve" => op[t].service \in Local

\* The part of TypeOK about the clients.
ClientsTyped ==
    /\ client \in [Services -> 0..MaxCalls] /\ clientType \in [Services -> Types \cup {Null}]
    /\ \A s \in Services : client[s] = 0 <=> clientType[s] = Null

\* The inductive invariant.
IInv == TypeOK /\ Fitting

\* A node that is down runs no callback and has nothing made for it.
NoWorkAfterShutdown == stage = "down" => \A w \in Workers : ~Busy(w)
NothingLeft == stage = "down" => ~MembersMade

\* A node that closes has one shutdown() that waits.
OneCloses ==
    /\ \A t \in Threads : pc[t] = "draining" => stage = "closing"
    /\ \A t, u \in Threads : pc[t] = "draining" /\ pc[u] = "draining" => t = u

\* The inductive invariant of the session.
SInv == IInv /\ NoWorkAfterShutdown /\ NothingLeft /\ OneCloses

\* Only callbacks of topics make calls of the node, and there are fewer such topics than
\* workers.
EnoughWorkers ==
    /\ Using \cup Calling \subseteq Topics /\ IsFiniteSet(Using \cup Calling)
    /\ IsFiniteSet(Workers) /\ Cardinality(Using \cup Calling) < Cardinality(Workers)

Asks(t) == op[t].kind \in {"sync", "async"}

\* A call has a number of its own, and no request is made under it before the call sends one.
Numbered ==
    /\ \A r \in Calls : r > made => request[r].state = "none"
    /\ \A t \in Threads : op[t].id <= made
    /\ \A t, u \in Threads : Asks(t) /\ Asks(u) /\ op[t].id = op[u].id => t = u
    /\ \A t \in Threads :
          pc[t] \in {"locking", "seeking"} /\ Asks(t) => request[op[t].id].state = "none"

\* Whoever seeks a service or waits for an answer holds mtx_.
Held == \A t \in Threads : pc[t] \in {"seeking", "waiting"} => mtx = t

\* What callService() waits for: a request to a service that is there, of the cached client.
Awaited ==
    \A t \in Threads : pc[t] = "waiting" =>
        LET q == request[op[t].id] IN
        /\ q.state # "none" /\ q.service \in servers \cup Remote
        /\ q.client = client[q.service]

\* The callbacks that run, and the requests that they are about; the groups are exclusive.
Working ==
    /\ \A w \in Workers : job[w].kind = "none" <=> pc[w] = "idle"
    /\ \A w \in Workers :
          /\ job[w].kind = "serve" => request[job[w].of].state = "serving"
          /\ job[w].kind = "answer" => request[job[w].of].state = "answered"
    /\ \A v, w \in Workers : job[v] = job[w] /\ job[v].kind # "none" => v = w
    /\ \A r \in Calls : request[r].state = "serving" =>
          \E w \in Workers : job[w].kind = "serve" /\ job[w].of = r

\* A callback that is in a call of the node is one of a topic.
Blocked ==
    \A w \in Workers : pc[w] \notin {"idle", "running", "ending"} =>
        job[w].kind = "topic" /\ job[w].of \in Using \cup Calling

\* The inductive invariant of AnswerInTime.
AInv == IInv /\ Numbered /\ Held /\ Awaited /\ Working /\ Blocked /\ AnswerInTime
-----------------------------------------------------------------------------
USE ServiceCallAssumption DEF Calls, Services, Threads

LEMMA InitTyped == Init => IInv
  BY DEF Init, IInv, TypeOK, Requests, Jobs, Fitting, NoOp, NoJob, NoRequest

\* A request that moves on, or whose caller does, is still a request.
LEMMA RequestMoves ==
    ASSUME request \in [Calls -> Requests], NEW r,
           \/ \E c \in {"serving", "answered", "handled", "lost"} :
                 request' = [request EXCEPT ![r].state = c]
           \/ \E c \in {"response", "timeout"} : request' = [request EXCEPT ![r].got = c]
    PROVE  request' \in [Calls -> Requests]
<1>1. SUFFICES ASSUME NEW q \in Calls, q = r
               PROVE  request'[q] \in Requests
  OBVIOUS
<1>2. request[q] \in Requests
  OBVIOUS
<1>3. \/ \E c \in {"serving", "answered", "handled", "lost"} :
            request'[q] = [request[q] EXCEPT !.state = c]
      \/ \E c \in {"response", "timeout"} : request'[q] = [request[q] EXCEPT !.got = c]
  BY <1>1
<1> QED
  BY <1>2, <1>3, ZenonT(40) DEF Requests

\* A new client comes with its type.
LEMMA ClientMade ==
    ASSUME IInv, NEW t \in Threads, op[t].kind \in {"sync", "async", "create"}, MakeClient(t)
    PROVE  ClientsTyped'
<1>1. op[t].service \in Services /\ op[t].type \in Types /\ op[t].id \in Calls
  BY DEF IInv, Fitting
<1>2. op[t].id # 0 /\ op[t].type # Null
  BY <1>1, ServiceCallAssumption DEF Calls
<1> QED
  BY <1>1, <1>2 DEF IInv, TypeOK, MakeClient, ClientsTyped, Calls

LEMMA StepTyped ==
    ASSUME IInv, [Next]_vars
    PROVE  IInv'
<1> USE DEF IInv
<1>1. ASSUME NEW t \in Threads, NEW kind \in {"sync", "async", "create"}, NEW s \in Services,
             NEW ty \in Types, Begin(t, kind, s, ty)
      PROVE  IInv'
  BY <1>1 DEF Begin, TypeOK, Fitting, entities
<1>2. ASSUME NEW u \in Users, UserCalls(u)
      PROVE  IInv'
  <2>1. ASSUME NEW s \in Local, Begin(u, "serve", s, Null)
        PROVE  IInv'
    BY <2>1 DEF Begin, TypeOK, Fitting, entities
  <2>2. ASSUME Begin(u, "shutdown", Null, Null)
        PROVE  IInv'
    BY <2>2 DEF Begin, TypeOK, Fitting, entities
  <2> QED
    BY <1>1, <1>2, <2>1, <2>2 DEF UserCalls
<1>3. ASSUME NEW w \in Workers, CallbackCalls(w)
      PROVE  IInv'
  BY <1>1, <1>3 DEF CallbackCalls
<1>4. ASSUME NEW w \in Workers, CallbackUses(w)
      PROVE  IInv'
  BY <1>4 DEF CallbackUses, TypeOK, Fitting, entities, NoOp
<1>5. ASSUME NEW t \in Threads, Use(t)
      PROVE  IInv'
  BY <1>5 DEF Use, Locks, Returned, Back, TypeOK, Fitting, entities, NoOp
<1>6. ASSUME NEW t \in Threads, CreateService(t)
      PROVE  IInv'
  BY <1>6 DEF CreateService, Locks, Returned, Back, TypeOK, Fitting, entities, NoOp
<1>7. ASSUME NEW t \in Threads, CreateServiceClient(t)
      PROVE  IInv'
  <2>1. op[t].kind = "create" /\ (MakeClient(t) \/ UNCHANGED <<client, clientType>>)
    BY <1>7 DEF CreateServiceClient, Locks
  <2>2. ClientsTyped'
    BY <2>1, ClientMade DEF ClientsTyped, TypeOK
  <2> QED
    BY <1>7, <2>2 DEF CreateServiceClient, Locks, Returned, Back, TypeOK, Fitting, ClientsTyped, NoOp
<1>8. ASSUME NEW t \in Threads, CallRefused(t)
      PROVE  IInv'
  BY <1>8 DEF CallRefused, Locks, Returned, Back, TypeOK, Fitting, entities, NoOp
<1>9. ASSUME NEW t \in Threads, CallLocks(t)
      PROVE  IInv'
  <2>1. op[t].kind \in {"sync", "async"} /\ (MakeClient(t) \/ UNCHANGED <<client, clientType>>)
    BY <1>9 DEF CallLocks, Locks
  <2>2. ClientsTyped'
    BY <2>1, ClientMade DEF ClientsTyped, TypeOK
  <2> QED
    BY <1>9, <2>2 DEF CallLocks, Locks, TypeOK, Fitting, ClientsTyped
<1>10. ASSUME NEW t \in Threads, CallGivesUp(t)
       PROVE  IInv'
  BY <1>10 DEF CallGivesUp, Returned, Back, TypeOK, Fitting, entities, NoOp
<1>11. ASSUME NEW t \in Threads, CallSends(t)
       PROVE  IInv'
  <2>1. op[t].service \in Services /\ op[t].id \in Calls
    BY <1>11 DEF CallSends, TypeOK, Fitting
  <2>2. request' \in [Calls -> Requests]
    <3>1. [state |-> "sent", service |-> op[t].service, client |-> client[op[t].service],
           sync |-> op[t].kind = "sync", got |-> "nothing"] \in Requests
      BY <2>1 DEF TypeOK, Requests
    <3> QED
      BY <1>11, <3>1 DEF CallSends, TypeOK
  <2>3. CASE op[t].kind = "sync"
    BY <1>11, <2>2, <2>3, ZenonT(40) DEF CallSends, TypeOK, Fitting, entities
  <2>4. CASE op[t].kind # "sync"
    <3>1. /\ mtx' = Null /\ Returned(t)
          /\ UNCHANGED <<stage, patient, job, entities, made, messages>>
      BY <1>11, <2>4 DEF CallSends
    <3> QED
      BY <2>2, <3>1 DEF Returned, Back, TypeOK, Fitting, entities, NoOp
  <2> QED
    BY <2>3, <2>4
<1>12. ASSUME NEW t \in Threads, CallAnswered(t)
       PROVE  IInv'
  <2>1. request' \in [Calls -> Requests]
    BY <1>12, RequestMoves DEF CallAnswered, TypeOK
  <2> QED
    BY <1>12, <2>1 DEF CallAnswered, Returned, Back, TypeOK, Fitting, entities, NoOp
<1>13. ASSUME NEW t \in Threads, CallTimesOut(t)
       PROVE  IInv'
  <2>1. request' \in [Calls -> Requests]
    BY <1>13, RequestMoves DEF CallTimesOut, TypeOK
  <2> QED
    BY <1>13, <2>1 DEF CallTimesOut, Returned, Back, TypeOK, Fitting, entities, NoOp
<1>14. ASSUME NEW w \in Workers, NEW r \in Calls, TakesRequest(w, r)
       PROVE  IInv'
  <2>1. request' \in [Calls -> Requests]
    BY <1>14, RequestMoves DEF TakesRequest, TypeOK
  <2> QED
    BY <1>14, <2>1 DEF TakesRequest, Takes, TypeOK, Jobs, Fitting, entities, NoJob
<1>15. ASSUME NEW w \in Workers, NEW r \in Calls, TakesAnswer(w, r)
       PROVE  IInv'
  BY <1>15 DEF TakesAnswer, Takes, TypeOK, Jobs, Fitting, entities, NoJob
<1>16. ASSUME NEW w \in Workers, NEW x \in Topics, TakesMessage(w, x)
       PROVE  IInv'
  BY <1>16 DEF TakesMessage, MessageReady, Takes, TypeOK, Jobs, Fitting, entities, NoJob
<1>17. ASSUME NEW w \in Workers, CallbackEnds(w)
       PROVE  IInv'
  <2>1. request' \in [Calls -> Requests]
    <3>1. CASE job[w].kind = "topic"
      BY <1>17, <3>1 DEF CallbackEnds, TypeOK
    <3>2. CASE job[w].kind # "topic"
      BY <1>17, <3>2, RequestMoves DEF CallbackEnds, TypeOK
    <3> QED
      BY <3>1, <3>2
  <2> QED
    BY <1>17, <2>1 DEF CallbackEnds, TypeOK, Jobs, Fitting, entities, NoJob
<1>18. ASSUME NEW r \in Calls, RemoteAnswers(r) \/ RemoteDies(r)
       PROVE  IInv'
  <2>1. request' \in [Calls -> Requests]
    <3>1. \E c \in {"answered", "lost"} : request' = [request EXCEPT ![r].state = c]
      BY <1>18 DEF RemoteAnswers, RemoteDies
    <3> QED
      BY <3>1, RequestMoves DEF TypeOK
  <2> QED
    BY <1>18, <2>1 DEF RemoteAnswers, RemoteDies, TypeOK, Fitting, entities, lock
<1>19. ASSUME NEW t \in Threads, ShutdownBegins(t)
       PROVE  IInv'
  <2>1. CASE stage = "up"
    BY <1>19, <2>1 DEF ShutdownBegins, MutexReleased, Locks, TypeOK, Fitting, entities
  <2>2. CASE stage # "up"
    <3>1. Returned(t) /\ UNCHANGED <<stage, mtx, patient, job, entities, request, made, messages>>
      BY <1>19, <2>2 DEF ShutdownBegins
    <3> QED
      BY <3>1 DEF Returned, Back, TypeOK, Fitting, entities, NoOp
  <2> QED
    BY <2>1, <2>2
<1>20. ASSUME NEW t \in Threads, ShutdownEnds(t)
       PROVE  IInv'
  BY <1>20 DEF ShutdownEnds, TypesCleared, Returned, Back, TypeOK, Fitting, entities, NoOp
<1>21. ASSUME UNCHANGED vars
       PROVE  IInv'
  BY <1>21 DEF vars, lock, entities, TypeOK, Fitting
<1> HIDE DEF IInv
<1> QED
  BY <1>2, <1>3, <1>4, <1>5, <1>6, <1>7, <1>8, <1>9, <1>10, <1>11, <1>12, <1>13, <1>14, <1>15,
     <1>16, <1>17, <1>18, <1>19, <1>20, <1>21 DEF Next, Progress, Locked

\* A step with the node down starts no callback, and the node goes down when all are over.
LEMMA StepLeavesNoWork ==
    ASSUME IInv, NoWorkAfterShutdown, [Next]_vars
    PROVE  NoWorkAfterShutdown'
<1> USE DEF IInv, TypeOK, NoWorkAfterShutdown, Busy
<1> SUFFICES ASSUME stage' = "down", NEW w \in Workers
             PROVE  pc'[w] = "idle"
  OBVIOUS
<1>1. CASE stage # "down"
  <2>1. PICK t \in Threads : ShutdownEnds(t)
    BY <1>1 DEF Next, Progress, Locked, UserCalls, CallbackCalls, Begin, CallbackUses, Use,
       CreateService, CreateServiceClient, CallRefused, CallLocks, CallGivesUp, CallSends,
       CallAnswered, CallTimesOut, TakesRequest, TakesAnswer, TakesMessage, Takes, CallbackEnds,
       RemoteAnswers, RemoteDies, ShutdownBegins, vars
  <2>2. Drained /\ pc[t] = "draining" /\ pc' = [pc EXCEPT ![t] = Back(t)]
    BY <2>1 DEF ShutdownEnds, Returned
  <2> QED
    BY <2>2, SMTT(30) DEF Drained
<1>2. CASE stage = "down"
  <2>1. pc[w] = "idle"
    BY <1>2
  <2>2. ASSUME NEW t \in Threads, pc[t] # "idle", NEW c, pc' = [pc EXCEPT ![t] = c]
        PROVE  pc'[w] = "idle"
    BY <2>1, <2>2
  <2>3. CASE UNCHANGED pc
    BY <2>1, <2>3
  <2>4. ASSUME NEW u \in Users, UserCalls(u)
        PROVE  FALSE
    BY <1>2, <2>4 DEF UserCalls
  <2>5. ASSUME NEW v \in Workers, CallbackCalls(v) \/ CallbackUses(v) \/ CallbackEnds(v)
        PROVE  FALSE
    BY <1>2, <2>5 DEF CallbackCalls, CallbackUses, CallbackEnds
  <2>6. ASSUME NEW v \in Workers, NEW kind, NEW of, Takes(v, kind, of)
        PROVE  FALSE
    BY <1>2, <2>6 DEF Takes
  <2>7. ASSUME NEW t \in Threads, Locked(t) \/ CallSends(t) \/ CallGivesUp(t) \/ CallAnswered(t)
                                    \/ CallTimesOut(t) \/ ShutdownEnds(t)
        PROVE  pc'[w] = "idle"
    <3>1. pc[t] # "idle"
      BY <2>7 DEF Locked, Locks, Use, CreateService, CreateServiceClient, CallRefused,
         CallLocks,
         ShutdownBegins, CallSends, CallGivesUp, CallAnswered, CallTimesOut, ShutdownEnds
    <3>2. \E c : pc' = [pc EXCEPT ![t] = c]
      BY <2>7 DEF Locked, Use, CreateService, CreateServiceClient, CallRefused, CallLocks,
         ShutdownBegins, CallSends, CallGivesUp, CallAnswered, CallTimesOut, ShutdownEnds, Returned
    <3> QED
      BY <2>2, <3>1, <3>2
  <2>8. ASSUME NEW r \in Calls, RemoteAnswers(r) \/ RemoteDies(r)
        PROVE  UNCHANGED pc
    BY <2>8 DEF RemoteAnswers, RemoteDies, lock
  <2> QED
    BY <2>3, <2>4, <2>5, <2>6, <2>7, <2>8
       DEF Next, Progress, TakesRequest, TakesAnswer, TakesMessage, vars, lock
<1> QED
  BY <1>1, <1>2
-----------------------------------------------------------------------------
(* The session: what a step does to the stage and to what was made for the node. *)

\* No other thread comes to wait in shutdown().
NoneDrains == \A u \in Threads : pc'[u] = "draining" => pc[u] = "draining"

Unmoved == stage' = stage /\ UNCHANGED <<servers, client>> /\ NoneDrains

BusyAsBefore == \A w \in Workers : pc'[w] = "idle" <=> pc[w] = "idle"

Makes == stage = "up" /\ stage' = "up" /\ MembersMade' /\ BusyAsBefore /\ NoneDrains

Closes(t) ==
    /\ stage = "up" /\ stage' = "closing" /\ UNCHANGED <<servers, client>> /\ BusyAsBefore
    /\ \A u \in Threads : pc'[u] = "draining" => u = t \/ pc[u] = "draining"

Ends(t) ==
    /\ pc[t] = "draining" /\ pc' = [pc EXCEPT ![t] = Back(t)] /\ Drained
    /\ stage' = "down" /\ ~MembersMade'

\* A step leaves stage and members alone, makes a member in a node that is up, or is one of
\* the two sections of shutdown().
LEMMA StageMoves ==
    ASSUME IInv, [Next]_vars
    PROVE  Unmoved \/ Makes \/ \E t \in Threads : Closes(t) \/ Ends(t)
<1> USE DEF IInv, TypeOK, lock, entities
<1>1. ASSUME NEW t \in Threads, NEW c \in Points \ {"draining"}, pc' = [pc EXCEPT ![t] = c]
      PROVE  NoneDrains
  BY <1>1 DEF NoneDrains, Points
<1>2. ASSUME NEW t \in Threads, Returned(t)
      PROVE  NoneDrains /\ (pc[t] # "idle" => BusyAsBefore)
  BY <1>2 DEF Returned, Back, NoneDrains, BusyAsBefore
<1>3. ASSUME NEW t \in Threads, MakeClient(t), op[t].kind \in {"sync", "async", "create"}
      PROVE  MembersMade'
  BY <1>3 DEF MakeClient, MembersMade, Fitting
<1>4. ASSUME NEW t \in Threads, CreateService(t) PROVE Unmoved \/ Makes
  <2>1. CASE stage = "up"
    <3>1. servers' # {}
      BY <1>4, <2>1 DEF CreateService
    <3> QED BY <1>2, <1>4, <2>1, <3>1 DEF CreateService, Locks, Makes, MembersMade
  <2>2. CASE stage # "up"
    BY <1>2, <1>4, <2>2 DEF CreateService, Unmoved
  <2> QED BY <2>1, <2>2
<1>5. ASSUME NEW t \in Threads, CreateServiceClient(t) PROVE Unmoved \/ Makes
  <2>1. CASE stage = "up"
    BY <1>2, <1>3, <1>5, <2>1 DEF CreateServiceClient, Locks, Makes
  <2>2. CASE stage # "up"
    BY <1>2, <1>5, <2>2 DEF CreateServiceClient, Unmoved
  <2> QED BY <2>1, <2>2
<1>6. ASSUME NEW t \in Threads, CallLocks(t) PROVE Unmoved \/ Makes
  <2>1. NoneDrains /\ BusyAsBefore /\ stage = "up" /\ stage' = "up"
    BY <1>6 DEF CallLocks, Locks, NoneDrains, BusyAsBefore
  <2>2. CASE client[op[t].service] = 0
    BY <1>3, <1>6, <2>1, <2>2 DEF CallLocks, Makes
  <2>3. CASE client[op[t].service] # 0
    BY <1>6, <2>1, <2>3 DEF CallLocks, Unmoved
  <2> QED BY <2>2, <2>3
<1>7. ASSUME NEW t \in Threads, ShutdownBegins(t) PROVE Unmoved \/ Closes(t)
  <2>1. CASE stage = "up"
    BY <1>7, <2>1 DEF ShutdownBegins, Locks, Closes, BusyAsBefore
  <2>2. CASE stage # "up"
    BY <1>2, <1>7, <2>2 DEF ShutdownBegins, Unmoved
  <2> QED BY <2>1, <2>2
<1>8. ASSUME NEW t \in Threads, ShutdownEnds(t) PROVE Ends(t)
  BY <1>8 DEF ShutdownEnds, Returned, Ends, MembersMade
<1>9. ASSUME NEW t \in Threads, Use(t) \/ CallRefused(t) \/ CallGivesUp(t) \/ CallAnswered(t)
                                  \/ CallTimesOut(t)
      PROVE  Unmoved
  BY <1>2, <1>9 DEF Use, CallRefused, CallGivesUp, CallAnswered, CallTimesOut, Unmoved
<1>10. ASSUME NEW t \in Threads, CallSends(t) PROVE Unmoved
  <2>1. stage' = stage /\ UNCHANGED <<servers, client>>
    BY <1>10 DEF CallSends
  <2>2. CASE op[t].kind = "sync"
    BY <1>1, <1>10, <2>1, <2>2 DEF CallSends, Unmoved, Points
  <2>3. CASE op[t].kind # "sync"
    BY <1>2, <1>10, <2>1, <2>3 DEF CallSends, Unmoved
  <2> QED BY <2>2, <2>3
<1>11. ASSUME NEW t \in Threads, NEW kind, NEW s, NEW ty, Begin(t, kind, s, ty) PROVE Unmoved
  BY <1>1, <1>11 DEF Begin, Unmoved, Points
<1>12. ASSUME NEW u \in Users, UserCalls(u) PROVE Unmoved
  BY <1>11, <1>12 DEF UserCalls
<1>13. ASSUME NEW w \in Workers, CallbackCalls(w) \/ CallbackUses(w) PROVE Unmoved
  BY <1>1, <1>11, <1>13 DEF CallbackCalls, CallbackUses, Unmoved, Points
<1>14. ASSUME NEW w \in Workers, CallbackEnds(w) PROVE Unmoved
  BY <1>1, <1>14 DEF CallbackEnds, Unmoved, Points
<1>15. ASSUME NEW w \in Workers, NEW kind, NEW of, Takes(w, kind, of) PROVE Unmoved
  BY <1>1, <1>15 DEF Takes, Unmoved, Points
<1>16. ASSUME NEW r \in Calls, RemoteAnswers(r) \/ RemoteDies(r) PROVE Unmoved
  BY <1>16 DEF RemoteAnswers, RemoteDies, Unmoved, NoneDrains
<1>17. CASE UNCHANGED vars
  BY <1>17 DEF vars, Unmoved, NoneDrains
<1> QED
  BY <1>4, <1>5, <1>6, <1>7, <1>8, <1>9, <1>10, <1>12, <1>13, <1>14, <1>15, <1>16, <1>17
     DEF Next, Progress, Locked, TakesRequest, TakesAnswer, TakesMessage

\* The shutdown() that waits is the one that closes the node.
LEMMA ClosesStep ==
    ASSUME SInv, [Next]_vars
    PROVE  NothingLeft' /\ OneCloses'
<1> USE DEF SInv, NothingLeft, OneCloses
<1>1. CASE Unmoved
  BY <1>1 DEF Unmoved, NoneDrains, MembersMade
<1>2. CASE Makes
  BY <1>2 DEF Makes, NoneDrains
<1>3. ASSUME NEW t \in Threads, Closes(t) PROVE NothingLeft' /\ OneCloses'
  BY <1>3 DEF Closes
<1>4. ASSUME NEW t \in Threads, Ends(t) PROVE NothingLeft' /\ OneCloses'
  BY <1>4 DEF Ends, Back, IInv, TypeOK
<1> QED BY <1>1, <1>2, <1>3, <1>4, StageMoves

\* Every step is one of the session, or leaves it as it is.
LEMMA SessionStep ==
    ASSUME SInv, [Next]_vars
    PROVE  [Session!Next]_(Session!vars)
<1> USE DEF SInv, Session!Next, Session!vars
<1>1. CASE Unmoved
  <2>1. stage' = stage /\ (MembersMade' <=> MembersMade)
    BY <1>1 DEF Unmoved, MembersMade
  <2>2. CASE CallbacksRun'
    BY <2>1, <2>2, StepLeavesNoWork
       DEF Session!WorkBegins, NoWorkAfterShutdown, CallbacksRun
  <2>3. CASE ~CallbacksRun'
    BY <2>1, <2>3 DEF Session!WorkEnds
  <2> QED BY <2>2, <2>3
<1>2. CASE Makes
  <2>1. CallbacksRun' <=> CallbacksRun
    BY <1>2 DEF Makes, BusyAsBefore, CallbacksRun, Busy
  <2> QED BY <1>2, <2>1 DEF Makes, Session!Registers
<1>3. ASSUME NEW t \in Threads, Closes(t) PROVE Session!Closes
  <2>1. CallbacksRun' <=> CallbacksRun
    BY <1>3 DEF Closes, BusyAsBefore, CallbacksRun, Busy
  <2>2. MembersMade' <=> MembersMade
    BY <1>3 DEF Closes, MembersMade
  <2> QED BY <1>3, <2>1, <2>2 DEF Closes, Session!Closes
<1>4. ASSUME NEW t \in Threads, Ends(t) PROVE Session!Closed
  <2>1. stage = "closing" /\ ~CallbacksRun
    BY <1>4 DEF Ends, OneCloses, Drained, CallbacksRun
  <2>2. ~CallbacksRun'
    BY <1>4, StepLeavesNoWork DEF Ends, NoWorkAfterShutdown, CallbacksRun
  <2> QED BY <1>4, <2>1, <2>2 DEF Ends, Session!Closed
<1> QED BY <1>1, <1>2, <1>3, <1>4, StageMoves
-----------------------------------------------------------------------------
(* The requests, the calls that wait for them, and the workers. *)

\* What a request keeps when the state of one changes, or the outcome of its call.
LEMMA StateOnly ==
    ASSUME request \in [Calls -> Requests], NEW r \in Calls, NEW c,
           request' = [request EXCEPT ![r].state = c]
    PROVE  /\ request'[r].state = c
           /\ \A q \in Calls : q # r => request'[q] = request[q]
           /\ \A q \in Calls :
                 /\ request'[q].service = request[q].service /\ request'[q].got = request[q].got
                 /\ request'[q].client = request[q].client /\ request'[q].sync = request[q].sync
  BY DEF Requests

LEMMA GotOnly ==
    ASSUME request \in [Calls -> Requests], NEW r, NEW c,
           request' = [request EXCEPT ![r].got = c]
    PROVE  /\ \A q \in Calls : q # r => request'[q] = request[q]
           /\ \A q \in Calls :
                 /\ request'[q].state = request[q].state /\ request'[q].service = request[q].service
                 /\ request'[q].client = request[q].client /\ request'[q].sync = request[q].sync
                 /\ request'[q].got \in {request[q].got, c}
  BY DEF Requests

\* What no thread makes under its own number is not there yet.
LEMMA NumberedStep ==
    ASSUME AInv, [Next]_vars
    PROVE  Numbered'
<1> USE DEF Numbered, Asks, Points, OpTypes, lock, entities, NoOp
<1>0. /\ pc \in [Threads -> Points]
      /\ op \in [Threads -> OpTypes]
      /\ request \in [Calls -> Requests] /\ made \in 0..MaxCalls /\ MaxCalls \in Nat
      /\ Users \subseteq Threads /\ Workers \subseteq Threads /\ Calls = 1..MaxCalls
      /\ Numbered /\ Fitting /\ Held /\ Working /\ job \in [Workers -> Jobs]
  BY DEF AInv, IInv, TypeOK
<1> HIDE DEF Threads, Services, Calls
<1>1. ASSUME NEW u \in Users, UserCalls(u) PROVE Numbered'
  <2>1. PICK kind, s, ty : Begin(u, kind, s, ty)
    BY <1>1 DEF UserCalls
  <2> QED BY <1>0, <2>1 DEF Begin
<1>2. ASSUME NEW w \in Workers, CallbackCalls(w) PROVE Numbered'
  BY <1>0, <1>2 DEF CallbackCalls, Begin
<1>3. ASSUME NEW w \in Workers, CallbackUses(w) PROVE Numbered'
  BY <1>0, <1>3 DEF CallbackUses
<1>4. ASSUME NEW t \in Threads, Use(t) PROVE Numbered'
  BY <1>0, <1>4 DEF Use, Locks, Returned, Back
<1>5. ASSUME NEW t \in Threads, CreateService(t) PROVE Numbered'
  BY <1>0, <1>5 DEF CreateService, Locks, Returned, Back
<1>6. ASSUME NEW t \in Threads, CreateServiceClient(t) PROVE Numbered'
  BY <1>0, <1>6 DEF CreateServiceClient, Locks, Returned, Back
<1>7. ASSUME NEW t \in Threads, CallRefused(t) PROVE Numbered'
  BY <1>0, <1>7 DEF CallRefused, Locks, Returned, Back
<1>8. ASSUME NEW t \in Threads, CallLocks(t) PROVE Numbered'
  BY <1>0, <1>8 DEF CallLocks, Locks
<1>9. ASSUME NEW t \in Threads, CallGivesUp(t) PROVE Numbered'
  BY <1>0, <1>9 DEF CallGivesUp, Returned, Back
<1>10. ASSUME NEW t \in Threads, CallSends(t) PROVE Numbered'
  <2>1. /\ op[t].id \in Calls /\ Asks(t) /\ pc[t] = "seeking" /\ request[op[t].id].state = "none"
    BY <1>0, <1>10 DEF CallSends, Fitting, Numbered, Asks
  <2>2. /\ \A q \in Calls : q # op[t].id => request'[q] = request[q]
        /\ request'[op[t].id].state = "sent" /\ request'[op[t].id].got = "nothing"
    BY <1>0, <2>1, <1>10 DEF CallSends
  <2>3. /\ UNCHANGED <<stage, patient, job, entities, made>>
        /\ \A u \in Threads : u # t => op'[u] = op[u] /\ pc'[u] = pc[u]
    BY <1>0, <1>10 DEF CallSends, Returned
  <2>4. pc'[t] = "waiting" \/ pc'[t] = Back(t)
    BY <1>0, <1>10 DEF CallSends, Returned
  <2>5. op'[t] = op[t] \/ op'[t] = NoOp
    BY <1>0, <1>10 DEF CallSends, Returned
  <2>6. \A u \in Threads : op'[u] = op[u] \/ op'[u] = NoOp
    BY <2>3, <2>5
  <2>7. \A u \in Threads : op'[u].id <= made /\ (Asks(u)' => op'[u] = op[u] /\ Asks(u))
    BY <1>0, <2>6
  <2>8. op[t].id <= made
    BY <1>0
  <2>9. \A q \in Calls : q > made => request'[q].state = "none"
    <3>1. ASSUME NEW q \in Calls, q > made PROVE request'[q].state = "none"
      <4>1. q # op[t].id
        BY <1>0, <2>8, <3>1
      <4>2. request[q].state = "none"
        BY <1>0, <3>1
      <4> QED BY <2>2, <4>1, <4>2
    <3> QED BY <3>1
  <2>10. \A u \in Threads : pc'[u] \in {"locking", "seeking"} /\ Asks(u)' =>
            request'[op'[u].id].state = "none"
    <3>1. ASSUME NEW u \in Threads, pc'[u] \in {"locking", "seeking"}, Asks(u)'
          PROVE  request'[op'[u].id].state = "none"
      <4>1. u # t
        BY <2>4, <3>1 DEF Back
      <4>2. op'[u] = op[u] /\ pc'[u] = pc[u] /\ Asks(u)
        BY <2>3, <2>7, <3>1, <4>1
      <4>3. op[u].id \in Calls /\ op[u].id # op[t].id
        BY <1>0, <2>1, <4>1, <4>2 DEF Fitting
      <4> QED BY <1>0, <2>2, <3>1, <4>2, <4>3
    <3> QED BY <3>1
  <2> QED BY <1>0, <2>3, <2>7, <2>9, <2>10
<1>11. ASSUME NEW t \in Threads, CallAnswered(t) PROVE Numbered'
  BY <1>0, <1>11 DEF CallAnswered, Returned, Back
<1>12. ASSUME NEW t \in Threads, CallTimesOut(t) PROVE Numbered'
  BY <1>0, <1>12 DEF CallTimesOut, Returned, Back
<1>13. ASSUME NEW w \in Workers, NEW r \in Calls, TakesRequest(w, r) PROVE Numbered'
  BY <1>0, <1>13 DEF TakesRequest, Takes, RequestReady, Busy
<1>14. ASSUME NEW w \in Workers, NEW r \in Calls, TakesAnswer(w, r) PROVE Numbered'
  BY <1>0, <1>14 DEF TakesAnswer, Takes, AnswerReady, Busy
<1>15. ASSUME NEW w \in Workers, NEW x \in Topics, TakesMessage(w, x) PROVE Numbered'
  BY <1>0, <1>15 DEF TakesMessage, Takes, Busy
<1>16. ASSUME NEW w \in Workers, CallbackEnds(w) PROVE Numbered'
  <2>1. CASE job[w].kind = "topic"
    BY <1>0, <1>16, <2>1 DEF CallbackEnds
  <2>2. CASE job[w].kind # "topic"
    <3>1. PICK c \in {"answered", "handled"} : request' = [request EXCEPT ![job[w].of].state = c]
      BY <1>16, <2>2 DEF CallbackEnds
    <3>2. /\ job[w].of \in Calls /\ request[job[w].of].state \in {"serving", "answered"}
          /\ job[w].kind \in {"serve", "answer"}
      BY <1>0, <1>16, <2>2 DEF CallbackEnds, Working, Jobs
    <3>3. /\ \A q \in Calls : q # job[w].of => request'[q] = request[q]
          /\ \A q \in Calls :
                /\ request'[q].service = request[q].service /\ request'[q].got = request[q].got
                /\ request'[q].client = request[q].client /\ request'[q].sync = request[q].sync
          /\ request'[job[w].of].state = c
      BY ONLY <1>0, <3>1, <3>2, StateOnly
    <3>4. /\ pc' = [pc EXCEPT ![w] = "idle"] /\ job' = [job EXCEPT ![w] = NoJob]
          /\ pc[w] \in {"running", "ending"}
          /\ UNCHANGED <<stage, patient, mtx, op, entities, made>>
      BY <1>16 DEF CallbackEnds
    <3> QED BY <1>0, <3>1, <3>2, <3>3, <3>4
  <2> QED BY <2>1, <2>2
<1>17. ASSUME NEW r \in Calls, RemoteAnswers(r) \/ RemoteDies(r) PROVE Numbered'
  <2>1. PICK c \in {"answered", "lost"} : request' = [request EXCEPT ![r].state = c]
    BY <1>17 DEF RemoteAnswers, RemoteDies
  <2>2. request[r].state = "sent" /\ UNCHANGED <<stage, patient, lock, job, entities, made>>
    BY <1>17 DEF RemoteAnswers, RemoteDies
  <2>3. /\ \A q \in Calls : q # r => request'[q] = request[q]
        /\ \A q \in Calls :
              /\ request'[q].service = request[q].service /\ request'[q].got = request[q].got
              /\ request'[q].client = request[q].client /\ request'[q].sync = request[q].sync
        /\ request'[r].state = c
    BY ONLY <1>0, <2>1, r \in Calls, StateOnly
  <2> HIDE DEF lock, entities
  <2> QED BY <1>0, <2>1, <2>2, <2>3 DEF lock, entities
<1>18. ASSUME NEW t \in Threads, ShutdownBegins(t) PROVE Numbered'
  <2>1. CASE stage = "up"
    BY <1>0, <1>18, <2>1 DEF ShutdownBegins
  <2>2. CASE stage # "up"
    <3>1. Returned(t) /\ UNCHANGED <<made, request>>
      BY <1>18, <2>2 DEF ShutdownBegins
    <3> QED BY <1>0, <3>1 DEF Returned, Back
  <2> QED BY <2>1, <2>2
<1>19. ASSUME NEW t \in Threads, ShutdownEnds(t) PROVE Numbered'
  BY <1>0, <1>19 DEF ShutdownEnds, Returned, Back
<1>20. ASSUME UNCHANGED vars PROVE Numbered'
  BY <1>0, <1>20 DEF vars
<1> QED BY <1>1, <1>2, <1>3, <1>4, <1>5, <1>6, <1>7, <1>8, <1>9, <1>10, <1>11, <1>12,
          <1>13, <1>14, <1>15, <1>16, <1>17, <1>18, <1>19, <1>20 DEF Next, Progress, Locked

\* mtx_ is given to one caller at a time, and kept until the call returns.
LEMMA HeldStep ==
    ASSUME AInv, [Next]_vars
    PROVE  Held'
<1> USE DEF Held, Points, OpTypes, lock, entities, NoOp
<1>0. /\ pc \in [Threads -> Points]
      /\ Users \subseteq Threads /\ Workers \subseteq Threads /\ Null \notin Threads
      /\ Held
  BY DEF AInv, IInv, TypeOK
<1> HIDE DEF Threads, Services, Calls
<1>1. ASSUME NEW u \in Users, UserCalls(u) PROVE Held'
  BY <1>0, <1>1 DEF UserCalls, Begin
<1>2. ASSUME NEW w \in Workers, CallbackCalls(w) PROVE Held'
  BY <1>0, <1>2 DEF CallbackCalls, Begin
<1>3. ASSUME NEW w \in Workers, CallbackUses(w) PROVE Held'
  BY <1>0, <1>3 DEF CallbackUses
<1>4. ASSUME NEW t \in Threads, Use(t) PROVE Held'
  BY <1>0, <1>4 DEF Use, Locks, Returned, Back
<1>5. ASSUME NEW t \in Threads, CreateService(t) PROVE Held'
  BY <1>0, <1>5 DEF CreateService, Locks, Returned, Back
<1>6. ASSUME NEW t \in Threads, CreateServiceClient(t) PROVE Held'
  BY <1>0, <1>6 DEF CreateServiceClient, Locks, Returned, Back
<1>7. ASSUME NEW t \in Threads, CallRefused(t) PROVE Held'
  BY <1>0, <1>7 DEF CallRefused, Locks, Returned, Back
<1>8. ASSUME NEW t \in Threads, CallLocks(t) PROVE Held'
  BY <1>0, <1>8 DEF CallLocks, Locks
<1>9. ASSUME NEW t \in Threads, CallGivesUp(t) PROVE Held'
  BY <1>0, <1>9 DEF CallGivesUp, Returned, Back
<1>10. ASSUME NEW t \in Threads, CallSends(t) PROVE Held'
  BY <1>0, <1>10 DEF CallSends, Returned, Back
<1>11. ASSUME NEW t \in Threads, CallAnswered(t) PROVE Held'
  BY <1>0, <1>11 DEF CallAnswered, Returned, Back
<1>12. ASSUME NEW t \in Threads, CallTimesOut(t) PROVE Held'
  BY <1>0, <1>12 DEF CallTimesOut, Returned, Back
<1>13. ASSUME NEW w \in Workers, NEW r \in Calls, TakesRequest(w, r) PROVE Held'
  BY <1>0, <1>13 DEF TakesRequest, Takes, RequestReady, Busy
<1>14. ASSUME NEW w \in Workers, NEW r \in Calls, TakesAnswer(w, r) PROVE Held'
  BY <1>0, <1>14 DEF TakesAnswer, Takes, AnswerReady, Busy
<1>15. ASSUME NEW w \in Workers, NEW x \in Topics, TakesMessage(w, x) PROVE Held'
  BY <1>0, <1>15 DEF TakesMessage, Takes, Busy
<1>16. ASSUME NEW w \in Workers, CallbackEnds(w) PROVE Held'
  BY <1>0, <1>16 DEF CallbackEnds
<1>17. ASSUME NEW r \in Calls, RemoteAnswers(r) \/ RemoteDies(r) PROVE Held'
  BY <1>0, <1>17 DEF RemoteAnswers, RemoteDies
<1>18. ASSUME NEW t \in Threads, ShutdownBegins(t) PROVE Held'
  BY <1>0, <1>18 DEF ShutdownBegins, MutexReleased, Locks, Returned, Back
<1>19. ASSUME NEW t \in Threads, ShutdownEnds(t) PROVE Held'
  BY <1>0, <1>19 DEF ShutdownEnds, Returned, Back
<1>20. ASSUME UNCHANGED vars PROVE Held'
  BY <1>0, <1>20, SMTT(30) DEF vars
<1> QED BY <1>1, <1>2, <1>3, <1>4, <1>5, <1>6, <1>7, <1>8, <1>9, <1>10, <1>11, <1>12,
          <1>13, <1>14, <1>15, <1>16, <1>17, <1>18, <1>19, <1>20 DEF Next, Progress, Locked

\* While a call waits, with mtx_ held, no server goes and no client is replaced.
LEMMA AwaitedStep ==
    ASSUME AInv, [Next]_vars
    PROVE  Awaited'
<1> USE DEF Awaited, Held, Points, OpTypes, lock, entities, NoOp
<1>0. /\ pc \in [Threads -> Points]
      /\ request \in [Calls -> Requests] /\ Null \notin Threads
      /\ Users \subseteq Threads /\ Workers \subseteq Threads
      /\ Held /\ Awaited
      /\ \A t \in Threads : pc[t] \in {"seeking", "waiting"} => op[t].id \in Calls
  BY DEF AInv, IInv, TypeOK, Fitting
<1> HIDE DEF Threads, Services, Calls
<1>1. ASSUME NEW u \in Users, UserCalls(u) PROVE Awaited'
  <2>1. PICK kind, s, ty : Begin(u, kind, s, ty)
    BY <1>1 DEF UserCalls
  <2> QED BY <1>0, <2>1 DEF Begin
<1>2. ASSUME NEW w \in Workers, CallbackCalls(w) PROVE Awaited'
  BY <1>0, <1>2 DEF CallbackCalls, Begin
<1>3. ASSUME NEW w \in Workers, CallbackUses(w) PROVE Awaited'
  BY <1>0, <1>3 DEF CallbackUses
<1>4. ASSUME NEW t \in Threads, Use(t) PROVE Awaited'
  BY <1>0, <1>4 DEF Use, Locks, Returned, Back
<1>5. ASSUME NEW t \in Threads, CreateService(t) PROVE Awaited'
  BY <1>0, <1>5 DEF CreateService, Locks, Returned, Back
<1>6. ASSUME NEW t \in Threads, CreateServiceClient(t) PROVE Awaited'
  <2>1. mtx = Null /\ \A u \in Threads : pc[u] # "waiting"
    BY <1>0, <1>6 DEF CreateServiceClient, Locks
  <2>2. pc' = [pc EXCEPT ![t] = pc'[t]] /\ pc'[t] # "waiting"
    BY <1>0, <1>6 DEF CreateServiceClient, Returned, Back
  <2> QED BY <1>0, <2>1, <2>2
<1>7. ASSUME NEW t \in Threads, CallRefused(t) PROVE Awaited'
  BY <1>0, <1>7 DEF CallRefused, Locks, Returned, Back
<1>8. ASSUME NEW t \in Threads, CallLocks(t) PROVE Awaited'
  <2>1. mtx = Null /\ \A u \in Threads : pc[u] # "waiting"
    BY <1>0, <1>8 DEF CallLocks, Locks
  <2>2. pc' = [pc EXCEPT ![t] = pc'[t]] /\ pc'[t] # "waiting"
    BY <1>0, <1>8 DEF CallLocks
  <2> QED BY <1>0, <2>1, <2>2
<1>9. ASSUME NEW t \in Threads, CallGivesUp(t) PROVE Awaited'
  BY <1>0, <1>9 DEF CallGivesUp, Returned, Back
<1>10. ASSUME NEW t \in Threads, CallSends(t) PROVE Awaited'
  <2>1. /\ op[t].id \in Calls /\ mtx = t /\ Available(op[t].service)
        /\ UNCHANGED <<entities, job>> /\ \A u \in Threads : u # t => pc'[u] = pc[u]
    BY <1>0, <1>10 DEF CallSends, Returned
  <2>2. \A u \in Threads : u # t => pc'[u] # "waiting"
    BY <1>0, <2>1
  <2>3. request'[op[t].id] =
           [state |-> "sent", service |-> op[t].service, client |-> client[op[t].service],
            sync |-> op[t].kind = "sync", got |-> "nothing"]
    BY <1>0, <2>1, <1>10 DEF CallSends
  <2>4. pc'[t] = "waiting" => op' = op
    BY <1>0, <1>10 DEF CallSends, Returned, Back
  <2> QED BY <2>1, <2>2, <2>3, <2>4 DEF Available
<1>11. ASSUME NEW t \in Threads, CallAnswered(t) PROVE Awaited'
  BY <1>0, <1>11 DEF CallAnswered, Returned, Back
<1>12. ASSUME NEW t \in Threads, CallTimesOut(t) PROVE Awaited'
  BY <1>0, <1>12 DEF CallTimesOut, Returned, Back
<1>13. ASSUME NEW w \in Workers, NEW r \in Calls, TakesRequest(w, r) PROVE Awaited'
  BY <1>0, <1>13 DEF TakesRequest, Takes, RequestReady, Busy
<1>14. ASSUME NEW w \in Workers, NEW r \in Calls, TakesAnswer(w, r) PROVE Awaited'
  BY <1>0, <1>14 DEF TakesAnswer, Takes, AnswerReady, Busy
<1>15. ASSUME NEW w \in Workers, NEW x \in Topics, TakesMessage(w, x) PROVE Awaited'
  BY <1>0, <1>15 DEF TakesMessage, Takes, Busy
<1>16. ASSUME NEW w \in Workers, CallbackEnds(w) PROVE Awaited'
  BY <1>0, <1>16 DEF CallbackEnds
<1>17. ASSUME NEW r \in Calls, RemoteAnswers(r) \/ RemoteDies(r) PROVE Awaited'
  <2>1. PICK c \in {"answered", "lost"} : request' = [request EXCEPT ![r].state = c]
    BY <1>17 DEF RemoteAnswers, RemoteDies
  <2>2. request[r].state = "sent" /\ UNCHANGED <<stage, patient, lock, job, entities, made>>
    BY <1>17 DEF RemoteAnswers, RemoteDies
  <2>3. /\ \A q \in Calls : q # r => request'[q] = request[q]
        /\ \A q \in Calls :
              /\ request'[q].service = request[q].service /\ request'[q].got = request[q].got
              /\ request'[q].client = request[q].client /\ request'[q].sync = request[q].sync
        /\ request'[r].state = c
    BY ONLY <1>0, <2>1, r \in Calls, StateOnly
  <2> HIDE DEF lock, entities
  <2> QED BY <1>0, <2>1, <2>2, <2>3 DEF lock, entities
<1>18. ASSUME NEW t \in Threads, ShutdownBegins(t) PROVE Awaited'
  <2>1. mtx = Null /\ \A u \in Threads : pc[u] # "waiting"
    BY <1>0, <1>18 DEF ShutdownBegins, Locks
  <2>2. pc' = [pc EXCEPT ![t] = pc'[t]] /\ pc'[t] # "waiting"
    BY <1>0, <1>18 DEF ShutdownBegins, Returned, Back
  <2> QED BY <1>0, <2>1, <2>2
<1>19. ASSUME NEW t \in Threads, ShutdownEnds(t) PROVE Awaited'
  <2>1. mtx = Null /\ \A u \in Threads : pc[u] # "waiting"
    BY <1>0, <1>19 DEF ShutdownEnds, Locks
  <2>2. pc' = [pc EXCEPT ![t] = pc'[t]] /\ pc'[t] # "waiting"
    BY <1>0, <1>19 DEF ShutdownEnds, Returned, Back
  <2> QED BY <1>0, <2>1, <2>2
<1>20. ASSUME UNCHANGED vars PROVE Awaited'
  BY <1>0, <1>20 DEF vars
<1> QED BY <1>1, <1>2, <1>3, <1>4, <1>5, <1>6, <1>7, <1>8, <1>9, <1>10, <1>11, <1>12,
          <1>13, <1>14, <1>15, <1>16, <1>17, <1>18, <1>19, <1>20 DEF Next, Progress, Locked

\* A request is served, and an answer brought, by one worker at a time.
LEMMA WorkingStep ==
    ASSUME AInv, [Next]_vars
    PROVE  Working'
<1> USE DEF Working, Points, OpTypes, lock, entities, NoOp
<1>0. /\ pc \in [Threads -> Points]
      /\ op \in [Threads -> OpTypes]
      /\ request \in [Calls -> Requests] /\ job \in [Workers -> Jobs]
      /\ Users \subseteq Threads /\ Workers \subseteq Threads /\ Users \cap Workers = {}
      /\ Working /\ Numbered /\ Fitting
  BY DEF AInv, IInv, TypeOK
<1> HIDE DEF Threads, Services, Calls
<1>1. ASSUME NEW u \in Users, UserCalls(u) PROVE Working'
  BY <1>0, <1>1 DEF UserCalls, Begin
<1>2. ASSUME NEW w \in Workers, CallbackCalls(w) PROVE Working'
  BY <1>0, <1>2 DEF CallbackCalls, Begin
<1>3. ASSUME NEW w \in Workers, CallbackUses(w) PROVE Working'
  BY <1>0, <1>3 DEF CallbackUses
<1>4. ASSUME NEW t \in Threads, Use(t) PROVE Working'
  BY <1>0, <1>4 DEF Use, Locks, Returned, Back
<1>5. ASSUME NEW t \in Threads, CreateService(t) PROVE Working'
  BY <1>0, <1>5 DEF CreateService, Locks, Returned, Back
<1>6. ASSUME NEW t \in Threads, CreateServiceClient(t) PROVE Working'
  BY <1>0, <1>6 DEF CreateServiceClient, Locks, Returned, Back
<1>7. ASSUME NEW t \in Threads, CallRefused(t) PROVE Working'
  BY <1>0, <1>7 DEF CallRefused, Locks, Returned, Back
<1>8. ASSUME NEW t \in Threads, CallLocks(t) PROVE Working'
  BY <1>0, <1>8 DEF CallLocks, Locks
<1>9. ASSUME NEW t \in Threads, CallGivesUp(t) PROVE Working'
  BY <1>0, <1>9 DEF CallGivesUp, Returned, Back
<1>10. ASSUME NEW t \in Threads, CallSends(t) PROVE Working'
  <2>1. /\ op[t].id \in Calls /\ Asks(t) /\ pc[t] = "seeking" /\ request[op[t].id].state = "none"
    BY <1>0, <1>10 DEF CallSends, Fitting, Numbered, Asks
  <2>2. /\ \A q \in Calls : q # op[t].id => request'[q] = request[q]
        /\ request'[op[t].id].state = "sent" /\ request'[op[t].id].got = "nothing"
    BY <1>0, <2>1, <1>10 DEF CallSends
  <2>3. /\ UNCHANGED <<stage, patient, job, entities, made>>
        /\ \A u \in Threads : u # t => op'[u] = op[u] /\ pc'[u] = pc[u]
    BY <1>0, <1>10 DEF CallSends, Returned
  <2>4. pc'[t] = "waiting" \/ pc'[t] = Back(t)
    BY <1>0, <1>10 DEF CallSends, Returned
  <2>5. op'[t] = op[t] \/ op'[t] = NoOp
    BY <1>0, <1>10 DEF CallSends, Returned
  <2>6. \A v \in Workers : pc'[v] = "idle" <=> pc[v] = "idle"
    <3>1. t \in Workers => pc'[t] # "idle"
      BY <1>0, <2>4 DEF Back
    <3> QED BY <1>0, <2>1, <2>3, <3>1
  <2>7. \A v \in Workers : job[v].kind \in {"serve", "answer"} =>
           request'[job[v].of] = request[job[v].of]
    <3>1. ASSUME NEW v \in Workers, job[v].kind \in {"serve", "answer"}
          PROVE  request'[job[v].of] = request[job[v].of]
      <4>1. job[v].of \in Calls
        BY <1>0, <3>1 DEF Jobs
      <4>2. request[job[v].of].state # "none"
        BY <1>0, <3>1
      <4> QED BY <2>1, <2>2, <4>1, <4>2
    <3> QED BY <3>1
  <2>8. \A q \in Calls : request'[q].state = "serving" => request[q].state = "serving"
    BY <2>2
  <2> QED BY <1>0, <2>3, <2>6, <2>7, <2>8
<1>11. ASSUME NEW t \in Threads, CallAnswered(t) PROVE Working'
  BY <1>0, <1>11 DEF CallAnswered, Returned, Back
<1>12. ASSUME NEW t \in Threads, CallTimesOut(t) PROVE Working'
  BY <1>0, <1>12 DEF CallTimesOut, Returned, Back
<1>13. ASSUME NEW w \in Workers, NEW r \in Calls, TakesRequest(w, r) PROVE Working'
  BY <1>0, <1>13 DEF TakesRequest, Takes, RequestReady, Busy
<1>14. ASSUME NEW w \in Workers, NEW r \in Calls, TakesAnswer(w, r) PROVE Working'
  BY <1>0, <1>14 DEF TakesAnswer, Takes, AnswerReady, Busy
<1>15. ASSUME NEW w \in Workers, NEW x \in Topics, TakesMessage(w, x) PROVE Working'
  <2>1. /\ pc[w] = "idle" /\ pc' = [pc EXCEPT ![w] = "running"] /\ UNCHANGED request
        /\ job' = [job EXCEPT ![w] = [kind |-> "topic", of |-> x]]
    BY <1>15 DEF TakesMessage, Takes, Busy
  <2>2. \A v \in Workers : job[v].kind = "topic" => job[v].of # x
    BY <1>15 DEF TakesMessage, MessageReady, GroupFree, Source
  <2>3. \A v \in Workers : v # w => job'[v] = job[v] /\ pc'[v] = pc[v]
    BY <1>0, <2>1
  <2>4. job'[w] = [kind |-> "topic", of |-> x] /\ pc'[w] = "running"
    BY <1>0, <2>1
  <2>5. job[w].kind = "none"
    BY <1>0, <2>1
  <2>6. \A u, v \in Workers : job'[u] = job'[v] /\ job'[u].kind # "none" => u = v
    BY <1>0, <2>2, <2>3, <2>4
  <2> QED BY <1>0, <2>1, <2>3, <2>4, <2>5, <2>6
<1>16. ASSUME NEW w \in Workers, CallbackEnds(w) PROVE Working'
  <2>1. CASE job[w].kind = "topic"
    <3>1. /\ pc' = [pc EXCEPT ![w] = "idle"] /\ job' = [job EXCEPT ![w] = NoJob]
          /\ UNCHANGED request
      BY <1>16, <2>1 DEF CallbackEnds
    <3>2. \A v \in Workers : v # w => job'[v] = job[v] /\ pc'[v] = pc[v]
      BY <1>0, <3>1
    <3>3. job'[w] = NoJob /\ pc'[w] = "idle"
      BY <1>0, <3>1
    <3>4. \A v \in Workers : job'[v].kind # "none" => v # w
      BY <3>3 DEF NoJob
    <3> QED BY <1>0, <2>1, <3>1, <3>2, <3>3, <3>4 DEF NoJob
  <2>2. CASE job[w].kind # "topic"
    <3>1. PICK c \in {"answered", "handled"} : request' = [request EXCEPT ![job[w].of].state = c]
      BY <1>16, <2>2 DEF CallbackEnds
    <3>2. /\ job[w].of \in Calls /\ request[job[w].of].state \in {"serving", "answered"}
          /\ job[w].kind \in {"serve", "answer"}
      BY <1>0, <1>16, <2>2 DEF CallbackEnds, Working, Jobs
    <3>3. /\ \A q \in Calls : q # job[w].of => request'[q] = request[q]
          /\ \A q \in Calls :
                /\ request'[q].service = request[q].service /\ request'[q].got = request[q].got
                /\ request'[q].client = request[q].client /\ request'[q].sync = request[q].sync
          /\ request'[job[w].of].state = c
      BY ONLY <1>0, <3>1, <3>2, StateOnly
    <3>4. /\ pc' = [pc EXCEPT ![w] = "idle"] /\ job' = [job EXCEPT ![w] = NoJob]
          /\ pc[w] \in {"running", "ending"}
          /\ UNCHANGED <<stage, patient, mtx, op, entities, made>>
      BY <1>16 DEF CallbackEnds
    <3>5. \A v \in Workers : v # w /\ job[v].kind \in {"serve", "answer"} => job[v].of # job[w].of
      <4>1. ASSUME NEW v \in Workers, v # w, job[v].kind \in {"serve", "answer"},
                   job[v].of = job[w].of
            PROVE  FALSE
        <5>1. job[v].kind = job[w].kind
          BY <1>0, <3>2, <4>1
        <5>2. job[v] = job[w]
          BY <1>0, <4>1, <5>1 DEF Jobs
        <5> QED BY <1>0, <4>1, <5>2
      <4> QED BY <4>1
    <3>6. \A v \in Workers : v # w => job'[v] = job[v] /\ pc'[v] = pc[v]
      BY <1>0, <3>4
    <3>7. job'[w] = NoJob /\ pc'[w] = "idle"
      BY <1>0, <3>4
    <3>8. \A q \in Calls : request'[q].state = "serving" =>
             \E v \in Workers : job'[v].kind = "serve" /\ job'[v].of = q
      <4>1. ASSUME NEW q \in Calls, request'[q].state = "serving"
            PROVE  \E v \in Workers : job'[v].kind = "serve" /\ job'[v].of = q
        <5>1. q # job[w].of
          BY <3>1, <3>3, <4>1
        <5>2. PICK v \in Workers : job[v].kind = "serve" /\ job[v].of = q
          BY <1>0, <3>3, <4>1, <5>1
        <5> QED BY <3>6, <5>1, <5>2
      <4> QED BY <4>1
    <3>9. \A v \in Workers :
            /\ job'[v].kind = "serve" => request'[job'[v].of].state = "serving"
            /\ job'[v].kind = "answer" => request'[job'[v].of].state = "answered"
      <4>1. ASSUME NEW v \in Workers, job'[v].kind \in {"serve", "answer"}
            PROVE  request'[job'[v].of] = request[job[v].of] /\ job'[v] = job[v]
        <5>1. v # w
          BY <3>7, <4>1 DEF NoJob
        <5>2. job[v].of \in Calls /\ job'[v] = job[v]
          BY <1>0, <3>6, <4>1, <5>1 DEF Jobs
        <5> QED BY <3>3, <3>5, <4>1, <5>1, <5>2
      <4> QED BY <1>0, <4>1
    <3>10. \A v, u \in Workers : job'[v] = job'[u] /\ job'[v].kind # "none" => v = u
      BY <1>0, <3>6, <3>7 DEF NoJob
    <3>11. \A v \in Workers : job'[v].kind = "none" <=> pc'[v] = "idle"
      BY <1>0, <3>6, <3>7 DEF NoJob
    <3> QED BY ONLY <3>8, <3>9, <3>10, <3>11 DEF Working
  <2> QED BY <2>1, <2>2
<1>17. ASSUME NEW r \in Calls, RemoteAnswers(r) \/ RemoteDies(r) PROVE Working'
  <2>1. PICK c \in {"answered", "lost"} : request' = [request EXCEPT ![r].state = c]
    BY <1>17 DEF RemoteAnswers, RemoteDies
  <2>2. request[r].state = "sent" /\ UNCHANGED <<stage, patient, lock, job, entities, made>>
    BY <1>17 DEF RemoteAnswers, RemoteDies
  <2>3. /\ \A q \in Calls : q # r => request'[q] = request[q]
        /\ \A q \in Calls :
              /\ request'[q].service = request[q].service /\ request'[q].got = request[q].got
              /\ request'[q].client = request[q].client /\ request'[q].sync = request[q].sync
        /\ request'[r].state = c
    BY ONLY <1>0, <2>1, r \in Calls, StateOnly
  <2> HIDE DEF lock, entities
  <2> QED BY <1>0, <2>1, <2>2, <2>3 DEF lock, entities
<1>18. ASSUME NEW t \in Threads, ShutdownBegins(t) PROVE Working'
  BY <1>0, <1>18 DEF ShutdownBegins, MutexReleased, Locks, Returned, Back
<1>19. ASSUME NEW t \in Threads, ShutdownEnds(t) PROVE Working'
  BY <1>0, <1>19 DEF ShutdownEnds, Returned, Back
<1>20. ASSUME UNCHANGED vars PROVE Working'
  BY <1>0, <1>20 DEF vars
<1> QED BY <1>1, <1>2, <1>3, <1>4, <1>5, <1>6, <1>7, <1>8, <1>9, <1>10, <1>11, <1>12,
          <1>13, <1>14, <1>15, <1>16, <1>17, <1>18, <1>19, <1>20 DEF Next, Progress, Locked

\* Only the callback of a topic has a topic for its source.
LEMMA SourceIsTopic ==
    ASSUME request \in [Calls -> Requests], job \in [Workers -> Jobs], NEW w \in Workers,
           Source(w) \in Topics
    PROVE  job[w].kind = "topic" /\ job[w].of = Source(w)
<1>1. Null \notin Topics /\ "answer" \notin Topics /\ Topics \cap Services = {}
  BY DEF Sources
<1>2. CASE job[w].kind = "serve"
  <2>1. request[job[w].of].service \in Services \cup {Null}
    BY <1>2 DEF Jobs, Requests
  <2> QED BY <1>1, <1>2, <2>1 DEF Source
<1> QED BY <1>1, <1>2 DEF Source

\* A callback whose source neither uses nor calls the node goes on and ends.
LEMMA BlockedStep ==
    ASSUME AInv, EnoughWorkers, [Next]_vars
    PROVE  Blocked'
<1> USE DEF Blocked, Points, OpTypes, lock, entities, NoOp
<1>0. /\ pc \in [Threads -> Points]
      /\ request \in [Calls -> Requests] /\ job \in [Workers -> Jobs]
      /\ Users \subseteq Threads /\ Workers \subseteq Threads /\ Users \cap Workers = {}
      /\ Using \cup Calling \subseteq Topics
      /\ Blocked
  BY DEF AInv, IInv, TypeOK, EnoughWorkers
<1> HIDE DEF Threads, Services, Calls
<1>1. ASSUME NEW u \in Users, UserCalls(u) PROVE Blocked'
  BY <1>0, <1>1 DEF UserCalls, Begin
<1>2. ASSUME NEW w \in Workers, CallbackCalls(w) PROVE Blocked'
  <2>1. job[w].kind = "topic" /\ job[w].of \in Using \cup Calling
    BY <1>0, <1>2, SourceIsTopic DEF CallbackCalls
  <2>2. UNCHANGED job /\ \A v \in Workers : v # w => pc'[v] = pc[v]
    BY <1>0, <1>2 DEF CallbackCalls, Begin
  <2> QED BY <1>0, <2>1, <2>2
<1>3. ASSUME NEW w \in Workers, CallbackUses(w) PROVE Blocked'
  <2>1. job[w].kind = "topic" /\ job[w].of \in Using \cup Calling
    BY <1>0, <1>3, SourceIsTopic DEF CallbackUses
  <2>2. UNCHANGED job /\ \A v \in Workers : v # w => pc'[v] = pc[v]
    BY <1>0, <1>3 DEF CallbackUses, Begin
  <2> QED BY <1>0, <2>1, <2>2
<1>4. ASSUME NEW t \in Threads, Use(t) PROVE Blocked'
  BY <1>0, <1>4 DEF Use, Locks, Returned, Back
<1>5. ASSUME NEW t \in Threads, CreateService(t) PROVE Blocked'
  BY <1>0, <1>5 DEF CreateService, Locks, Returned, Back
<1>6. ASSUME NEW t \in Threads, CreateServiceClient(t) PROVE Blocked'
  BY <1>0, <1>6 DEF CreateServiceClient, Locks, Returned, Back
<1>7. ASSUME NEW t \in Threads, CallRefused(t) PROVE Blocked'
  BY <1>0, <1>7 DEF CallRefused, Locks, Returned, Back
<1>8. ASSUME NEW t \in Threads, CallLocks(t) PROVE Blocked'
  BY <1>0, <1>8 DEF CallLocks, Locks
<1>9. ASSUME NEW t \in Threads, CallGivesUp(t) PROVE Blocked'
  BY <1>0, <1>9 DEF CallGivesUp, Returned, Back
<1>10. ASSUME NEW t \in Threads, CallSends(t) PROVE Blocked'
  BY <1>0, <1>10 DEF CallSends, Returned, Back
<1>11. ASSUME NEW t \in Threads, CallAnswered(t) PROVE Blocked'
  BY <1>0, <1>11 DEF CallAnswered, Returned, Back
<1>12. ASSUME NEW t \in Threads, CallTimesOut(t) PROVE Blocked'
  BY <1>0, <1>12 DEF CallTimesOut, Returned, Back
<1>13. ASSUME NEW w \in Workers, NEW r \in Calls, TakesRequest(w, r) PROVE Blocked'
  BY <1>0, <1>13 DEF TakesRequest, Takes, RequestReady, Busy
<1>14. ASSUME NEW w \in Workers, NEW r \in Calls, TakesAnswer(w, r) PROVE Blocked'
  BY <1>0, <1>14 DEF TakesAnswer, Takes, AnswerReady, Busy
<1>15. ASSUME NEW w \in Workers, NEW x \in Topics, TakesMessage(w, x) PROVE Blocked'
  BY <1>0, <1>15 DEF TakesMessage, Takes, Busy
<1>16. ASSUME NEW w \in Workers, CallbackEnds(w) PROVE Blocked'
  BY <1>0, <1>16 DEF CallbackEnds
<1>17. ASSUME NEW r \in Calls, RemoteAnswers(r) \/ RemoteDies(r) PROVE Blocked'
  BY <1>0, <1>17 DEF RemoteAnswers, RemoteDies
<1>18. ASSUME NEW t \in Threads, ShutdownBegins(t) PROVE Blocked'
  BY <1>0, <1>18 DEF ShutdownBegins, MutexReleased, Locks, Returned, Back
<1>19. ASSUME NEW t \in Threads, ShutdownEnds(t) PROVE Blocked'
  BY <1>0, <1>19 DEF ShutdownEnds, Returned, Back
<1>20. ASSUME UNCHANGED vars PROVE Blocked'
  BY <1>0, <1>20 DEF vars
<1> QED BY <1>1, <1>2, <1>3, <1>4, <1>5, <1>6, <1>7, <1>8, <1>9, <1>10, <1>11, <1>12,
          <1>13, <1>14, <1>15, <1>16, <1>17, <1>18, <1>19, <1>20 DEF Next, Progress, Locked

-----------------------------------------------------------------------------
(* callService() gives up only on a lost request. *)

\* When no callback can end, those that are blocked are of different topics, and fewer than
\* the workers: one worker is idle.
LEMMA IdleWorker ==
    ASSUME AInv, EnoughWorkers, \A w \in Workers : pc[w] \notin {"running", "ending"}
    PROVE  \E w \in Workers : pc[w] = "idle"
<1> DEFINE f == [w \in Workers |-> job[w].of]
<1>1. SUFFICES ASSUME \A w \in Workers : pc[w] # "idle" PROVE FALSE
  OBVIOUS
<1>2. \A w \in Workers : job[w].kind = "topic" /\ job[w].of \in Using \cup Calling
  BY <1>1 DEF AInv, Blocked
<1>3. f \in [Workers -> Using \cup Calling]
  BY <1>2
<1>4. /\ IsFiniteSet(Workers) /\ IsFiniteSet(Using \cup Calling)
      /\ Cardinality(Using \cup Calling) < Cardinality(Workers)
  BY DEF EnoughWorkers
<1>5. PICK v, w \in Workers : v # w /\ f[v] = f[w]
  <2> HIDE DEF f
  <2> QED BY ONLY <1>3, <1>4, FS_PigeonHole
<1>6. job[v] = job[w]
  <2>1. job[v].of = job[w].of /\ job[v].kind = "topic" /\ job[w].kind = "topic"
    BY <1>2, <1>5
  <2>2. job[v] \in Jobs /\ job[w] \in Jobs
    BY <1>5 DEF AInv, IInv, TypeOK
  <2> QED BY ONLY <2>1, <2>2 DEF Jobs
<1> QED BY <1>2, <1>5, <1>6 DEF AInv, Working

\* Once nothing more can happen, the request that a call waits for is handled or lost: were it
\* sent or answered, the idle worker would take it, and were it served, its callback would end.
LEMMA StuckIsLost ==
    ASSUME AInv, EnoughWorkers, Stuck, NEW t \in Threads, pc[t] = "waiting",
           request[op[t].id].state # "handled"
    PROVE  request[op[t].id].state = "lost"
<1> DEFINE r == op[t].id
<1>1. r \in Calls /\ request[r] \in Requests
  BY DEF AInv, IInv, TypeOK, Fitting
<1>2. /\ request[r].state # "none" /\ request[r].service \in servers \cup Remote
      /\ request[r].client = client[request[r].service]
  BY DEF AInv, Awaited
<1>3. PICK w \in Workers : pc[w] = "idle"
  BY IdleWorker DEF Stuck
<1>4. \A v \in Workers : job[v].kind \notin {"serve", "answer"}
  <2>1. ASSUME NEW v \in Workers, job[v].kind \in {"serve", "answer"} PROVE FALSE
    <3>1. pc[v] # "idle" /\ pc[v] \notin {"running", "ending"}
      BY <2>1 DEF AInv, Working, Stuck
    <3> QED BY <2>1, <3>1 DEF AInv, Blocked
  <2> QED BY <2>1
<1>5. ~RequestReady(r) /\ ~AnswerReady(r)
        /\ ~(request[r].state = "sent" /\ request[r].service \in Remote)
  BY <1>1, <1>3 DEF Stuck, Busy
<1>6. request[r].state # "sent"
  BY <1>2, <1>4, <1>5 DEF RequestReady, GroupFree
<1>7. request[r].state # "serving"
  BY <1>1, <1>4 DEF AInv, Working
<1>8. request[r].state # "answered"
  <2>1. servers \subseteq Local
    BY DEF AInv, IInv, TypeOK
  <2>2. ClientAlive(r)
    BY <1>2, <2>1 DEF ClientAlive
  <2>3. ClientFree(request[r].client) /\ \A v \in Workers : job[v] # [kind |-> "answer", of |-> r]
    BY <1>4 DEF ClientFree
  <2> QED BY <1>5, <2>2, <2>3 DEF AnswerReady
<1> QED BY <1>1, <1>2, <1>6, <1>7, <1>8 DEF Requests

\* A step times out lost requests only, and what is lost stays lost.
LEMMA AnswerStep ==
    ASSUME AInv, EnoughWorkers, [Next]_vars
    PROVE  AnswerInTime'
<1> USE DEF AnswerInTime, Points, OpTypes, lock, entities
<1>0. /\ request \in [Calls -> Requests] /\ job \in [Workers -> Jobs]
      /\ pc \in [Threads -> Points]
      /\ op \in [Threads -> OpTypes]
      /\ AnswerInTime /\ Numbered /\ Fitting /\ Working
      /\ \A t \in Threads : pc[t] \in {"seeking", "waiting"} => op[t].id \in Calls
      /\ Users \subseteq Threads /\ Workers \subseteq Threads
  BY DEF AInv, IInv, TypeOK, Fitting
<1> HIDE DEF Threads, Services, Calls
<1>1. ASSUME NEW u \in Users, UserCalls(u) PROVE AnswerInTime'
  BY <1>0, <1>1 DEF UserCalls, Begin
<1>2. ASSUME NEW w \in Workers, CallbackCalls(w) PROVE AnswerInTime'
  BY <1>0, <1>2 DEF CallbackCalls, Begin
<1>3. ASSUME NEW w \in Workers, CallbackUses(w) PROVE AnswerInTime'
  BY <1>0, <1>3 DEF CallbackUses
<1>4. ASSUME NEW t \in Threads, Use(t) PROVE AnswerInTime'
  BY <1>0, <1>4 DEF Use, Locks, Returned, Back
<1>5. ASSUME NEW t \in Threads, CreateService(t) PROVE AnswerInTime'
  BY <1>0, <1>5 DEF CreateService, Locks, Returned, Back
<1>6. ASSUME NEW t \in Threads, CreateServiceClient(t) PROVE AnswerInTime'
  BY <1>0, <1>6 DEF CreateServiceClient, Locks, Returned, Back
<1>7. ASSUME NEW t \in Threads, CallRefused(t) PROVE AnswerInTime'
  BY <1>0, <1>7 DEF CallRefused, Locks, Returned, Back
<1>8. ASSUME NEW t \in Threads, CallLocks(t) PROVE AnswerInTime'
  BY <1>0, <1>8 DEF CallLocks, Locks
<1>9. ASSUME NEW t \in Threads, CallGivesUp(t) PROVE AnswerInTime'
  BY <1>0, <1>9 DEF CallGivesUp, Returned, Back
<1>10. ASSUME NEW t \in Threads, CallSends(t) PROVE AnswerInTime'
  <2>1. /\ op[t].id \in Calls /\ Asks(t) /\ pc[t] = "seeking" /\ request[op[t].id].state = "none"
    BY <1>0, <1>10 DEF CallSends, Fitting, Numbered, Asks
  <2>2. /\ \A q \in Calls : q # op[t].id => request'[q] = request[q]
        /\ request'[op[t].id].state = "sent" /\ request'[op[t].id].got = "nothing"
    BY <1>0, <2>1, <1>10 DEF CallSends
  <2>3. /\ UNCHANGED <<stage, patient, job, entities, made>>
        /\ \A u \in Threads : u # t => op'[u] = op[u] /\ pc'[u] = pc[u]
    BY <1>0, <1>10 DEF CallSends, Returned
  <2> QED BY <1>0, <2>2, <2>3
<1>11. ASSUME NEW t \in Threads, CallAnswered(t) PROVE AnswerInTime'
  <2>1. /\ op[t].id \in Calls /\ patient' = patient
        /\ request' = [request EXCEPT ![op[t].id].got = "response"]
    BY <1>0, <1>11 DEF CallAnswered
  <2>2. \A q \in Calls : q # op[t].id => request'[q] = request[q]
    BY <1>0, <2>1
  <2>3. request'[op[t].id].got = "response"
    BY <1>0, <2>1
  <2> QED BY <1>0, <2>1, <2>2, <2>3
<1>12. ASSUME NEW t \in Threads, CallTimesOut(t) PROVE AnswerInTime'
  <2>1. /\ op[t].id \in Calls /\ patient' = patient
        /\ request' = [request EXCEPT ![op[t].id].got = "timeout"]
    BY <1>0, <1>12 DEF CallTimesOut
  <2>2. patient => request[op[t].id].state = "lost"
    BY <1>12, StuckIsLost DEF CallTimesOut, WaitedEnough
  <2>3. \A q \in Calls : q # op[t].id => request'[q] = request[q]
    BY <1>0, <2>1
  <2>4. request'[op[t].id].state = request[op[t].id].state
    BY <1>0, <2>1
  <2> QED BY <1>0, <2>1, <2>2, <2>3, <2>4
<1>13. ASSUME NEW w \in Workers, NEW r \in Calls, TakesRequest(w, r) PROVE AnswerInTime'
  <2>1. request[r].state = "sent" /\ request' = [request EXCEPT ![r].state = "serving"]
        /\ patient' = patient
    BY <1>13 DEF TakesRequest, Takes, RequestReady
  <2>2. \A q \in Calls : q # r => request'[q] = request[q]
    BY <1>0, <2>1
  <2>3. request'[r].got = request[r].got
    BY <1>0, <2>1
  <2> QED BY <1>0, <2>1, <2>2, <2>3
<1>14. ASSUME NEW w \in Workers, NEW r \in Calls, TakesAnswer(w, r) PROVE AnswerInTime'
  BY <1>0, <1>14 DEF TakesAnswer, Takes, AnswerReady, Busy
<1>15. ASSUME NEW w \in Workers, NEW x \in Topics, TakesMessage(w, x) PROVE AnswerInTime'
  BY <1>0, <1>15 DEF TakesMessage, Takes, Busy
<1>16. ASSUME NEW w \in Workers, CallbackEnds(w) PROVE AnswerInTime'
  <2>1. CASE job[w].kind = "topic"
    BY <1>0, <1>16, <2>1 DEF CallbackEnds
  <2>2. CASE job[w].kind # "topic"
    <3>1. PICK c \in {"answered", "handled"} : request' = [request EXCEPT ![job[w].of].state = c]
      BY <1>16, <2>2 DEF CallbackEnds
    <3>2. /\ job[w].of \in Calls /\ request[job[w].of].state \in {"serving", "answered"}
          /\ job[w].kind \in {"serve", "answer"}
      BY <1>0, <1>16, <2>2 DEF CallbackEnds, Working, Jobs
    <3>3. /\ \A q \in Calls : q # job[w].of => request'[q] = request[q]
          /\ \A q \in Calls :
                /\ request'[q].service = request[q].service /\ request'[q].got = request[q].got
                /\ request'[q].client = request[q].client /\ request'[q].sync = request[q].sync
          /\ request'[job[w].of].state = c
      BY ONLY <1>0, <3>1, <3>2, StateOnly
    <3>4. /\ pc' = [pc EXCEPT ![w] = "idle"] /\ job' = [job EXCEPT ![w] = NoJob]
          /\ pc[w] \in {"running", "ending"}
          /\ UNCHANGED <<stage, patient, mtx, op, entities, made>>
      BY <1>16 DEF CallbackEnds
    <3> QED BY <1>0, <3>1, <3>2, <3>3, <3>4
  <2> QED BY <2>1, <2>2
<1>17. ASSUME NEW r \in Calls, RemoteAnswers(r) \/ RemoteDies(r) PROVE AnswerInTime'
  <2>1. PICK c \in {"answered", "lost"} : request' = [request EXCEPT ![r].state = c]
    BY <1>17 DEF RemoteAnswers, RemoteDies
  <2>2. request[r].state = "sent" /\ UNCHANGED <<stage, patient, lock, job, entities, made>>
    BY <1>17 DEF RemoteAnswers, RemoteDies
  <2>3. /\ \A q \in Calls : q # r => request'[q] = request[q]
        /\ \A q \in Calls :
              /\ request'[q].service = request[q].service /\ request'[q].got = request[q].got
              /\ request'[q].client = request[q].client /\ request'[q].sync = request[q].sync
        /\ request'[r].state = c
    BY ONLY <1>0, <2>1, r \in Calls, StateOnly
  <2> HIDE DEF lock, entities
  <2> QED BY <1>0, <2>1, <2>2, <2>3 DEF lock, entities
<1>18. ASSUME NEW t \in Threads, ShutdownBegins(t) PROVE AnswerInTime'
  <2>1. UNCHANGED <<patient, request>>
    BY <1>18 DEF ShutdownBegins
  <2> QED BY <1>0, <2>1
<1>19. ASSUME NEW t \in Threads, ShutdownEnds(t) PROVE AnswerInTime'
  BY <1>0, <1>19 DEF ShutdownEnds, Returned, Back
<1>20. ASSUME UNCHANGED vars PROVE AnswerInTime'
  BY <1>0, <1>20 DEF vars
<1> QED BY <1>1, <1>2, <1>3, <1>4, <1>5, <1>6, <1>7, <1>8, <1>9, <1>10, <1>11, <1>12,
          <1>13, <1>14, <1>15, <1>16, <1>17, <1>18, <1>19, <1>20 DEF Next, Progress, Locked
-----------------------------------------------------------------------------
\* Every variable keeps its type, whoever calls what.
THEOREM CallsTyped == Spec => []TypeOK
<1>1. Init => IInv
  BY InitTyped
<1>2. IInv /\ [Next]_vars => IInv'
  BY StepTyped
<1>3. IInv => TypeOK
  BY DEF IInv
<1> QED
  BY <1>1, <1>2, <1>3, PTL DEF Spec

\* The node keeps its sessions (ROS2Node.cpp:80-142), although shutdown() releases mtx_ while it
\* waits: nothing is made for a node that closes, and none is down with a callback running.
THEOREM SessionIsKept == Spec => KeepsSession
<1>1. Init => SInv
  BY InitTyped DEF Init, SInv, NoWorkAfterShutdown, NothingLeft, OneCloses
<1>2. SInv /\ [Next]_vars => SInv'
  BY StepTyped, StepLeavesNoWork, ClosesStep DEF SInv
<1>3. Init => Session!Init
  <2>1. SUFFICES ASSUME Init PROVE Session!Init
    OBVIOUS
  <2>2. stage = "up" /\ ~CallbacksRun
    BY <2>1 DEF Init, CallbacksRun, Busy
  <2>3. MembersMade \in BOOLEAN
    BY DEF MembersMade
  <2> QED BY <2>2, <2>3 DEF Session!Init
<1>4. SInv /\ [Next]_vars => [Session!Next]_(Session!vars)
  BY SessionStep
<1> QED
  BY <1>1, <1>2, <1>3, <1>4, PTL DEF Spec, KeepsSession, Session!Spec

\* callService() gives up only on a request that its server lost: as long as fewer topics than
\* there are workers have callbacks that call the node, some worker brings the answer, although
\* mtx_ is held meanwhile (ROS2Node.h:582-588).
THEOREM AnswersComeInTime ==
    ASSUME EnoughWorkers
    PROVE  Spec => []AnswerInTime
<1>1. Init => AInv
  <2>1. SUFFICES ASSUME Init PROVE AInv
    OBVIOUS
  <2>2. Numbered /\ Held /\ Awaited
    BY <2>1 DEF Init, Numbered, Asks, Held, Awaited, NoOp, NoRequest
  <2>3. Working /\ Blocked /\ AnswerInTime
    BY <2>1 DEF Init, Working, Blocked, AnswerInTime, NoJob, NoRequest
  <2> QED BY <2>1, <2>2, <2>3, InitTyped DEF AInv
<1>2. AInv /\ [Next]_vars => AInv'
  BY StepTyped, NumberedStep, HeldStep, AwaitedStep, WorkingStep, BlockedStep, AnswerStep
     DEF AInv
<1>3. AInv => AnswerInTime
  BY DEF AInv
<1> QED BY <1>1, <1>2, <1>3, PTL DEF Spec
=============================================================================
