----------------------------- MODULE ServiceCall -----------------------------
(***************************************************************************)
(* Services of yomk::ROS2Node: callService() waits for its answer with     *)
(* mtx_ held, the answer is brought by a worker of the node's executor,    *)
(* and the workers run callbacks that need mtx_ too.                       *)
(*                                                                         *)
(* A thread is an application thread or a worker. A call of the node that  *)
(* does not wait is one action, taken when mtx_ is free.                   *)
(***************************************************************************)
EXTENDS Naturals

CONSTANTS
    Users,     \* application threads
    Workers,   \* threads of the MultiThreadedExecutor
    Local,     \* services that this node serves
    Remote,    \* services of other nodes
    Topics,    \* subscribed topics
    Types,     \* service types (the ServiceT of the templates)
    Using,     \* sources of callbacks that may publish or read a parameter
    Calling,   \* sources of callbacks that may call a service
    MaxCalls,  \* bound: calls made
    MaxMessages, \* bound: messages of a topic
    Patience,  \* may a time-out come while the node can still do something?
    Null

Services == Local \cup Remote
Sources == Local \cup Topics \cup {"answer"}
Threads == Users \cup Workers
Calls == 1..MaxCalls

ASSUME ServiceCallAssumption ==
    /\ Users \cap Workers = {} /\ Null \notin Threads \cup Types \cup Sources
    /\ Local \cap Remote = {} /\ Topics \cap Services = {} /\ "answer" \notin Local \cup Topics
    /\ Using \cup Calling \subseteq Sources
    /\ MaxCalls \in Nat /\ MaxMessages \in Nat
    /\ Patience \subseteq BOOLEAN /\ Patience # {}

VARIABLES
    stage,    \* "up"; "closing": shutdown() waits for the workers; "down"
    patient,  \* time-outs are longer than anything the node can still do
    mtx,      \* the thread that holds mtx_, or Null
    pc,       \* per thread
    op,       \* per thread: the call it is making
    job,      \* per worker: the callback it runs
    servers,  \* serviceServers_
    client,   \* serviceClients_: the number of the cached entity, 0 if none
    clientType, \* serviceClientTypes_
    request,  \* the requests, by the number of the call
    made,     \* calls made so far
    messages  \* per topic: messages still to come

lock == <<mtx, pc, op>>
entities == <<servers, client, clientType>>
vars == <<stage, patient, lock, job, entities, request, made, messages>>

NoOp == [kind |-> "none", service |-> Null, type |-> Null, id |-> 0]
NoJob == [kind |-> "none", of |-> Null]
NoRequest == [state |-> "none", service |-> Null, client |-> 0, sync |-> FALSE, got |-> "nothing"]

\* run() has been called; services may have been created before it.
Init ==
    /\ stage = "up" /\ patient \in Patience
    /\ mtx = Null /\ pc = [t \in Threads |-> "idle"] /\ op = [t \in Threads |-> NoOp]
    /\ job = [w \in Workers |-> NoJob]
    /\ servers \in SUBSET Local /\ client = [s \in Services |-> 0]
    /\ clientType = [s \in Services |-> Null]
    /\ request = [r \in Calls |-> NoRequest] /\ made = 0
    /\ messages = [x \in Topics |-> MaxMessages]
-----------------------------------------------------------------------------
(* Calls of the node. *)

\* A thread decides on a call; the number of the call becomes that of its request or client.
Begin(t, kind, s, ty) ==
    /\ made < MaxCalls /\ made' = made + 1
    /\ op' = [op EXCEPT ![t] = [kind |-> kind, service |-> s, type |-> ty, id |-> made + 1]]
    /\ pc' = [pc EXCEPT ![t] = "locking"]
    /\ UNCHANGED <<stage, patient, mtx, job, entities, request, messages>>

UserCalls(u) ==
    /\ pc[u] = "idle" /\ stage = "up"
    /\ \/ \E s \in Services, ty \in Types, kind \in {"sync", "async", "create"} : Begin(u, kind, s, ty)
       \/ \E s \in Local : Begin(u, "serve", s, Null)
       \/ Begin(u, "shutdown", Null, Null)

\* What a callback is for: a topic, a service it serves, or the answer to callServiceAsync().
\* The answer to callService() runs no code of the user.
Source(w) ==
    IF job[w].kind = "topic" THEN job[w].of
    ELSE IF job[w].kind = "serve" THEN request[job[w].of].service
    ELSE IF request[job[w].of].sync THEN Null ELSE "answer"

CallbackCalls(w) ==
    /\ pc[w] = "running" /\ Source(w) \in Calling
    /\ \E s \in Services, ty \in Types, kind \in {"sync", "async"} : Begin(w, kind, s, ty)

\* publish() and the like take no time with mtx_ held: only the wait for it counts.
CallbackUses(w) ==
    /\ pc[w] = "running" /\ Source(w) \in Using
    /\ op' = [op EXCEPT ![w] = [NoOp EXCEPT !.kind = "use"]]
    /\ pc' = [pc EXCEPT ![w] = "locking"]
    /\ UNCHANGED <<stage, patient, mtx, job, entities, request, made, messages>>

\* Where a call returns to: a callback makes at most one.
Back(t) == IF t \in Workers THEN "ending" ELSE "idle"

Returned(t) == pc' = [pc EXCEPT ![t] = Back(t)] /\ op' = [op EXCEPT ![t] = NoOp]

\* A thread at the lock_guard of a call of this kind gets mtx_.
Locks(t, kind) == pc[t] = "locking" /\ op[t].kind = kind /\ mtx = Null

Use(t) ==
    /\ Locks(t, "use") /\ Returned(t)
    /\ UNCHANGED <<stage, patient, mtx, job, entities, request, made, messages>>

\* createService(): at most one server of a name.
CreateService(t) ==
    /\ Locks(t, "serve") /\ Returned(t)
    /\ servers' = IF stage = "up" THEN servers \cup {op[t].service} ELSE servers
    /\ UNCHANGED <<stage, patient, mtx, job, client, clientType, request, made, messages>>

\* createServiceClientImpl(): the new entity replaces the one that is cached, if any.
MakeClient(t) ==
    /\ client' = [client EXCEPT ![op[t].service] = op[t].id]
    /\ clientType' = [clientType EXCEPT ![op[t].service] = op[t].type]

CreateServiceClient(t) ==
    /\ Locks(t, "create") /\ Returned(t)
    /\ IF stage = "up" THEN MakeClient(t) ELSE UNCHANGED <<client, clientType>>
    /\ UNCHANGED <<stage, patient, mtx, job, servers, request, made, messages>>

\* The cached client is of another type, so that getOrCreateServiceClient() gives none.
Mistyped(s, ty) == client[s] # 0 /\ clientType[s] # ty

CallRefused(t) ==
    /\ Locks(t, op[t].kind) /\ op[t].kind \in {"sync", "async"}
    /\ stage # "up" \/ Mistyped(op[t].service, op[t].type)
    /\ Returned(t)
    /\ UNCHANGED <<stage, patient, mtx, job, entities, request, made, messages>>

\* callService(), callServiceAsync(): mtx_ is held from here.
CallLocks(t) ==
    /\ Locks(t, op[t].kind) /\ op[t].kind \in {"sync", "async"}
    /\ stage = "up" /\ ~Mistyped(op[t].service, op[t].type)
    /\ mtx' = t /\ pc' = [pc EXCEPT ![t] = "seeking"]
    /\ IF client[op[t].service] = 0 THEN MakeClient(t) ELSE UNCHANGED <<client, clientType>>
    /\ UNCHANGED <<stage, patient, op, job, servers, request, made, messages>>

\* wait_for_service(): a service of this node is there once it is made.
Available(s) == s \in servers \cup Remote

CallGivesUp(t) ==
    /\ pc[t] = "seeking" /\ op[t].service \notin servers
    /\ mtx' = Null /\ Returned(t)
    /\ UNCHANGED <<stage, patient, job, entities, request, made, messages>>

\* async_send_request(): callServiceAsync() returns, callService() waits.
CallSends(t) ==
    LET s == op[t].service IN
    /\ pc[t] = "seeking" /\ Available(s)
    /\ request' = [request EXCEPT ![op[t].id] =
          [state |-> "sent", service |-> s, client |-> client[s], sync |-> op[t].kind = "sync",
           got |-> "nothing"]]
    /\ IF op[t].kind = "sync"
       THEN pc' = [pc EXCEPT ![t] = "waiting"] /\ UNCHANGED <<mtx, op>>
       ELSE mtx' = Null /\ Returned(t)
    /\ UNCHANGED <<stage, patient, job, entities, made, messages>>

\* The future is ready.
CallAnswered(t) ==
    /\ pc[t] = "waiting" /\ request[op[t].id].state = "handled"
    /\ request' = [request EXCEPT ![op[t].id].got = "response"]
    /\ mtx' = Null /\ Returned(t)
    /\ UNCHANGED <<stage, patient, job, entities, made, messages>>
-----------------------------------------------------------------------------
(* The executor. *)

Busy(w) == pc[w] # "idle"

\* Mutant: the group of a server is not kept, and expires.
GroupExpired(kind, source) == kind # "serve"

\* The mutually exclusive callback group of a server, or of a subscription, is free.
GroupFree(kind, source) ==
    \A w \in Workers : job[w].kind = kind => Source(w) # source

\* Mutant: clients, servers and subscriptions share the node's default group.
DefaultGroupFree(c) == \A w \in Workers : ~Busy(w)

\* The callback group of a client is free.
ClientFree(c) ==
    \A w \in Workers : job[w].kind = "answer" => request[job[w].of].client # c

RequestReady(r) ==
    /\ request[r].state = "sent" /\ request[r].service \in servers
    /\ GroupFree("serve", request[r].service)

\* The client entity that sent the request is still cached.
ClientAlive(r) == request[r].client \in {client[s] : s \in Services}

AnswerReady(r) ==
    /\ request[r].state = "answered" /\ ClientAlive(r) /\ ClientFree(request[r].client)
    /\ \A w \in Workers : job[w] # [kind |-> "answer", of |-> r]

MessageReady(x) == messages[x] > 0 /\ GroupFree("topic", x)

Takes(w, kind, of) ==
    /\ stage # "down" /\ ~Busy(w)
    /\ job' = [job EXCEPT ![w] = [kind |-> kind, of |-> of]]
    /\ pc' = [pc EXCEPT ![w] = "running"]
    /\ UNCHANGED <<stage, patient, mtx, op, entities, made>>

TakesRequest(w, r) ==
    /\ RequestReady(r) /\ Takes(w, "serve", r)
    /\ request' = [request EXCEPT ![r].state = "serving"]
    /\ UNCHANGED messages

TakesAnswer(w, r) ==
    /\ AnswerReady(r) /\ Takes(w, "answer", r)
    /\ UNCHANGED <<request, messages>>

TakesMessage(w, x) ==
    /\ MessageReady(x) /\ Takes(w, "topic", x)
    /\ messages' = [messages EXCEPT ![x] = @ - 1]
    /\ UNCHANGED request

\* The callback returns: a served request is answered, an answer has reached its future
\* or its callback.
CallbackEnds(w) ==
    /\ pc[w] \in {"running", "ending"}
    /\ pc' = [pc EXCEPT ![w] = "idle"] /\ job' = [job EXCEPT ![w] = NoJob]
    /\ request' =
          IF job[w].kind = "topic" THEN request
          ELSE [request EXCEPT ![job[w].of].state =
                   IF job[w].kind = "serve" THEN "answered" ELSE "handled"]
    /\ UNCHANGED <<stage, patient, mtx, op, entities, made, messages>>

\* A server elsewhere answers ...
RemoteAnswers(r) ==
    /\ request[r].state = "sent" /\ request[r].service \in Remote
    /\ request' = [request EXCEPT ![r].state = "answered"]
    /\ UNCHANGED <<stage, patient, lock, job, entities, made, messages>>

\* ... or dies with the request.
RemoteDies(r) ==
    /\ request[r].state = "sent" /\ request[r].service \in Remote
    /\ request' = [request EXCEPT ![r].state = "lost"]
    /\ UNCHANGED <<stage, patient, lock, job, entities, made, messages>>
-----------------------------------------------------------------------------
(* shutdown() *)

\* Mutant: shutdown() keeps mtx_ while it waits for the spin to end.
MutexKept(t) == mtx' = t

\* The first section of shutdown() ends: mtx_ is free again.
MutexReleased(t) == mtx' = mtx

ShutdownBegins(t) ==
    /\ Locks(t, "shutdown")
    /\ IF stage = "up"
       THEN /\ stage' = "closing" /\ pc' = [pc EXCEPT ![t] = "draining"]
            /\ MutexReleased(t) /\ UNCHANGED op
       ELSE Returned(t) /\ UNCHANGED <<stage, mtx>>
    /\ UNCHANGED <<patient, job, entities, request, made, messages>>

\* Mutant: shutdown() does not wait for the workers.
NotDrained == TRUE

\* The spin has ended: no worker runs a callback any more.
Drained == \A w \in Workers : ~Busy(w)

\* Mutant: serviceClientTypes_ is not cleared.
TypesKept == clientType

TypesCleared == [s \in Services |-> Null]

ShutdownEnds(t) ==
    /\ pc[t] = "draining" /\ mtx = Null /\ Drained
    /\ stage' = "down" /\ servers' = {} /\ client' = [s \in Services |-> 0]
    /\ clientType' = TypesCleared
    /\ Returned(t)
    /\ UNCHANGED <<patient, mtx, job, request, made, messages>>
-----------------------------------------------------------------------------
Locked(t) ==
    \/ Use(t) \/ CreateService(t) \/ CreateServiceClient(t)
    \/ CallRefused(t) \/ CallLocks(t) \/ ShutdownBegins(t)

\* What the threads do without being asked, apart from giving up.
Progress ==
    \/ \E t \in Threads : Locked(t) \/ CallSends(t) \/ CallAnswered(t) \/ ShutdownEnds(t)
    \/ \E w \in Workers :
          \/ \E r \in Calls : TakesRequest(w, r) \/ TakesAnswer(w, r)
          \/ \E x \in Topics : TakesMessage(w, x)
          \/ CallbackEnds(w)
    \/ \E r \in Calls : RemoteAnswers(r)

\* No callback can return or answer a request, and no other node has an answer to give.
Stuck ==
    /\ \A w \in Workers :
          /\ pc[w] \notin {"running", "ending"}
          /\ ~Busy(w) => \A r \in Calls : ~RequestReady(r) /\ ~AnswerReady(r)
    /\ \A r \in Calls : ~(request[r].state = "sent" /\ request[r].service \in Remote)

\* Mutant: future.get() without wait_for().
Endless(t) == FALSE

\* wait_for() gives up after 5 s.
WaitedEnough(t) == request[op[t].id].state # "handled" /\ (patient => Stuck)

CallTimesOut(t) ==
    /\ pc[t] = "waiting" /\ WaitedEnough(t)
    /\ request' = [request EXCEPT ![op[t].id].got = "timeout"]
    /\ mtx' = Null /\ Returned(t)
    /\ UNCHANGED <<stage, patient, job, entities, made, messages>>

Next ==
    \/ Progress
    \/ \E u \in Users : UserCalls(u)
    \/ \E w \in Workers : CallbackCalls(w) \/ CallbackUses(w)
    \/ \E t \in Threads : CallGivesUp(t) \/ CallTimesOut(t)
    \/ \E r \in Calls : RemoteDies(r)

Spec == Init /\ [][Next]_vars

\* A thread in a call goes on with it, and a callback returns.
Runs(t) ==
    \/ Locked(t) \/ CallSends(t) \/ CallGivesUp(t) \/ CallAnswered(t) \/ CallTimesOut(t)
    \/ ShutdownEnds(t)
    \/ t \in Workers /\ CallbackEnds(t)

\* Threads run, callbacks return, and mtx_, which is not fair, is held by finitely many
\* calls. A server that does not answer is dead. Calls are made at will.
FairSpec ==
    /\ Spec
    /\ \A t \in Threads : WF_vars(Runs(t))
    /\ \A r \in Calls :
          /\ WF_vars(\E w \in Workers : TakesRequest(w, r) \/ TakesAnswer(w, r))
          /\ WF_vars(RemoteAnswers(r) \/ RemoteDies(r))
-----------------------------------------------------------------------------
Requests ==
    [state : {"none", "sent", "serving", "answered", "handled", "lost"},
     service : Services \cup {Null}, client : 0..MaxCalls, sync : BOOLEAN,
     got : {"nothing", "response", "timeout"}]

Jobs == [kind : {"none"}, of : {Null}] \cup [kind : {"serve", "answer"}, of : Calls]
           \cup [kind : {"topic"}, of : Topics]

\* Every variable has its type; a service has a cached client if and only if it has the type of
\* one, when calls make and replace clients and shutdown() clears both maps.
TypeOK ==
    /\ stage \in {"up", "closing", "down"} /\ patient \in BOOLEAN
    /\ mtx \in Threads \cup {Null}
    /\ pc \in [Threads -> {"idle", "running", "locking", "seeking", "waiting", "draining",
                           "ending"}]
    /\ op \in [Threads -> [kind : {"none", "use", "sync", "async", "serve", "create", "shutdown"},
                           service : Services \cup {Null}, type : Types \cup {Null},
                           id : 0..MaxCalls]]
    /\ job \in [Workers -> Jobs]
    /\ servers \subseteq Local /\ client \in [Services -> 0..MaxCalls]
    /\ clientType \in [Services -> Types \cup {Null}]
    /\ \A s \in Services : client[s] = 0 <=> clientType[s] = Null
    /\ request \in [Calls -> Requests]
    /\ made \in 0..MaxCalls /\ messages \in [Topics -> 0..MaxMessages]

\* callService() gives up only on a request that its server lost: as long as fewer callbacks
\* than workers can be waiting for mtx_, some worker brings the answer.
AnswerInTime ==
    patient => \A r \in Calls : request[r].got = "timeout" => request[r].state = "lost"

\* The callback of callServiceAsync() is called, unless the server dies, the client is
\* replaced or the node is shut down.
AsyncAnswered ==
    \A r \in Calls :
        (request[r].state \in {"serving", "answered"} \/ request[r].service \in servers)
            /\ ~request[r].sync /\ request[r].state # "none"
            ~> request[r].state = "handled" \/ stage # "up" \/ ~ClientAlive(r)

\* Every call of the node returns, whatever the services do; so does shutdown(), although
\* callbacks are in the middle of calls of the node.
EveryCallReturns ==
    \A t \in Threads : pc[t] \in {"locking", "seeking", "waiting", "draining"} ~>
                           pc[t] \in {"idle", "ending"}

CallbacksRun == \E w \in Workers : Busy(w)

MembersMade == servers # {} \/ \E s \in Services : client[s] # 0

Session == INSTANCE NodeSession WITH busy <- CallbacksRun, held <- MembersMade

\* The node keeps its sessions, although shutdown() waits without mtx_ (ROS2Node.cpp:96-111):
\* nothing is made for it while it closes, and it returns with no callback running or to come.
KeepsSession == Session!Spec
=============================================================================
