------------------------------ MODULE NodeTopics ------------------------------
(***************************************************************************)
(* Topics of yomk::ROS2Node: publish() looks its publisher up under mtx_   *)
(* and uses it after; each subscription has a callback group of its own,   *)
(* served by the workers of the MultiThreadedExecutor; shutdown() clears   *)
(* the maps when the workers are gone. No call waits with mtx_ held here,  *)
(* so what a call does under mtx_ is one action.                           *)
(***************************************************************************)
EXTENDS Naturals, Sequences, FiniteSets, SequencesExt

CONSTANTS
    Users,       \* application threads
    Workers,     \* threads of the executor
    Topics,
    Slow,        \* topics whose callback may never return
    Types,       \* message types (the T of the templates)
    QueueSize,   \* depth of every subscription's queue
    MaxEntities, \* bound: publishers made
    MaxMessages, \* bound: messages published
    MaxSessions  \* bound: successful init() calls

ASSUME TopicsAssumption ==
    /\ Users \cap Workers = {} /\ Slow \subseteq Topics /\ "none" \notin Topics
    /\ IsFiniteSet(Users \cup Workers) /\ QueueSize \in Nat \ {0}
    /\ MaxEntities \in Nat /\ MaxMessages \in Nat /\ MaxSessions \in Nat \ {0}

Threads == Users \cup Workers
Entities == 1..MaxEntities

VARIABLES
    stage, sessions, \* "up", "closing": shutdown() waits for the workers, or "down"
    pub, pubType,    \* pubTopics_: per topic a publisher, 0 if none; pubTypes_
    made,            \* per publisher made: its topic and type
    alive,           \* publishers that are not destroyed
    subs,            \* subTopics_
    call,            \* per thread: the publisher that its publish() has found
    job,             \* per worker: the message whose callback it runs
    queue,           \* per topic: messages the subscription has not taken
    sent,            \* messages published so far
    era,             \* per message: the session it was sent in, 0 if it is not sent
    told             \* per topic: messages its callback has been called for

maps == <<pub, pubType, made, alive, subs>>
vars == <<stage, sessions, maps, call, job, queue, sent, era, told>>

NoCall == [entity |-> 0, type |-> "none"]
NoJob == [topic |-> "none", message |-> 0]

Init ==
    /\ stage = "up" /\ sessions = 1
    /\ pub = [x \in Topics |-> 0] /\ pubType = [x \in Topics |-> "none"]
    /\ made = <<>> /\ alive = {} /\ subs = {}
    /\ call = [t \in Threads |-> NoCall] /\ job = [w \in Workers |-> NoJob]
    /\ sent = 0 /\ era = [m \in 1..MaxMessages |-> 0]
    /\ queue = [x \in Topics |-> <<>>] /\ told = [x \in Topics |-> <<>>]
-----------------------------------------------------------------------------
RegisterPubTopic(x, ty) ==
    /\ stage = "up" /\ pub[x] = 0 /\ Len(made) < MaxEntities
    /\ made' = Append(made, [topic |-> x, type |-> ty])
    /\ pub' = [pub EXCEPT ![x] = Len(made')] /\ alive' = alive \cup {Len(made')}
    /\ pubType' = [pubType EXCEPT ![x] = ty]
    /\ UNCHANGED <<stage, sessions, subs, call, job, queue, sent, era, told>>

RegisterSubTopic(x) ==
    /\ stage = "up" /\ x \notin subs
    /\ subs' = subs \cup {x}
    /\ UNCHANGED <<stage, sessions, pub, pubType, made, alive, call, job, queue, sent, era, told>>

\* Mutant: the type of the call is not compared.
AnyType(x, ty) == TRUE

\* The registered type is that of the call.
SameType(x, ty) == pubType[x] = ty

\* A user, or a callback, calls publish(), which does not ask whether the node is up.
PublishFinds(t, x, ty) ==
    /\ call[t] = NoCall
    /\ t \in Workers => job[t] # NoJob
    /\ pub[x] # 0 /\ SameType(x, ty)
    /\ sent + Cardinality({s \in Threads : call[s] # NoCall}) < MaxMessages
    /\ call' = [call EXCEPT ![t] = [entity |-> pub[x], type |-> ty]]
    /\ UNCHANGED <<stage, sessions, maps, job, queue, sent, era, told>>

\* Mutant: the queue has no depth.
QueuedAll(s) == s

\* The last QueueSize messages stay.
Queued(s) == SubSeq(s, IF Len(s) > QueueSize THEN Len(s) - QueueSize + 1 ELSE 1, Len(s))

\* The publisher that a call no longer uses goes, if the map does not hold it either.
Released(t) == alive \ ({call[t].entity} \ (Range(pub) \cup {call[u].entity : u \in Threads \ {t}}))

\* Outside mtx_: the message goes to the subscription of the topic, if there is one.
PublishSends(t) ==
    /\ call[t] # NoCall
    /\ sent' = sent + 1 /\ era' = [era EXCEPT ![sent'] = sessions]
    /\ LET x == made[call[t].entity].topic IN
          queue' = IF x \in subs THEN [queue EXCEPT ![x] = Queued(Append(@, sent'))] ELSE queue
    /\ call' = [call EXCEPT ![t] = NoCall] /\ alive' = Released(t)
    /\ UNCHANGED <<stage, sessions, pub, pubType, made, subs, job, told>>
-----------------------------------------------------------------------------
(* The executor. *)

\* Mutant: the subscriptions share the node's default group.
DefaultGroupFree(x) == \A w \in Workers : job[w] = NoJob

\* Mutant: the group lets callbacks of a topic run at the same time.
Reentrant(x) == TRUE

\* The mutually exclusive group of the subscription is free.
GroupFree(x) == \A w \in Workers : job[w].topic # x

TakesMessage(w, x) ==
    /\ stage # "down" /\ job[w] = NoJob /\ queue[x] # <<>> /\ GroupFree(x)
    /\ job' = [job EXCEPT ![w] = [topic |-> x, message |-> Head(queue[x])]]
    /\ queue' = [queue EXCEPT ![x] = Tail(@)]
    /\ told' = [told EXCEPT ![x] = Append(@, Head(queue[x]))]
    /\ UNCHANGED <<stage, sessions, maps, call, sent, era>>

CallbackReturns(w) ==
    /\ job[w] # NoJob /\ call[w] = NoCall
    /\ job' = [job EXCEPT ![w] = NoJob]
    /\ UNCHANGED <<stage, sessions, maps, call, queue, sent, era, told>>
-----------------------------------------------------------------------------
(* init() and shutdown() *)

Reopens ==
    /\ stage = "down" /\ sessions < MaxSessions
    /\ stage' = "up" /\ sessions' = sessions + 1
    /\ UNCHANGED <<maps, call, job, queue, sent, era, told>>

ShutdownBegins ==
    /\ stage = "up" /\ stage' = "closing"
    /\ UNCHANGED <<sessions, maps, call, job, queue, sent, era, told>>

\* Mutant: publish() keeps a plain pointer.
NotKept == {}

\* publish() keeps a shared pointer to the publisher it uses.
KeptByCalls == {call[t].entity : t \in Threads} \ {0}

\* Mutant: shutdown() does not wait for the workers.
NotDrained == TRUE

\* The spin has returned: no worker is left.
Drained == \A w \in Workers : job[w] = NoJob

\* The executor is gone, and every worker with it: the maps are cleared.
ShutdownEnds ==
    /\ stage = "closing" /\ Drained
    /\ stage' = "down" /\ subs' = {} /\ alive' = KeptByCalls
    /\ pub' = [x \in Topics |-> 0] /\ pubType' = [x \in Topics |-> "none"]
    /\ queue' = [x \in Topics |-> <<>>]
    /\ UNCHANGED <<sessions, made, call, job, sent, era, told>>
-----------------------------------------------------------------------------
Next ==
    \/ \E x \in Topics :
          \/ RegisterSubTopic(x)
          \/ \E ty \in Types : RegisterPubTopic(x, ty) \/ \E t \in Threads : PublishFinds(t, x, ty)
          \/ \E w \in Workers : TakesMessage(w, x)
    \/ \E t \in Threads : PublishSends(t)
    \/ \E w \in Workers : CallbackReturns(w)
    \/ Reopens \/ ShutdownBegins \/ ShutdownEnds

Spec == Init /\ [][Next]_vars

\* publish() ends, a worker takes what is ready, and a callback returns unless it is slow.
FairSpec ==
    /\ Spec
    /\ \A t \in Threads : WF_vars(PublishSends(t))
    /\ \A w \in Workers : WF_vars(job[w].topic \notin Slow /\ CallbackReturns(w))
    /\ \A x \in Topics : WF_vars(\E w \in Workers : TakesMessage(w, x))
-----------------------------------------------------------------------------
Busy(x) == \E w \in Workers : job[w].topic = x

\* Every variable has its type; no queue is longer than its depth.
TypeOK ==
    /\ stage \in {"up", "closing", "down"} /\ sessions \in 1..MaxSessions
    /\ pub \in [Topics -> 0..MaxEntities] /\ pubType \in [Topics -> Types \cup {"none"}]
    /\ made \in Seq([topic : Topics, type : Types]) /\ alive \subseteq Entities
    /\ subs \subseteq Topics
    /\ call \in [Threads -> [entity : 0..MaxEntities, type : Types \cup {"none"}]]
    /\ job \in [Workers -> [topic : Topics \cup {"none"}, message : 0..MaxMessages]]
    /\ queue \in [Topics -> Seq(1..MaxMessages)] /\ \A x \in Topics : Len(queue[x]) <= QueueSize
    /\ sent \in 0..MaxMessages /\ era \in [1..MaxMessages -> 0..MaxSessions]
    /\ told \in [Topics -> Seq(1..MaxMessages)]

\* A publish() under way uses a publisher that exists and is of the type it casts it to, even
\* when shutdown() clears the maps and a new session registers the topic with another type
\* (ROS2Node.h:307-324).
PublisherInUse ==
    \A t \in Threads : call[t] # NoCall =>
        call[t].entity \in alive /\ made[call[t].entity].type = call[t].type

\* The callbacks of a topic run one at a time and in the order of the messages, on whichever
\* workers (ROS2Node.h:28).
SameTopicInOrder ==
    /\ \A v, w \in Workers : job[v] # NoJob /\ job[v].topic = job[w].topic => v = w
    /\ \A x \in Topics : \A i \in 1..(Len(told[x]) - 1) : told[x][i] < told[x][i + 1]

\* No callback runs and no message waits when shutdown() has returned, and the callbacks of a
\* session are called only for messages sent in it (ROS2Node.cpp:105-123). A publish() that
\* found its publisher in one session may send in the next: its message is one of the next.
SessionsApart ==
    /\ stage = "down" => \A x \in Topics : ~Busy(x) /\ queue[x] = <<>>
    /\ \A x \in Topics : \A m \in Range(queue[x]) : era[m] = sessions
    /\ \A w \in Workers : job[w] # NoJob => era[job[w].message] = sessions

\* A message does not wait for the callbacks of other topics, which may never return: it is
\* taken, unless later ones overwrite it or the node is shut down (ROS2Node.cpp:29-31).
NotStarved ==
    \A x \in Topics \ Slow, m \in 1..MaxMessages :
        m \in Range(queue[x]) ~> m \notin Range(queue[x]) \/ stage # "up"
=============================================================================
