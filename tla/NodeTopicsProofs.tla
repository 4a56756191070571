--------------------------- MODULE NodeTopicsProofs ---------------------------
(***************************************************************************)
(* For any numbers of threads, topics, types, messages and sessions, and   *)
(* any queue depth: publish() uses a publisher that lives and is of its    *)
(* type, the callbacks of a topic neither overlap nor overtake one         *)
(* another, and nothing of a session outlives its shutdown().              *)
(***************************************************************************)
EXTENDS NodeTopics, FiniteSetTheorems, SequenceTheorems, TLAPS

Publishing == {t \in Threads : call[t] # NoCall}

\* The calls under way leave room for their messages.
Counted == sent + Cardinality(Publishing) <= MaxMessages

\* A registered publisher lives, and is of the topic and of the type it is registered with.
Registered ==
    \A x \in Topics : pub[x] # 0 =>
        /\ pub[x] \in alive /\ pub[x] \in 1..Len(made)
        /\ made[pub[x]] = [topic |-> x, type |-> pubType[x]]

\* The publisher that a call has found was made for a topic, and was the call's to find.
Found ==
    \A t \in Threads : call[t] # NoCall =>
        /\ call[t].entity \in alive /\ call[t].entity \in 1..Len(made)
        /\ made[call[t].entity].type = call[t].type

\* A topic has one worker at most.
Alone ==
    /\ \A w \in Workers : job[w] # NoJob => job[w].topic \in Topics
    /\ \A v, w \in Workers : job[v] # NoJob /\ job[v].topic = job[w].topic => v = w

\* The messages of a sequence were published in its order, before message n.
Ascending(s, n) ==
    /\ \A i \in 1..Len(s) : s[i] < n
    /\ \A i, j \in 1..Len(s) : i < j => s[i] < s[j]

\* What the callback has been told of was published before what waits for it.
Ordered ==
    \A x \in Topics :
        /\ Ascending(told[x], sent + 1) /\ Ascending(queue[x], sent + 1)
        /\ \A i \in 1..Len(told[x]), j \in 1..Len(queue[x]) : told[x][i] < queue[x][j]

\* Nothing runs or waits when the node is down, and only what is subscribed to waits.
Apart ==
    /\ stage = "down" => subs = {} /\ \A w \in Workers : job[w] = NoJob
    /\ \A x \in Topics : queue[x] # <<>> => x \in subs

\* What waits, and what runs, was sent in this session.
Current ==
    /\ \A x \in Topics : \A i \in 1..Len(queue[x]) : era[queue[x][i]] = sessions
    /\ \A w \in Workers : job[w] # NoJob =>
          job[w].message \in 1..sent /\ era[job[w].message] = sessions

\* The inductive invariant.
IInv == TypeOK /\ Counted /\ Registered /\ Found /\ Alone /\ Ordered /\ Apart /\ Current

\* The session as the topics take part in it.
CallbacksRun == \E w \in Workers : job[w] # NoJob

MembersMade == subs # {} \/ \E x \in Topics : pub[x] # 0

Session == INSTANCE NodeSession WITH busy <- CallbacksRun, held <- MembersMade
-----------------------------------------------------------------------------
\* Queued drops a number of messages from the front.
LEMMA QueuedIsSuffix ==
    ASSUME NEW S, NEW s \in Seq(S)
    PROVE  /\ Queued(s) \in Seq(S) /\ Len(Queued(s)) <= QueueSize
           /\ \E d \in Nat :
                 /\ Len(Queued(s)) + d = Len(s)
                 /\ \A i \in 1..Len(Queued(s)) : Queued(s)[i] = s[i + d]
<1> DEFINE m == IF Len(s) > QueueSize THEN Len(s) - QueueSize + 1 ELSE 1
<1>1. /\ Len(s) \in Nat /\ m \in Nat \ {0} /\ m <= Len(s) + 1 /\ Len(s) - m + 1 <= QueueSize
  BY LenProperties, TopicsAssumption
<1>2. \A i \in m..Len(s) : s[i] \in S
  BY <1>1, ElementOfSeq
<1>3. Queued(s) = SubSeq(s, m, Len(s))
  BY DEF Queued
<1> HIDE DEF m
<1>4. /\ Queued(s) \in Seq(S)
      /\ Len(Queued(s)) = IF m <= Len(s) THEN Len(s) - m + 1 ELSE 0
      /\ \A i \in 1..Len(s) - m + 1 : Queued(s)[i] = s[m + i - 1]
  BY <1>1, <1>2, <1>3, SubSeqProperties
<1>5. /\ Len(Queued(s)) + (m - 1) = Len(s) /\ m - 1 \in Nat
      /\ \A i \in 1..Len(Queued(s)) : Queued(s)[i] = s[i + (m - 1)]
  BY <1>1, <1>4
<1>6. Len(Queued(s)) <= QueueSize
  BY <1>1, <1>4, TopicsAssumption
<1>7. \E d \in Nat :
         /\ Len(Queued(s)) + d = Len(s)
         /\ \A i \in 1..Len(Queued(s)) : Queued(s)[i] = s[i + d]
  <2> m - 1 \in Nat
    BY <1>5
  <2> WITNESS m - 1 \in Nat
  <2> QED
    BY <1>5
<1> QED
  BY <1>4, <1>6, <1>7

\* The calls under way can be counted, one more and one less.
LEMMA PublishingCount ==
    ASSUME TypeOK
    PROVE  /\ IsFiniteSet(Publishing) /\ Cardinality(Publishing) \in Nat
           /\ \A t \in Threads : call[t] # NoCall => Cardinality(Publishing) >= 1
<1>1. IsFiniteSet(Publishing)
  BY TopicsAssumption, FS_Subset DEF Publishing, Threads
<1>2. Cardinality(Publishing) \in Nat /\ (Cardinality(Publishing) = 0 <=> Publishing = {})
  BY <1>1, FS_CardinalityType, FS_EmptySet
<1> QED
  BY <1>1, <1>2 DEF Publishing

\* publish() takes a place, and gives it back for its message.
LEMMA CountedStep ==
    ASSUME TypeOK, Counted, Next
    PROVE  Counted'
<1>1. IsFiniteSet(Publishing) /\ Cardinality(Publishing) \in Nat
  BY PublishingCount
<1>2. ASSUME NEW t \in Threads, NEW x \in Topics, NEW ty \in Types, PublishFinds(t, x, ty)
      PROVE  Counted'
  <2>1. Publishing' = Publishing \cup {t}
    BY <1>2 DEF PublishFinds, Publishing, TypeOK, NoCall
  <2>2. /\ Cardinality(Publishing \cup {t}) \in Nat
        /\ Cardinality(Publishing \cup {t}) <= Cardinality(Publishing) + 1
    <3>1. /\ IsFiniteSet(Publishing \cup {t})
          /\ Cardinality(Publishing \cup {t}) =
                IF t \in Publishing THEN Cardinality(Publishing) ELSE Cardinality(Publishing) + 1
      BY <1>1, FS_AddElement
    <3> QED
      BY <1>1, <3>1
  <2>3. sent' = sent /\ sent + Cardinality(Publishing) < MaxMessages
    BY <1>2 DEF PublishFinds, Publishing
  <2> QED
    BY <1>1, <2>1, <2>2, <2>3, TopicsAssumption DEF Counted, TypeOK
<1>3. ASSUME NEW t \in Threads, PublishSends(t)
      PROVE  Counted'
  <2>1. Publishing' = Publishing \ {t} /\ t \in Publishing
    BY <1>3 DEF PublishSends, Publishing, TypeOK
  <2>2. Cardinality(Publishing') = Cardinality(Publishing) - 1
    BY <1>1, <2>1, FS_RemoveElement
  <2>3. sent' = sent + 1
    BY <1>3 DEF PublishSends
  <2> QED
    BY <1>1, <2>2, <2>3, TopicsAssumption DEF Counted, TypeOK
<1>4. ASSUME UNCHANGED <<call, sent>>
      PROVE  Counted'
  BY <1>4 DEF Counted, Publishing
<1> QED
  BY <1>2, <1>3, <1>4
     DEF Next, RegisterPubTopic, RegisterSubTopic, TakesMessage, CallbackReturns, Reopens,
         ShutdownBegins, ShutdownEnds

\* What a publish() finds is a publisher of the topic and of its type.
LEMMA TypedStep ==
    ASSUME TypeOK, Counted, Registered, Found, Next
    PROVE  TypeOK'
<1>1. ASSUME NEW x \in Topics, NEW ty \in Types, RegisterPubTopic(x, ty)
      PROVE  TypeOK'
  <2>1. [topic |-> x, type |-> ty] \in [topic : Topics, type : Types]
    OBVIOUS
  <2>2. /\ made' \in Seq([topic : Topics, type : Types])
        /\ Len(made') = Len(made) + 1 /\ Len(made) \in Nat
    BY <1>1, <2>1, AppendProperties, LenProperties DEF RegisterPubTopic, TypeOK
  <2>3. Len(made') \in 1..MaxEntities
    BY <1>1, <2>2, TopicsAssumption DEF RegisterPubTopic
  <2>4. Len(made') \in 0..MaxEntities /\ Len(made') \in Entities
    BY <2>3, TopicsAssumption DEF Entities
  <2>5. pub' \in [Topics -> 0..MaxEntities] /\ pubType' \in [Topics -> Types \cup {"none"}]
    BY <1>1, <2>4 DEF RegisterPubTopic, TypeOK
  <2>6. alive' \subseteq Entities
    BY <1>1, <2>4 DEF RegisterPubTopic, TypeOK
  <2>7. UNCHANGED <<stage, sessions, subs, call, job, queue, sent, era, told>>
    BY <1>1, Zenon DEF RegisterPubTopic
  <2> QED
    BY <2>2, <2>5, <2>6, <2>7 DEF TypeOK
<1>2. ASSUME NEW x \in Topics, RegisterSubTopic(x)
      PROVE  TypeOK'
  BY <1>2 DEF RegisterSubTopic, TypeOK
<1>3. ASSUME NEW t \in Threads, NEW x \in Topics, NEW ty \in Types, PublishFinds(t, x, ty)
      PROVE  TypeOK'
  <2>1. [entity |-> pub[x], type |-> ty] \in [entity : 0..MaxEntities, type : Types \cup {"none"}]
    BY DEF TypeOK
  <2>2. call' \in [Threads -> [entity : 0..MaxEntities, type : Types \cup {"none"}]]
    BY <1>3, <2>1 DEF PublishFinds, TypeOK
  <2>3. UNCHANGED <<stage, sessions, pub, pubType, made, alive, subs, job, queue, sent, era, told>>
    BY <1>3, Zenon DEF PublishFinds, maps
  <2> QED
    BY <2>2, <2>3 DEF TypeOK
<1>4. ASSUME NEW t \in Threads, PublishSends(t)
      PROVE  TypeOK'
  <2>1. sent + 1 \in 1..MaxMessages
    <3>1. Cardinality(Publishing) \in Nat /\ Cardinality(Publishing) >= 1
      BY <1>4, PublishingCount DEF PublishSends
    <3> QED
      BY <3>1, TopicsAssumption DEF TypeOK, Counted
  <2>2. ASSUME NEW x \in Topics
        PROVE  /\ Queued(Append(queue[x], sent + 1)) \in Seq(1..MaxMessages)
               /\ Len(Queued(Append(queue[x], sent + 1))) <= QueueSize
    <3>1. Append(queue[x], sent + 1) \in Seq(1..MaxMessages)
      BY <2>1, AppendProperties DEF TypeOK
    <3> QED
      BY <3>1, QueuedIsSuffix
  <2>3. /\ queue' \in [Topics -> Seq(1..MaxMessages)]
        /\ \A x \in Topics : Len(queue'[x]) <= QueueSize
    BY <1>4, <2>2 DEF PublishSends, TypeOK
  <2>4. alive' \subseteq Entities /\ NoCall \in [entity : 0..MaxEntities, type : Types \cup {"none"}]
    BY <1>4, TopicsAssumption DEF PublishSends, Released, TypeOK, NoCall
  <2>5. call' \in [Threads -> [entity : 0..MaxEntities, type : Types \cup {"none"}]]
    BY <1>4, <2>4 DEF PublishSends, TypeOK
  <2>6. sent' = sent + 1 /\ UNCHANGED <<stage, sessions, pub, pubType, made, subs, job, told>>
    BY <1>4, Zenon DEF PublishSends
  <2>7. sent' \in 0..MaxMessages /\ era' \in [1..MaxMessages -> 0..MaxSessions]
    <3>1. era' = [era EXCEPT ![sent'] = sessions] /\ sessions \in 0..MaxSessions
      BY <1>4, TopicsAssumption DEF PublishSends, TypeOK
    <3>2. sent' \in 0..MaxMessages
      BY <2>1, <2>6, TopicsAssumption
    <3> QED
      BY <3>1, <3>2 DEF TypeOK
  <2> QED
    BY <2>3, <2>4, <2>5, <2>6, <2>7 DEF TypeOK
<1>5. ASSUME NEW w \in Workers, NEW x \in Topics, TakesMessage(w, x)
      PROVE  TypeOK'
  <2>1. /\ Head(queue[x]) \in 1..MaxMessages /\ Tail(queue[x]) \in Seq(1..MaxMessages)
        /\ Len(Tail(queue[x])) <= QueueSize
    <3>1. queue[x] \in Seq(1..MaxMessages) /\ queue[x] # <<>> /\ Len(queue[x]) <= QueueSize
      BY <1>5 DEF TakesMessage, TypeOK
    <3>2. /\ Head(queue[x]) \in 1..MaxMessages /\ Tail(queue[x]) \in Seq(1..MaxMessages)
          /\ Len(Tail(queue[x])) = Len(queue[x]) - 1
      BY <3>1, HeadTailProperties
    <3>3. Len(queue[x]) \in Nat
      BY <3>1, LenProperties
    <3> QED
      BY <3>1, <3>2, <3>3, TopicsAssumption
  <2>2. Append(told[x], Head(queue[x])) \in Seq(1..MaxMessages)
    BY <2>1, AppendProperties DEF TypeOK
  <2>3. [topic |-> x, message |-> Head(queue[x])]
            \in [topic : Topics \cup {"none"}, message : 0..MaxMessages]
    BY <2>1, TopicsAssumption
  <2>4. /\ queue' \in [Topics -> Seq(1..MaxMessages)] /\ told' \in [Topics -> Seq(1..MaxMessages)]
        /\ \A y \in Topics : Len(queue'[y]) <= QueueSize
    BY <1>5, <2>1, <2>2 DEF TakesMessage, TypeOK
  <2> QED
    BY <1>5, <2>3, <2>4 DEF TakesMessage, TypeOK, maps
<1>6. ASSUME NEW w \in Workers, CallbackReturns(w)
      PROVE  TypeOK'
  <2>1. NoJob \in [topic : Topics \cup {"none"}, message : 0..MaxMessages]
    BY TopicsAssumption DEF NoJob
  <2> QED
    BY <1>6, <2>1 DEF CallbackReturns, TypeOK, maps
<1>7. CASE Reopens
  BY <1>7, TopicsAssumption DEF Reopens, TypeOK, maps
<1>8. CASE ShutdownBegins
  BY <1>8 DEF ShutdownBegins, TypeOK, maps
<1>9. CASE ShutdownEnds
  <2>1. <<>> \in Seq(1..MaxMessages) /\ Len(<<>>) <= QueueSize
    BY EmptySeq, TopicsAssumption
  <2>2. KeptByCalls \subseteq Entities
    BY TopicsAssumption DEF KeptByCalls, TypeOK, Entities
  <2> QED
    BY <1>9, <2>1, <2>2, TopicsAssumption DEF ShutdownEnds, TypeOK
<1> QED
  BY <1>1, <1>2, <1>3, <1>4, <1>5, <1>6, <1>7, <1>8, <1>9 DEF Next

\* A publisher is not destroyed as long as the map or a call under way holds it.
LEMMA FoundStep ==
    ASSUME TypeOK, Registered, Found, Next
    PROVE  Registered' /\ Found'
<1>1. ASSUME NEW x \in Topics, NEW ty \in Types, RegisterPubTopic(x, ty)
      PROVE  Registered' /\ Found'
  <2>1. [topic |-> x, type |-> ty] \in [topic : Topics, type : Types]
    OBVIOUS
  <2>2. /\ Len(made) \in Nat /\ Len(made') = Len(made) + 1
        /\ \A i \in 1..Len(made) : made'[i] = made[i]
        /\ made'[Len(made')] = [topic |-> x, type |-> ty]
    BY <1>1, <2>1, AppendProperties, LenProperties DEF RegisterPubTopic, TypeOK
  <2>3. Registered'
    <3>1. /\ pub' = [pub EXCEPT ![x] = Len(made')] /\ pub \in [Topics -> 0..MaxEntities]
          /\ pubType' = [pubType EXCEPT ![x] = ty]
          /\ pubType \in [Topics -> Types \cup {"none"}]
          /\ alive' = alive \cup {Len(made')}
      BY <1>1, Zenon DEF RegisterPubTopic, TypeOK
    <3> QED
      BY <2>2, <3>1 DEF Registered
  <2>4. Found'
    BY <1>1, <2>2, SMTT(30) DEF RegisterPubTopic, TypeOK, Found
  <2> QED
    BY <2>3, <2>4
<1>2. ASSUME NEW t \in Threads, NEW x \in Topics, NEW ty \in Types, PublishFinds(t, x, ty)
      PROVE  Registered' /\ Found'
  <2>1. /\ pub[x] \in alive /\ pub[x] \in 1..Len(made) /\ made[pub[x]].type = ty
    <3>1. pub[x] # 0 /\ pubType[x] = ty
      BY <1>2 DEF PublishFinds, SameType
    <3>2. /\ pub[x] \in alive /\ pub[x] \in 1..Len(made)
          /\ made[pub[x]] = [topic |-> x, type |-> pubType[x]]
      BY <3>1, Zenon DEF Registered
    <3>3. [topic |-> x, type |-> pubType[x]].type = pubType[x]
      OBVIOUS
    <3> QED
      BY <3>1, <3>2, <3>3, Zenon
  <2> QED
    BY <1>2, <2>1 DEF PublishFinds, TypeOK, Registered, Found, maps
<1>3. ASSUME NEW t \in Threads, PublishSends(t)
      PROVE  Registered' /\ Found'
  <2>1. \A x \in Topics : pub[x] # 0 => pub[x] \in alive'
    BY <1>3 DEF PublishSends, Released, Registered, TypeOK, Range
  <2>2. \A u \in Threads : call'[u] # NoCall =>
            u # t /\ call'[u] = call[u] /\ call[u].entity \in alive'
    BY <1>3 DEF PublishSends, Released, Found, TypeOK
  <2> QED
    BY <1>3, <2>1, <2>2 DEF PublishSends, Registered, Found
<1>4. CASE ShutdownEnds
  <2>1. Registered'
    BY <1>4 DEF ShutdownEnds, Registered
  <2>2. \A t \in Threads : call[t] # NoCall => call[t].entity \in alive'
    BY <1>4 DEF ShutdownEnds, KeptByCalls, Found
  <2> QED
    BY <1>4, <2>1, <2>2 DEF ShutdownEnds, Found
<1>5. ASSUME UNCHANGED <<pub, pubType, made, alive, call>>
      PROVE  Registered' /\ Found'
  BY <1>5 DEF Registered, Found
<1> QED
  BY <1>1, <1>2, <1>3, <1>4, <1>5
     DEF Next, RegisterSubTopic, TakesMessage, CallbackReturns, Reopens, ShutdownBegins, maps

\* A topic is taken when no worker has it, and nothing is taken when the node is down.
LEMMA ApartStep ==
    ASSUME TypeOK, Alone, Apart, Next
    PROVE  Alone' /\ Apart'
<1>1. ASSUME NEW w \in Workers, NEW x \in Topics, TakesMessage(w, x)
      PROVE  Alone' /\ Apart'
  <2>1. \A v \in Workers \ {w} : job'[v] = job[v] /\ job[v].topic # x
    BY <1>1 DEF TakesMessage, GroupFree, TypeOK
  <2>2. job'[w].topic = x
    BY <1>1 DEF TakesMessage, TypeOK
  <2>3. Alone'
    BY <2>1, <2>2 DEF Alone
  <2>4. \A y \in Topics : queue'[y] # <<>> => queue[y] # <<>>
    BY <1>1 DEF TakesMessage, TypeOK
  <2>5. Apart'
    BY <1>1, <2>4 DEF TakesMessage, Apart, maps
  <2> QED
    BY <2>3, <2>5
<1>2. ASSUME NEW w \in Workers, CallbackReturns(w)
      PROVE  Alone' /\ Apart'
  <2>1. Alone'
    BY <1>2, TopicsAssumption DEF CallbackReturns, Alone, TypeOK, NoJob
  <2> QED
    BY <1>2, <2>1 DEF CallbackReturns, Apart, TypeOK, maps
<1>3. ASSUME NEW t \in Threads, PublishSends(t)
      PROVE  Alone' /\ Apart'
  <2>1. \A y \in Topics : queue'[y] # <<>> => y \in subs
    BY <1>3 DEF PublishSends, Apart, TypeOK
  <2> QED
    BY <1>3, <2>1 DEF PublishSends, Alone, Apart
<1>4. CASE ShutdownEnds
  BY <1>4 DEF ShutdownEnds, Drained, Alone, Apart
<1>5. CASE Reopens \/ ShutdownBegins
  BY <1>5 DEF Reopens, ShutdownBegins, Alone, Apart, maps
<1>6. ASSUME NEW x \in Topics, RegisterSubTopic(x)
      PROVE  Alone' /\ Apart'
  BY <1>6 DEF RegisterSubTopic, Alone, Apart
<1>7. ASSUME UNCHANGED <<stage, subs, job, queue>>
      PROVE  Alone' /\ Apart'
  BY <1>7 DEF Alone, Apart
<1> QED
  BY <1>1, <1>2, <1>3, <1>4, <1>5, <1>6, <1>7 DEF Next, RegisterPubTopic, PublishFinds, maps

\* A queue gains the newest message at its end, and loses some at its front.
LEMMA AscendingQueued ==
    ASSUME NEW n \in Nat, NEW s \in Seq(Nat), Ascending(s, n)
    PROVE  /\ Ascending(Queued(Append(s, n)), n + 1)
           /\ \A i \in 1..Len(Queued(Append(s, n))) :
                 \/ Queued(Append(s, n))[i] = n
                 \/ \E j \in 1..Len(s) : Queued(Append(s, n))[i] = s[j]
<1> DEFINE a == Append(s, n)
           q == Queued(a)
<1>1. /\ a \in Seq(Nat) /\ Len(s) \in Nat /\ Len(a) = Len(s) + 1
      /\ \A i \in 1..Len(s) : a[i] = s[i] /\ s[i] \in Nat
      /\ a[Len(s) + 1] = n
  BY AppendProperties, LenProperties, ElementOfSeq
<1>2. /\ \A i \in 1..Len(a) : a[i] < n + 1
      /\ \A i, j \in 1..Len(a) : i < j => a[i] < a[j]
  <2>1. \A i \in 1..Len(a) : i \in 1..Len(s) \/ i = Len(s) + 1
    BY <1>1
  <2> QED
    BY <1>1, <2>1 DEF Ascending
<1> HIDE DEF a
<1>3. /\ q \in Seq(Nat) /\ Len(q) \in Nat
      /\ \E d \in Nat : Len(q) + d = Len(a) /\ \A i \in 1..Len(q) : q[i] = a[i + d]
  BY <1>1, QueuedIsSuffix, LenProperties
<1> HIDE DEF q
<1>4. PICK d \in Nat : Len(q) + d = Len(a) /\ \A i \in 1..Len(q) : q[i] = a[i + d]
  BY <1>3
<1>5. \A i \in 1..Len(q) : i + d \in 1..Len(a)
  BY <1>1, <1>3, <1>4
<1>6. Ascending(q, n + 1)
  <2>1. \A i \in 1..Len(q) : q[i] < n + 1
    BY <1>2, <1>4, <1>5
  <2>2. ASSUME NEW i \in 1..Len(q), NEW j \in 1..Len(q), i < j
        PROVE  q[i] < q[j]
    <3>1. i + d < j + d
      BY <1>3, <2>2
    <3> QED
      BY <1>2, <1>4, <1>5, <3>1
  <2> QED
    BY <2>1, <2>2 DEF Ascending
<1>7. \A i \in 1..Len(q) : q[i] = n \/ \E j \in 1..Len(s) : q[i] = s[j]
  <2> SUFFICES ASSUME NEW i \in 1..Len(q)
               PROVE  q[i] = n \/ \E j \in 1..Len(s) : q[i] = s[j]
    OBVIOUS
  <2>1. i + d \in 1..Len(s) \/ i + d = Len(s) + 1
    BY <1>1, <1>5
  <2> QED
    BY <1>1, <1>4, <2>1
<1> QED
  BY <1>6, <1>7 DEF q, a

\* A worker takes the oldest message of the queue, younger than those told.
LEMMA AscendingTaken ==
    ASSUME NEW n \in Nat, NEW s \in Seq(Nat), NEW q \in Seq(Nat), q # <<>>,
           Ascending(s, n), Ascending(q, n),
           \A i \in 1..Len(s), j \in 1..Len(q) : s[i] < q[j]
    PROVE  /\ Ascending(Append(s, Head(q)), n) /\ Ascending(Tail(q), n)
           /\ \A i \in 1..Len(Append(s, Head(q))), j \in 1..Len(Tail(q)) :
                 Append(s, Head(q))[i] < Tail(q)[j]
<1> DEFINE h == Head(q)
           a == Append(s, h)
           r == Tail(q)
<1>1. /\ Len(q) \in Nat \ {0} /\ h = q[1] /\ h \in Nat
      /\ Len(r) = Len(q) - 1 /\ \A i \in 1..Len(r) : r[i] = q[i + 1]
  BY HeadTailProperties, EmptySeq
<1> HIDE DEF h, r
<1>2. /\ Len(s) \in Nat /\ Len(a) = Len(s) + 1
      /\ \A i \in 1..Len(s) : a[i] = s[i] /\ s[i] \in Nat
      /\ a[Len(s) + 1] = h
  BY <1>1, AppendProperties, LenProperties, ElementOfSeq
<1> HIDE DEF a
<1>3. \A i \in 1..Len(a) : i \in 1..Len(s) \/ i = Len(s) + 1
  BY <1>2
<1>4. \A i \in 1..Len(r) : i + 1 \in 1..Len(q) /\ 1 \in 1..Len(q) /\ 1 < i + 1
  BY <1>1
<1>5. Ascending(r, n)
  <2>1. \A i \in 1..Len(r) : r[i] < n
    BY <1>1, <1>4 DEF Ascending
  <2>2. ASSUME NEW i \in 1..Len(r), NEW j \in 1..Len(r), i < j
        PROVE  r[i] < r[j]
    <3>1. i + 1 < j + 1
      BY <1>1, <2>2
    <3> QED
      BY <1>1, <1>4, <3>1 DEF Ascending
  <2> QED
    BY <2>1, <2>2 DEF Ascending
<1>6. Ascending(a, n)
  <2>1. h < n /\ \A i \in 1..Len(s) : s[i] < h
    BY <1>1, <1>2 DEF Ascending
  <2>2. \A i \in 1..Len(a) : a[i] < n
    BY <1>2, <1>3, <2>1 DEF Ascending
  <2>3. ASSUME NEW i \in 1..Len(a), NEW j \in 1..Len(a), i < j
        PROVE  a[i] < a[j]
    <3>1. i \in 1..Len(s)
      BY <1>2, <2>3
    <3>2. CASE j \in 1..Len(s)
      BY <1>2, <2>3, <3>1, <3>2 DEF Ascending
    <3>3. CASE j = Len(s) + 1
      BY <1>2, <2>1, <3>1, <3>3
    <3> QED
      BY <1>3, <3>2, <3>3
  <2> QED
    BY <2>2, <2>3 DEF Ascending
<1>7. ASSUME NEW i \in 1..Len(a), NEW j \in 1..Len(r)
      PROVE  a[i] < r[j]
  BY <1>1, <1>2, <1>3, <1>4 DEF Ascending
<1> QED
  BY <1>5, <1>6, <1>7 DEF a, h, r

\* What is published later comes later, and no worker overtakes another.
LEMMA OrderedStep ==
    ASSUME TypeOK, Ordered, Next
    PROVE  Ordered'
<1>1. /\ sent \in Nat
      /\ \A x \in Topics : queue[x] \in Seq(Nat) /\ told[x] \in Seq(Nat)
  <2>1. 1..MaxMessages \subseteq Nat
    BY TopicsAssumption
  <2> QED
    BY <2>1, SeqMonotonic, TopicsAssumption DEF TypeOK
<1>2. ASSUME NEW t \in Threads, PublishSends(t)
      PROVE  Ordered'
  <2> SUFFICES ASSUME NEW x \in Topics
               PROVE  /\ Ascending(told[x], sent + 2) /\ Ascending(queue'[x], sent + 2)
                      /\ \A i \in 1..Len(told[x]), j \in 1..Len(queue'[x]) : told[x][i] < queue'[x][j]
    BY <1>1, <1>2 DEF PublishSends, Ordered
  <2>1. /\ Ascending(told[x], sent + 1) /\ Ascending(queue[x], sent + 1)
        /\ \A i \in 1..Len(told[x]), j \in 1..Len(queue[x]) : told[x][i] < queue[x][j]
    BY DEF Ordered
  <2>2. /\ \A i \in 1..Len(told[x]) : told[x][i] \in Nat
        /\ \A i \in 1..Len(queue[x]) : queue[x][i] \in Nat
    BY <1>1, ElementOfSeq
  <2>3. Ascending(told[x], sent + 2) /\ Ascending(queue[x], sent + 2)
    BY <1>1, <2>1, <2>2 DEF Ascending
  <2>4. queue'[x] = queue[x] \/ queue'[x] = Queued(Append(queue[x], sent + 1))
    BY <1>2 DEF PublishSends, TypeOK
  <2>5. CASE queue'[x] = queue[x]
    BY <2>1, <2>3, <2>5
  <2>6. CASE queue'[x] = Queued(Append(queue[x], sent + 1))
    <3>1. sent + 1 \in Nat /\ sent + 1 + 1 = sent + 2
      BY <1>1
    <3>2. /\ Ascending(queue'[x], sent + 2)
          /\ \A j \in 1..Len(queue'[x]) :
                \/ queue'[x][j] = sent + 1
                \/ \E k \in 1..Len(queue[x]) : queue'[x][j] = queue[x][k]
      BY <1>1, <2>1, <2>6, <3>1, AscendingQueued
    <3> QED
      BY <2>1, <2>3, <3>2 DEF Ascending
  <2> QED
    BY <2>4, <2>5, <2>6
<1>3. ASSUME NEW w \in Workers, NEW x \in Topics, TakesMessage(w, x)
      PROVE  Ordered'
  <2>1. /\ queue[x] # <<>> /\ sent' = sent /\ queue'[x] = Tail(queue[x])
        /\ told'[x] = Append(told[x], Head(queue[x]))
        /\ \A y \in Topics \ {x} : queue'[y] = queue[y] /\ told'[y] = told[y]
    BY <1>3 DEF TakesMessage, TypeOK
  <2>2. /\ Ascending(told'[x], sent + 1) /\ Ascending(queue'[x], sent + 1)
        /\ \A i \in 1..Len(told'[x]), j \in 1..Len(queue'[x]) : told'[x][i] < queue'[x][j]
    <3>1. /\ Ascending(told[x], sent + 1) /\ Ascending(queue[x], sent + 1)
          /\ \A i \in 1..Len(told[x]), j \in 1..Len(queue[x]) : told[x][i] < queue[x][j]
      BY DEF Ordered
    <3>2. sent + 1 \in Nat /\ queue[x] \in Seq(Nat) /\ told[x] \in Seq(Nat)
      BY <1>1
    <3>3. LET a == Append(told[x], Head(queue[x]))
              r == Tail(queue[x])
          IN  /\ Ascending(a, sent + 1) /\ Ascending(r, sent + 1)
              /\ \A i \in 1..Len(a), j \in 1..Len(r) : a[i] < r[j]
      BY <2>1, <3>1, <3>2, AscendingTaken
    <3> QED
      BY <2>1, <3>3
  <2> QED
    BY <2>1, <2>2 DEF Ordered
<1>4. CASE ShutdownEnds
  <2>1. \A x \in Topics : queue'[x] = <<>> /\ Len(<<>>) = 0
    BY <1>4 DEF ShutdownEnds
  <2> QED
    BY <1>4, <2>1 DEF ShutdownEnds, Ordered, Ascending
<1>5. ASSUME UNCHANGED <<queue, told, sent>>
      PROVE  Ordered'
  BY <1>5 DEF Ordered
<1> QED
  BY <1>2, <1>3, <1>4, <1>5
     DEF Next, RegisterPubTopic, RegisterSubTopic, PublishFinds, CallbackReturns, Reopens,
         ShutdownBegins
\* A message gets the session it is sent in, and is taken in it or lost with it.
LEMMA CurrentStep ==
    ASSUME TypeOK, TypeOK', Ordered, Apart, Current, Next
    PROVE  Current'
<1>1. /\ sent \in Nat
      /\ \A x \in Topics :
            /\ queue[x] \in Seq(1..MaxMessages) /\ Len(queue[x]) \in Nat
            /\ \A i \in 1..Len(queue[x]) :
                  queue[x][i] \in 1..sent /\ era[queue[x][i]] = sessions
  <2>1. sent \in Nat /\ \A x \in Topics : queue[x] \in Seq(1..MaxMessages)
    BY TopicsAssumption DEF TypeOK
  <2>2. \A x \in Topics : \A i \in 1..Len(queue[x]) :
            queue[x][i] \in 1..MaxMessages /\ queue[x][i] < sent + 1
    BY <2>1, ElementOfSeq DEF Ordered, Ascending
  <2> QED
    BY <2>1, <2>2, LenProperties, TopicsAssumption DEF Current
<1>2. ASSUME NEW t \in Threads, PublishSends(t)
      PROVE  Current'
  <2>1. /\ sent' = sent + 1 /\ sent' \in 1..MaxMessages /\ UNCHANGED <<sessions, job>>
        /\ era'[sent + 1] = sessions
        /\ \A m \in 1..sent : era'[m] = era[m]
    BY <1>1, <1>2, TopicsAssumption DEF PublishSends, TypeOK
  <2>2. ASSUME NEW x \in Topics, NEW i \in 1..Len(queue'[x])
        PROVE  era'[queue'[x][i]] = sessions
    <3>1. queue'[x] = queue[x] \/ queue'[x] = Queued(Append(queue[x], sent + 1))
      BY <1>2 DEF PublishSends, TypeOK
    <3>2. CASE queue'[x] = queue[x]
      BY <1>1, <2>1, <3>2
    <3>3. CASE queue'[x] = Queued(Append(queue[x], sent + 1))
      <4>1. /\ sent + 1 \in Nat /\ queue[x] \in Seq(Nat) /\ Ascending(queue[x], sent + 1)
        <5>1. 1..MaxMessages \subseteq Nat
          BY TopicsAssumption
        <5> QED
          BY <1>1, <5>1, SeqMonotonic DEF Ordered
      <4>2. \/ queue'[x][i] = sent + 1
            \/ \E j \in 1..Len(queue[x]) : queue'[x][i] = queue[x][j]
        <5>1. \A j \in 1..Len(Queued(Append(queue[x], sent + 1))) :
                  \/ Queued(Append(queue[x], sent + 1))[j] = sent + 1
                  \/ \E k \in 1..Len(queue[x]) :
                        Queued(Append(queue[x], sent + 1))[j] = queue[x][k]
          BY <4>1, AscendingQueued
        <5> QED
          BY <3>3, <5>1
      <4> QED
        BY <1>1, <2>1, <4>2
    <3> QED
      BY <3>1, <3>2, <3>3
  <2>3. ASSUME NEW w \in Workers, job'[w] # NoJob
        PROVE  job'[w].message \in 1..sent' /\ era'[job'[w].message] = sessions
    BY <1>1, <2>1, <2>3 DEF Current
  <2> QED
    BY <2>1, <2>2, <2>3 DEF Current
<1>3. ASSUME NEW w \in Workers, NEW x \in Topics, TakesMessage(w, x)
      PROVE  Current'
  <2>1. /\ UNCHANGED <<sessions, sent, era>>
        /\ queue[x] # <<>> /\ queue'[x] = Tail(queue[x])
        /\ \A y \in Topics \ {x} : queue'[y] = queue[y]
        /\ job'[w] = [topic |-> x, message |-> Head(queue[x])]
        /\ \A v \in Workers \ {w} : job'[v] = job[v]
    BY <1>3 DEF TakesMessage, TypeOK, maps
  <2>2. /\ Head(queue[x]) = queue[x][1] /\ 1 \in 1..Len(queue[x])
        /\ \A i \in 1..Len(Tail(queue[x])) :
              Tail(queue[x])[i] = queue[x][i + 1] /\ i + 1 \in 1..Len(queue[x])
    BY <1>1, <2>1, HeadTailProperties, EmptySeq
  <2>3. ASSUME NEW y \in Topics, NEW i \in 1..Len(queue'[y])
        PROVE  era[queue'[y][i]] = sessions
    <3>1. CASE y = x
      <4>1. queue'[y][i] = queue[x][i + 1] /\ i + 1 \in 1..Len(queue[x])
        BY <2>1, <2>2, <3>1
      <4> QED
        BY <1>1, <4>1
    <3>2. CASE y # x
      BY <1>1, <2>1, <3>2
    <3> QED
      BY <3>1, <3>2
  <2>4. Head(queue[x]) \in 1..sent /\ era[Head(queue[x])] = sessions
    BY <1>1, <2>2
  <2> QED
    BY <2>1, <2>3, <2>4 DEF Current
<1>4. ASSUME NEW w \in Workers, CallbackReturns(w)
      PROVE  Current'
  BY <1>4 DEF CallbackReturns, Current, TypeOK, maps
<1>5. CASE Reopens
  BY <1>5 DEF Reopens, Apart, Current, maps
<1>6. CASE ShutdownEnds
  <2>1. \A x \in Topics : queue'[x] = <<>> /\ Len(<<>>) = 0
    BY <1>6 DEF ShutdownEnds
  <2> QED
    BY <1>6, <2>1 DEF ShutdownEnds, Current
<1>7. ASSUME UNCHANGED <<sessions, job, queue, sent, era>>
      PROVE  Current'
  BY <1>7 DEF Current
<1> QED
  BY <1>2, <1>3, <1>4, <1>5, <1>6, <1>7
     DEF Next, RegisterPubTopic, RegisterSubTopic, PublishFinds, ShutdownBegins, maps
-----------------------------------------------------------------------------
\* IInv holds in every state, whatever is called and however the workers are scheduled.
THEOREM TopicsInvariant == Spec => []IInv
<1>1. Init => IInv
  <2> SUFFICES ASSUME Init PROVE IInv
    OBVIOUS
  <2>1. /\ <<>> \in Seq(1..MaxMessages) /\ <<>> \in Seq([topic : Topics, type : Types])
        /\ Len(<<>>) = 0
    BY EmptySeq
  <2>2. NoJob \in [topic : Topics \cup {"none"}, message : 0..MaxMessages]
    BY TopicsAssumption DEF NoJob
  <2>3. NoCall \in [entity : 0..MaxEntities, type : Types \cup {"none"}]
    BY TopicsAssumption DEF NoCall
  <2>4. TypeOK
    BY <2>1, <2>2, <2>3, TopicsAssumption DEF Init, TypeOK
  <2>5. Counted
    <3>1. Publishing = {}
      BY DEF Init, Publishing
    <3> QED
      BY <3>1, FS_EmptySet, TopicsAssumption DEF Init, Counted
  <2>6. Registered /\ Found /\ Alone /\ Apart
    BY TopicsAssumption DEF Init, Registered, Found, Alone, Apart
  <2>7. Ordered /\ Current
    BY <2>1 DEF Init, Ordered, Ascending, Current
  <2> QED
    BY <2>4, <2>5, <2>6, <2>7 DEF IInv
<1>2. IInv /\ [Next]_vars => IInv'
  <2>1. ASSUME IInv, Next
        PROVE  IInv'
    BY <2>1, TypedStep, CountedStep, FoundStep, ApartStep, OrderedStep, CurrentStep DEF IInv
  <2>2. ASSUME IInv, UNCHANGED vars
        PROVE  IInv'
    BY <2>2 DEF IInv, TypeOK, Counted, Publishing, Registered, Found, Alone, Ordered, Apart,
                Current, vars, maps
  <2> QED
    BY <2>1, <2>2
<1> QED
  BY <1>1, <1>2, PTL DEF Spec

\* Every variable keeps its type, and no queue exceeds its depth.
THEOREM TopicsTyped == Spec => []TypeOK
<1>1. IInv => TypeOK
  BY DEF IInv
<1> QED
  BY <1>1, TopicsInvariant, PTL

\* publish() never uses a destroyed publisher, or one of another type than it casts it to.
THEOREM PublishersLive == Spec => []PublisherInUse
<1>1. IInv => PublisherInUse
  BY DEF IInv, Found, PublisherInUse
<1> QED
  BY <1>1, TopicsInvariant, PTL

\* The callbacks of a topic are called one at a time, in the order of the messages.
THEOREM TopicsInOrder == Spec => []SameTopicInOrder
<1>1. IInv => SameTopicInOrder
  <2> SUFFICES ASSUME IInv, NEW x \in Topics, NEW i \in 1..(Len(told[x]) - 1)
               PROVE  told[x][i] < told[x][i + 1]
    BY DEF IInv, Alone, SameTopicInOrder
  <2>1. Len(told[x]) \in Nat
    BY LenProperties DEF IInv, TypeOK
  <2>2. i \in 1..Len(told[x]) /\ i + 1 \in 1..Len(told[x]) /\ i < i + 1
    BY <2>1
  <2> QED
    BY <2>2 DEF IInv, Ordered, Ascending
<1> QED
  BY <1>1, TopicsInvariant, PTL

\* Nothing of a session runs or waits when its shutdown() has returned, and no message sent in it
\* reaches a callback of another.
THEOREM SessionsEnd == Spec => []SessionsApart
<1>1. IInv => SessionsApart
  <2> SUFFICES ASSUME IInv PROVE SessionsApart
    OBVIOUS
  <2>1. \A x \in Topics : \A m \in Range(queue[x]) : era[m] = sessions
    <3>1. \A x \in Topics : queue[x] \in Seq(1..MaxMessages)
      BY DEF IInv, TypeOK
    <3> QED
      BY <3>1, LenProperties DEF IInv, Current, Range
  <2> QED
    BY <2>1, TopicsAssumption DEF IInv, Apart, Current, SessionsApart, Busy, NoJob
<1> QED
  BY <1>1, TopicsInvariant, PTL
-----------------------------------------------------------------------------
\* What a step does to the stage and to what is registered.
LEMMA StageMoves ==
    ASSUME IInv, [Next]_vars
    PROVE  \/ stage' = stage /\ UNCHANGED <<subs, pub>>
           \/ stage = "up" /\ stage' = "up" /\ MembersMade' /\ UNCHANGED job
           \/ stage = "up" /\ stage' = "closing" /\ UNCHANGED <<subs, pub, job>>
           \/ stage = "down" /\ stage' = "up" /\ UNCHANGED <<subs, pub, job>>
           \/ /\ stage = "closing" /\ stage' = "down" /\ ~MembersMade'
              /\ ~CallbacksRun /\ UNCHANGED job
<1> USE TopicsAssumption DEF IInv, TypeOK, maps
<1>1. ASSUME NEW x \in Topics, RegisterSubTopic(x)
      PROVE  stage = "up" /\ stage' = "up" /\ MembersMade' /\ UNCHANGED job
  BY <1>1 DEF RegisterSubTopic, MembersMade
<1>2. ASSUME NEW x \in Topics, NEW ty \in Types, RegisterPubTopic(x, ty)
      PROVE  stage = "up" /\ stage' = "up" /\ MembersMade' /\ UNCHANGED job
  <2>1. Len(made') # 0 /\ pub'[x] = Len(made')
    BY <1>2, AppendProperties, LenProperties DEF RegisterPubTopic
  <2> QED BY <1>2, <2>1 DEF RegisterPubTopic, MembersMade
<1>3. ASSUME ShutdownEnds
      PROVE  /\ stage = "closing" /\ stage' = "down" /\ ~MembersMade'
             /\ ~CallbacksRun /\ UNCHANGED job
  BY <1>3 DEF ShutdownEnds, Drained, MembersMade, CallbacksRun
<1> QED
  BY <1>1, <1>2, <1>3 DEF Next, vars, PublishFinds, TakesMessage, PublishSends, CallbackReturns,
     Reopens, ShutdownBegins

\* The topics keep the session of the node: nothing is registered while it closes, although
\* publish() goes on, and none of its callbacks is running or to come when it is down.
THEOREM TopicsKeepSession == Spec => Session!Spec
<1> DEFINE NothingLeft == stage = "down" => ~MembersMade
<1>1. Init => Session!Init /\ NothingLeft
  <2>1. SUFFICES ASSUME Init PROVE Session!Init /\ NothingLeft
    OBVIOUS
  <2>2. stage = "up" /\ ~CallbacksRun /\ ~MembersMade
    BY <2>1 DEF Init, CallbacksRun, MembersMade
  <2>3. MembersMade \in BOOLEAN
    BY DEF MembersMade
  <2> QED BY <2>2, <2>3 DEF Session!Init
<1>2. IInv /\ NothingLeft /\ [Next]_vars => NothingLeft'
  BY StageMoves DEF MembersMade
<1>3. IInv /\ IInv' /\ NothingLeft /\ [Next]_vars => [Session!Next]_(Session!vars)
  <2>1. SUFFICES ASSUME IInv, IInv', NothingLeft, [Next]_vars
                 PROVE  Session!Next
    OBVIOUS
  <2>2. CASE stage' = stage /\ UNCHANGED <<subs, pub>>
    <3>1. MembersMade' <=> MembersMade
      BY <2>2 DEF MembersMade
    <3>2. CASE CallbacksRun'
      <4>1. stage' # "down"
        BY <2>1, <3>2 DEF IInv, Apart, CallbacksRun
      <4> QED BY <2>2, <3>1, <3>2, <4>1 DEF Session!Next, Session!WorkBegins
    <3>3. CASE ~CallbacksRun'
      BY <2>2, <3>1, <3>3 DEF Session!Next, Session!WorkEnds
    <3> QED BY <3>2, <3>3
  <2>3. CASE UNCHANGED job /\ stage' # stage
    <3>1. CallbacksRun' <=> CallbacksRun
      BY <2>3 DEF CallbacksRun
    <3>2. CASE UNCHANGED <<subs, pub>>
      <4>1. MembersMade' <=> MembersMade
        BY <3>2 DEF MembersMade
      <4>2. \/ stage = "up" /\ stage' = "closing"
            \/ stage = "down" /\ stage' = "up"
            \/ stage = "closing" /\ stage' = "down" /\ ~MembersMade' /\ ~CallbacksRun
        BY <2>1, <2>3, StageMoves
      <4> QED
        BY <3>1, <4>1, <4>2 DEF Session!Next, Session!Closes, Session!Opens, Session!Closed
    <3>3. CASE ~UNCHANGED <<subs, pub>>
      <4>1. stage = "closing" /\ stage' = "down" /\ ~MembersMade' /\ ~CallbacksRun
        BY <2>1, <2>3, <3>3, StageMoves
      <4> QED BY <3>1, <4>1 DEF Session!Next, Session!Closed
    <3> QED BY <3>2, <3>3
  <2>4. CASE stage = "up" /\ stage' = "up" /\ MembersMade' /\ UNCHANGED job
    <3>1. CallbacksRun' <=> CallbacksRun
      BY <2>4 DEF CallbacksRun
    <3> QED BY <2>4, <3>1 DEF Session!Next, Session!Registers
  <2> QED BY <2>1, <2>2, <2>3, <2>4, StageMoves
<1> QED
  BY <1>1, <1>2, <1>3, TopicsInvariant, PTL DEF Spec, Session!Spec
=============================================================================
