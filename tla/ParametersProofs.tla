--------------------------- MODULE ParametersProofs ---------------------------
(***************************************************************************)
(* For any threads, values, callbacks, calls and sessions: no value that a *)
(* registered set callback rejects takes effect, a handle removes its own  *)
(* callback and no other, and a callback whose removal has returned does   *)
(* not run.                                                                *)
(***************************************************************************)
EXTENDS Parameters, WellFoundedInduction, TLAPS

USE ParametersAssumption

Setting == {"checking", "callback"}

Points == {"idle", "locking", "held", "checking", "callback", "seeking", "waiting", "draining"}
Kinds == {"none", "declare", "set", "setRemote", "read", "add", "remove", "init", "shutdown"}
Ops == [kind : Kinds, value : Values \cup {Null}, callback : 0..MaxAdds, id : 0..MaxRemote]

\* TypeOK in two parts: what is of the calls, and what is of the callbacks.
CallTypes ==
    /\ stage \in {"down", "up", "closing"}
    /\ mtx \in Threads \cup {Null} /\ params \in Threads \cup {Null}
    /\ pc \in [Threads -> Points] /\ op \in [Threads -> Ops]
    /\ todo \in [Threads -> SUBSET Adds] /\ cb \in [Threads -> 0..MaxAdds]
    /\ value \in Values \cup {Null}
    /\ remote \in [Requests -> {"none", "sent", "answered", "ready", "lost"}]
    /\ calls \in 0..MaxCalls /\ asked \in 0..MaxRemote /\ served \in 0..MaxServed
    /\ sessions \in 1..MaxSessions
CallbackTypes ==
    /\ registered \subseteq Adds /\ wanted \subseteq Adds /\ over \subseteq 0..MaxAdds
    /\ rejects \in [Adds -> SUBSET Values]
    /\ nextId \in 1..(MaxAdds + 1) /\ adds \in 0..MaxAdds
    /\ handles \in [Adds -> 0..MaxAdds] /\ given \in [Adds -> 0..MaxAdds]

\* A call of a user holds mtx_ while it is in the node, which is up then. Whoever sets the
\* parameter holds the mutex of the parameters, and workers do nothing but set.
Holding ==
    /\ \A u \in Users :
          pc[u] \in {"held", "seeking", "waiting"} \cup Setting => mtx = u /\ stage = "up"
    /\ \A w \in Workers : pc[w] \in {"idle"} \cup Setting
    /\ \A t \in Threads : pc[t] \in Setting => params = t
    /\ \A t \in Threads : cb[t] # 0 => pc[t] = "callback"

\* The id of a callback is its number: ids are never given twice. Registered are the callbacks
\* with a handle, which are those that their users want, and none of them is over.
Ids ==
    /\ nextId = adds + 1 /\ over \subseteq 0..adds
    /\ \A n \in Adds : given[n] = IF n <= adds THEN n ELSE 0
    /\ \A n \in Adds : handles[n] \in {0, n} /\ (handles[n] = n => n <= adds)
    /\ registered = {n \in Adds : handles[n] = n} /\ wanted = registered
    /\ registered \cap over = {}

\* A removal is of a callback that was added; an addition that has begun has room.
Known ==
    \A t \in Threads :
        /\ op[t].kind = "remove" => op[t].callback \in 1..adds
        /\ op[t].kind = "add" /\ pc[t] = "held" => adds < MaxAdds

Down == stage = "down" => registered = {}

Registry == Ids /\ Known /\ Down

\* What is being set has passed every registered callback but those still ahead and the one
\* that runs.
Vetted ==
    \A t \in Threads : pc[t] \in Setting =>
        \A n \in registered \ (todo[t] \cup {cb[t]}) : op[t].value \notin rejects[n]

\* The inductive invariant.
IInv == TypeOK /\ Holding /\ Registry /\ Vetted /\ NoCallbackAfterRemove

\* The session as the parameters take part in it: workers run callbacks only for the sets of
\* other nodes, and a parameter that is declared stays.
CallbacksRun == \E w \in Workers : pc[w] # "idle"

MembersMade == value # Null

Session == INSTANCE NodeSession WITH busy <- CallbacksRun, held <- MembersMade

\* What is being set is a value.
Carried ==
    \A t \in Threads :
        /\ op[t].kind \in {"set", "declare"} => op[t].value \in Values
        /\ pc[t] \in Setting => op[t].kind \in {"set", "declare"}

\* A worker sets what is declared, in a node that is not down; that one declares nothing.
Served ==
    /\ \A w \in Workers : pc[w] # "idle" => stage # "down" /\ value # Null
    /\ stage = "down" => value = Null

\* A node that closes has one shutdown() that waits.
OneCloses ==
    /\ \A t \in Threads : pc[t] = "draining" => stage = "closing"
    /\ \A t, u \in Threads : pc[t] = "draining" /\ pc[u] = "draining" => t = u

\* The inductive invariant of the session.
SInv == IInv /\ Carried /\ Served /\ OneCloses
-----------------------------------------------------------------------------

LEMMA TypesSplit == TypeOK <=> CallTypes /\ CallbackTypes
  BY DEF TypeOK, CallTypes, CallbackTypes, locks, Points, Kinds, Ops

\* A set of callback numbers that is not empty has a greatest number: the naturals are well
\* founded.
LEMMA MaxIsMember ==
    ASSUME NEW n \in Nat, NEW S \in SUBSET (1..n), S # {}
    PROVE  Max(S) \in S
<1> DEFINE R == {ss \in Nat \X Nat : ss[1] < ss[2]}
           T == {n - x : x \in S}
<1>1. IsWellFoundedOn(R, Nat)
  BY NatLessThanWellFounded DEF OpToRel
<1>2. T \subseteq Nat /\ T # {} /\ \A x \in S : x \in 1..n /\ n - x \in T
  <2>1. \A x \in S : x \in 1..n /\ n - x \in Nat
    OBVIOUS
  <2>2. \A x \in S : n - x \in T
    OBVIOUS
  <2>3. T \subseteq Nat
    BY ONLY <2>1
  <2> HIDE DEF T
  <2> QED BY <2>1, <2>2, <2>3
<1>3. PICK m \in T : \A y \in T : <<y, m>> \notin R
  <2> HIDE DEF R, T
  <2> QED BY <1>1, <1>2, WFMin
<1>4. \A y \in T : ~(y < m)
  BY <1>2, <1>3
<1>5. PICK x \in S : m = n - x
  OBVIOUS
<1> HIDE DEF R, T
<1>6. \A y \in S : x >= y
  <2>1. SUFFICES ASSUME NEW y \in S PROVE x >= y
    OBVIOUS
  <2>2. ~(n - y < n - x) /\ x \in 1..n /\ y \in 1..n
    BY <1>2, <1>4, <1>5
  <2> QED BY <2>2
<1> QED BY <1>5, <1>6 DEF Max

\* Only three operations touch the callbacks.
LEMMA CallbackFrame ==
    ASSUME [Next]_vars
    PROVE  \/ UNCHANGED callbacks
           \/ \E t \in Threads : \/ AddOnSetParamCallback(t) \/ RemoveOnSetParamCallback(t)
                                 \/ ShutdownEnds(t)
<1>1. ASSUME NEW t \in Threads, Refused(t) PROVE UNCHANGED callbacks
  BY <1>1 DEF Refused
<1>2. ASSUME NEW t \in Threads, Enters(t) PROVE UNCHANGED callbacks
  BY <1>2 DEF Enters
<1>3. ASSUME NEW t \in Threads, Read(t) PROVE UNCHANGED callbacks
  BY <1>3 DEF Read
<1>4. ASSUME NEW t \in Threads, SetParam(t) PROVE UNCHANGED callbacks
  BY <1>4 DEF SetParam
<1>5. ASSUME NEW t \in Threads, DeclareParam(t) PROVE UNCHANGED callbacks
  BY <1>5 DEF DeclareParam
<1>6. ASSUME NEW t \in Threads, NothingToSet(t) PROVE UNCHANGED callbacks
  BY <1>6 DEF NothingToSet
<1>7. ASSUME NEW t \in Threads, AsksCallback(t) PROVE UNCHANGED callbacks
  BY <1>7 DEF AsksCallback
<1>8. ASSUME NEW t \in Threads, CallbackAnswers(t) PROVE UNCHANGED callbacks
  BY <1>8 DEF CallbackAnswers
<1>9. ASSUME NEW t \in Threads, TakesEffect(t) PROVE UNCHANGED callbacks
  BY <1>9 DEF TakesEffect
<1>10. ASSUME NEW t \in Threads, RemoteNotThere(t) PROVE UNCHANGED callbacks
  BY <1>10 DEF RemoteNotThere, keep
<1>11. ASSUME NEW t \in Threads, SendsRemote(t) PROVE UNCHANGED callbacks
  BY <1>11 DEF SendsRemote
<1>12. ASSUME NEW t \in Threads, RemoteReturns(t) PROVE UNCHANGED callbacks
  BY <1>12 DEF RemoteReturns, keep
<1>13. ASSUME NEW t \in Threads, RemoteTimesOut(t) PROVE UNCHANGED callbacks
  BY <1>13 DEF RemoteTimesOut, keep
<1>14. ASSUME NEW t \in Threads, Reopens(t) PROVE UNCHANGED callbacks
  BY <1>14 DEF Reopens
<1>15. ASSUME NEW t \in Threads, ShutdownBegins(t) PROVE UNCHANGED callbacks
  BY <1>15 DEF ShutdownBegins
<1>16. ASSUME NEW u \in Users, UserCalls(u) PROVE UNCHANGED callbacks
  BY <1>16 DEF UserCalls, Begin
<1>17. ASSUME NEW w \in Workers, ServesSet(w) PROVE UNCHANGED callbacks
  BY <1>17 DEF ServesSet
<1>18. ASSUME NEW w \in Workers, NEW c \in Requests, BringsAnswer(w, c) PROVE UNCHANGED callbacks
  BY <1>18 DEF BringsAnswer, keep
<1>19. ASSUME NEW c \in Requests, RemoteServes(c) PROVE UNCHANGED callbacks
  BY <1>19 DEF RemoteServes, keep
<1>20. CASE UNCHANGED vars
  BY <1>20 DEF vars, callbacks
<1> HIDE DEF callbacks
<1> QED BY <1>1, <1>2, <1>3, <1>4, <1>5, <1>6, <1>7, <1>8, <1>9, <1>10, <1>11, <1>12, <1>13,
   <1>14, <1>15, <1>16, <1>17, <1>18, <1>19, <1>20 DEF Next, Runs

\* What a call does to its own state when it returns.
LEMMA ReturnsTypes ==
    ASSUME CallTypes, NEW t \in Threads, Returns(t)
    PROVE  /\ mtx' \in Threads \cup {Null} /\ pc' \in [Threads -> Points]
           /\ op' \in [Threads -> Ops]
<1>1. NoOp \in Ops
  BY DEF NoOp, Ops, Kinds
<1> QED BY <1>1 DEF CallTypes, Returns, Points

\* The types of what is of the calls are kept.
LEMMA CallTypesStep ==
    ASSUME CallTypes, Registry, [Next]_vars
    PROVE  CallTypes'
<1> USE DEF CallTypes
<1>1. /\ Users \subseteq Threads /\ Workers \subseteq Threads /\ NoOp \in Ops
      /\ registered \subseteq Adds
  BY DEF Threads, NoOp, Ops, Kinds, Registry, Ids
<1>2. ASSUME NEW t \in Threads, Refused(t) PROVE CallTypes'
  BY <1>1, <1>2, ReturnsTypes DEF Refused, Locks, locks, counters, Points, Kinds, Ops, Threads
<1>3. ASSUME NEW t \in Threads, Enters(t) PROVE CallTypes'
  BY <1>1, <1>3 DEF Enters, Locks, locks, counters, Points, Kinds, Ops, Threads
<1>4. ASSUME NEW t \in Threads, Read(t) PROVE CallTypes'
  BY <1>1, <1>4, ReturnsTypes DEF Read, Inside, locks, counters, Points, Kinds, Ops, Threads
<1>5. ASSUME NEW t \in Threads, AddOnSetParamCallback(t) PROVE CallTypes'
  BY <1>1, <1>5, ReturnsTypes DEF AddOnSetParamCallback, Inside, locks, counters, Points, Kinds,
     Ops, Threads
<1>6. ASSUME NEW t \in Threads, RemoveOnSetParamCallback(t) PROVE CallTypes'
  BY <1>1, <1>6, ReturnsTypes DEF RemoveOnSetParamCallback, NativelyRemoved, Locks, locks,
     counters, Points, Kinds, Ops, Threads
<1>7. ASSUME NEW t \in Threads, SetParam(t) PROVE CallTypes'
  BY <1>1, <1>7 DEF SetParam, Inside, Passes, locks, counters, Points, Kinds, Ops, Threads
<1>8. ASSUME NEW t \in Threads, DeclareParam(t) PROVE CallTypes'
  <2>1. /\ UNCHANGED <<stage, mtx, cb, value, remote, calls, asked, served, sessions>>
        /\ params' = t /\ todo' = [todo EXCEPT ![t] = registered]
        /\ pc' = [pc EXCEPT ![t] = "checking"]
    BY <1>8 DEF DeclareParam, Passes, counters
  <2>2. PICK v \in Values \cup {Null} : op' = [op EXCEPT ![t].value = v]
    <3>1. op[t].value \in Values \cup {Null}
      BY DEF Ops
    <3> QED BY <1>8, <3>1 DEF DeclareParam
  <2>3. op' \in [Threads -> Ops]
    BY <2>2 DEF Ops
  <2> QED BY <1>1, <2>1, <2>3 DEF Points
<1>9. ASSUME NEW t \in Threads, NothingToSet(t) PROVE CallTypes'
  BY <1>1, <1>9, ReturnsTypes DEF NothingToSet, Inside, locks, counters, Points, Kinds, Ops,
     Threads
<1>10. ASSUME NEW t \in Threads, AsksCallback(t) PROVE CallTypes'
  <2>1. Ahead(t) \in SUBSET (1..MaxAdds) /\ Ahead(t) # {}
    BY <1>1, <1>10 DEF AsksCallback, Ahead, Adds
  <2>2. Max(Ahead(t)) \in Adds
    BY <2>1, MaxIsMember DEF Adds
  <2>3. Ahead(t) \ {Max(Ahead(t))} \in SUBSET Adds
    BY <2>1 DEF Adds
  <2>4. todo' \in [Threads -> SUBSET Adds] /\ cb' \in [Threads -> 0..MaxAdds]
    BY <1>10, <2>2, <2>3 DEF AsksCallback, Adds
  <2> QED BY <1>1, <1>10, <2>4 DEF AsksCallback, locks, counters, Points
<1>11. ASSUME NEW t \in Threads, CallbackAnswers(t) PROVE CallTypes'
  BY <1>1, <1>11, ReturnsTypes DEF CallbackAnswers, Successful, locks, counters, Points, Kinds,
     Ops, Threads
<1>12. ASSUME NEW t \in Threads, TakesEffect(t) PROVE CallTypes'
  BY <1>1, <1>12, ReturnsTypes DEF TakesEffect, Ahead, locks, counters, Points, Kinds, Ops,
     Threads
<1>13. ASSUME NEW t \in Threads, RemoteNotThere(t) PROVE CallTypes'
  BY <1>1, <1>13, ReturnsTypes DEF RemoteNotThere, keep, locks, counters, Points, Kinds, Ops,
     Threads
<1>14. ASSUME NEW t \in Threads, SendsRemote(t) PROVE CallTypes'
  <2>1. asked' \in Requests /\ asked' \in 0..MaxRemote
    BY <1>14 DEF SendsRemote, Requests
  <2>2. op' \in [Threads -> Ops]
    BY <1>14, <2>1 DEF SendsRemote, Ops
  <2>3. remote' \in [Requests -> {"none", "sent", "answered", "ready", "lost"}]
    BY <1>14, <2>1 DEF SendsRemote
  <2> QED BY <1>14, <2>1, <2>2, <2>3 DEF SendsRemote, locks, Points
<1>15. ASSUME NEW t \in Threads, RemoteReturns(t) PROVE CallTypes'
  BY <1>1, <1>15, ReturnsTypes DEF RemoteReturns, keep, locks, counters, Points, Kinds, Ops,
     Threads
<1>16. ASSUME NEW t \in Threads, RemoteTimesOut(t) PROVE CallTypes'
  BY <1>1, <1>16, ReturnsTypes DEF RemoteTimesOut, keep, WaitedEnough, locks, counters, Points,
     Kinds, Ops, Threads
<1>17. ASSUME NEW t \in Threads, Reopens(t) PROVE CallTypes'
  BY <1>1, <1>17, ReturnsTypes DEF Reopens, Locks, locks, counters, Points, Kinds, Ops, Threads
<1>18. ASSUME NEW t \in Threads, ShutdownBegins(t) PROVE CallTypes'
  BY <1>1, <1>18 DEF ShutdownBegins, Locks, locks, counters, Points, Kinds, Ops, Threads
<1>19. ASSUME NEW t \in Threads, ShutdownEnds(t) PROVE CallTypes'
  BY <1>1, <1>19, ReturnsTypes DEF ShutdownEnds, NextIdKept, locks, counters, Points, Kinds,
     Ops, Threads
<1>20. ASSUME NEW u \in Users, UserCalls(u) PROVE CallTypes'
  <2>1. PICK kind \in Kinds, v \in Values \cup {Null}, n \in 0..MaxAdds : Begin(u, kind, v, n)
    BY <1>20 DEF UserCalls, Kinds, Adds
  <2>2. [kind |-> kind, value |-> v, callback |-> n, id |-> 0] \in Ops
    BY DEF Ops
  <2>3. op' \in [Threads -> Ops]
    BY <1>1, <2>1, <2>2 DEF Begin
  <2> QED BY <1>1, <2>1, <2>3 DEF Begin, locks, Points
<1>21. ASSUME NEW w \in Workers, ServesSet(w) PROVE CallTypes'
  <2>1. PICK v \in Values :
           op' = [op EXCEPT ![w] = [NoOp EXCEPT !.kind = "set", !.value = v]]
    BY <1>21 DEF ServesSet
  <2>2. [NoOp EXCEPT !.kind = "set", !.value = v] \in Ops
    BY <1>1 DEF Ops, Kinds
  <2>3. op' \in [Threads -> Ops]
    BY <1>1, <2>1, <2>2
  <2>4. w \in Threads
    BY <1>1
  <2> QED BY <1>1, <1>21, <2>3, <2>4 DEF ServesSet, Passes, Points
<1>22. ASSUME NEW w \in Workers, NEW c \in Requests, BringsAnswer(w, c) PROVE CallTypes'
  BY <1>1, <1>22 DEF BringsAnswer, keep, locks, counters, Points, Kinds, Ops, Threads
<1>23. ASSUME NEW c \in Requests, RemoteServes(c) PROVE CallTypes'
  BY <1>1, <1>23 DEF RemoteServes, keep, locks, counters, Points, Kinds, Ops, Threads
<1>24. CASE UNCHANGED vars
  BY <1>1, <1>24 DEF vars, locks, thread, callbacks, counters, Points, Kinds, Ops, Threads
<1> QED BY <1>2, <1>3, <1>4, <1>5, <1>6, <1>7, <1>8, <1>9, <1>10, <1>11, <1>12, <1>13,
          <1>14, <1>15, <1>16, <1>17, <1>18, <1>19, <1>20, <1>21, <1>22, <1>23, <1>24 DEF Next,
             Runs

\* Who holds what: mtx_ keeps the calls of users apart, and the mutex of the parameters whoever
\* sets them.
LEMMA HoldingStep ==
    ASSUME CallTypes, Holding, Registry, [Next]_vars
    PROVE  Holding'
<1> USE DEF Holding, Setting, Points
<1>1. /\ Threads = Users \cup Workers /\ Users \cap Workers = {} /\ Null \notin Threads
      /\ pc \in [Threads -> Points] /\ cb \in [Threads -> 0..MaxAdds] /\ DOMAIN op = Threads
      /\ registered \subseteq Adds /\ stage \in {"down", "up", "closing"}
  BY DEF CallTypes, Threads, Users, ParametersAssumption, Registry, Ids
<1>2. ASSUME NEW t \in Threads, Refused(t) PROVE Holding'
  BY <1>1, <1>2 DEF Refused, Locks, locks, Returns
<1>3. ASSUME NEW t \in Threads, Enters(t) PROVE Holding'
  BY <1>1, <1>3 DEF Enters, Locks, locks
<1>4. ASSUME NEW t \in Threads, Read(t) PROVE Holding'
  BY <1>1, <1>4 DEF Read, Inside, locks, Returns
<1>5. ASSUME NEW t \in Threads, AddOnSetParamCallback(t) PROVE Holding'
  BY <1>1, <1>5 DEF AddOnSetParamCallback, Inside, locks, Returns
<1>6. ASSUME NEW t \in Threads, RemoveOnSetParamCallback(t) PROVE Holding'
  BY <1>1, <1>6 DEF RemoveOnSetParamCallback, NativelyRemoved, Locks, locks, Returns
<1>7. ASSUME NEW t \in Threads, SetParam(t) PROVE Holding'
  BY <1>1, <1>7 DEF SetParam, Inside, Passes, locks
<1>8. ASSUME NEW t \in Threads, DeclareParam(t) PROVE Holding'
  BY <1>1, <1>8 DEF DeclareParam, Inside, Passes, locks
<1>9. ASSUME NEW t \in Threads, NothingToSet(t) PROVE Holding'
  BY <1>1, <1>9 DEF NothingToSet, Inside, locks, Returns
<1>10. ASSUME NEW t \in Threads, AsksCallback(t) PROVE Holding'
  BY <1>1, <1>10 DEF AsksCallback, Ahead, locks
<1>11. ASSUME NEW t \in Threads, CallbackAnswers(t) PROVE Holding'
  BY <1>1, <1>11 DEF CallbackAnswers, Successful, locks, Returns
<1>12. ASSUME NEW t \in Threads, TakesEffect(t) PROVE Holding'
  BY <1>1, <1>12 DEF TakesEffect, Ahead, locks, Returns
<1>13. ASSUME NEW t \in Threads, RemoteNotThere(t) PROVE Holding'
  BY <1>1, <1>13 DEF RemoteNotThere, keep, locks, Returns
<1>14. ASSUME NEW t \in Threads, SendsRemote(t) PROVE Holding'
  BY <1>1, <1>14 DEF SendsRemote, locks
<1>15. ASSUME NEW t \in Threads, RemoteReturns(t) PROVE Holding'
  BY <1>1, <1>15 DEF RemoteReturns, keep, locks, Returns
<1>16. ASSUME NEW t \in Threads, RemoteTimesOut(t) PROVE Holding'
  BY <1>1, <1>16 DEF RemoteTimesOut, keep, WaitedEnough, locks, Returns
<1>17. ASSUME NEW t \in Threads, Reopens(t) PROVE Holding'
  BY <1>1, <1>17 DEF Reopens, Locks, locks, Returns
<1>18. ASSUME NEW t \in Threads, ShutdownBegins(t) PROVE Holding'
  BY <1>1, <1>18 DEF ShutdownBegins, Locks, locks
<1>19. ASSUME NEW t \in Threads, ShutdownEnds(t) PROVE Holding'
  BY <1>1, <1>19 DEF ShutdownEnds, NextIdKept, locks, Returns
<1>20. ASSUME NEW u \in Users, UserCalls(u) PROVE Holding'
  BY <1>1, <1>20 DEF UserCalls, Begin, locks
<1>21. ASSUME NEW w \in Workers, ServesSet(w) PROVE Holding'
  BY <1>1, <1>21 DEF ServesSet, Passes, locks
<1>22. ASSUME NEW w \in Workers, NEW c \in Requests, BringsAnswer(w, c) PROVE Holding'
  BY <1>1, <1>22 DEF BringsAnswer, keep, locks
<1>23. ASSUME NEW c \in Requests, RemoteServes(c) PROVE Holding'
  BY <1>1, <1>23 DEF RemoteServes, keep, locks
<1>24. CASE UNCHANGED vars
  BY <1>1, <1>24 DEF vars, locks, thread, callbacks, counters
<1> QED BY <1>2, <1>3, <1>4, <1>5, <1>6, <1>7, <1>8, <1>9, <1>10, <1>11, <1>12, <1>13,
          <1>14, <1>15, <1>16, <1>17, <1>18, <1>19, <1>20, <1>21, <1>22, <1>23, <1>24 DEF Next,
             Runs

\* A handle is given out when its callback is added, once, and only while there is room.
LEMMA KnownStep ==
    ASSUME CallTypes, Holding, Registry, adds \in 0..MaxAdds, [Next]_vars
    PROVE  Known'
<1> USE DEF Known
<1>1. /\ Threads = Users \cup Workers /\ Users \cap Workers = {}
      /\ pc \in [Threads -> Points] /\ op \in [Threads -> Ops]
      /\ adds \in 0..MaxAdds /\ MaxAdds \in Nat /\ Known
      /\ \A n \in Adds : given[n] # 0 => n <= adds
      /\ \A t \in Threads : pc[t] = "held" => mtx = t
      /\ NoOp.kind = "none"
  BY DEF CallTypes, Threads, Users, Registry, Ids, Holding, Setting, NoOp
<1>0. Null \notin Threads
  BY DEF Threads, Users
<1>2. ASSUME NEW t \in Threads, Refused(t) PROVE Known'
  BY <1>0, <1>1, <1>2 DEF Refused, Locks, callbacks, locks, Returns
<1>3. ASSUME NEW t \in Threads, Enters(t) PROVE Known'
  BY <1>0, <1>1, <1>3 DEF Enters, Locks, callbacks, locks
<1>4. ASSUME NEW t \in Threads, Read(t) PROVE Known'
  BY <1>0, <1>1, <1>4 DEF Read, Inside, callbacks, locks, Returns
<1>5. ASSUME NEW t \in Threads, AddOnSetParamCallback(t) PROVE Known'
  BY <1>0, <1>1, <1>5 DEF AddOnSetParamCallback, Inside, callbacks, locks, Returns
<1>6. ASSUME NEW t \in Threads, RemoveOnSetParamCallback(t) PROVE Known'
  BY <1>0, <1>1, <1>6 DEF RemoveOnSetParamCallback, NativelyRemoved, Locks, callbacks, locks,
     Returns
<1>7. ASSUME NEW t \in Threads, SetParam(t) PROVE Known'
  BY <1>0, <1>1, <1>7 DEF SetParam, Inside, Passes, callbacks, locks
<1>8. ASSUME NEW t \in Threads, DeclareParam(t) PROVE Known'
  BY <1>0, <1>1, <1>8 DEF DeclareParam, Inside, Passes, callbacks, locks
<1>9. ASSUME NEW t \in Threads, NothingToSet(t) PROVE Known'
  BY <1>0, <1>1, <1>9 DEF NothingToSet, Inside, callbacks, locks, Returns
<1>10. ASSUME NEW t \in Threads, AsksCallback(t) PROVE Known'
  BY <1>0, <1>1, <1>10 DEF AsksCallback, Ahead, callbacks, locks
<1>11. ASSUME NEW t \in Threads, CallbackAnswers(t) PROVE Known'
  BY <1>0, <1>1, <1>11 DEF CallbackAnswers, Successful, callbacks, locks, Returns
<1>12. ASSUME NEW t \in Threads, TakesEffect(t) PROVE Known'
  BY <1>0, <1>1, <1>12 DEF TakesEffect, Ahead, callbacks, locks, Returns
<1>13. ASSUME NEW t \in Threads, RemoteNotThere(t) PROVE Known'
  BY <1>0, <1>1, <1>13 DEF RemoteNotThere, keep, callbacks, locks, Returns
<1>14. ASSUME NEW t \in Threads, SendsRemote(t) PROVE Known'
  BY <1>0, <1>1, <1>14 DEF SendsRemote, callbacks, locks
<1>15. ASSUME NEW t \in Threads, RemoteReturns(t) PROVE Known'
  BY <1>0, <1>1, <1>15 DEF RemoteReturns, keep, callbacks, locks, Returns
<1>16. ASSUME NEW t \in Threads, RemoteTimesOut(t) PROVE Known'
  BY <1>0, <1>1, <1>16 DEF RemoteTimesOut, keep, WaitedEnough, callbacks, locks, Returns
<1>17. ASSUME NEW t \in Threads, Reopens(t) PROVE Known'
  BY <1>0, <1>1, <1>17 DEF Reopens, Locks, callbacks, locks, Returns
<1>18. ASSUME NEW t \in Threads, ShutdownBegins(t) PROVE Known'
  BY <1>0, <1>1, <1>18 DEF ShutdownBegins, Locks, callbacks, locks
<1>19. ASSUME NEW t \in Threads, ShutdownEnds(t) PROVE Known'
  BY <1>0, <1>1, <1>19 DEF ShutdownEnds, NextIdKept, callbacks, locks, Returns
<1>20. ASSUME NEW u \in Users, UserCalls(u) PROVE Known'
  <2>1. PICK kind \in Kinds, v \in Values \cup {Null}, n \in 0..MaxAdds :
           Begin(u, kind, v, n) /\ (kind = "remove" => n \in 1..adds)
    BY <1>1, <1>20 DEF UserCalls, Kinds, Adds
  <2>2. op'[u].kind = kind /\ op'[u].callback = n /\ pc'[u] = "locking"
    BY <1>1, <2>1 DEF Begin
  <2>3. \A s \in Threads \ {u} : op'[s] = op[s] /\ pc'[s] = pc[s]
    BY <1>1, <2>1 DEF Begin
  <2>4. adds' = adds
    BY <2>1 DEF Begin, callbacks
  <2> QED BY <1>1, <2>1, <2>2, <2>3, <2>4
<1>21. ASSUME NEW w \in Workers, ServesSet(w) PROVE Known'
  BY <1>0, <1>1, <1>21 DEF ServesSet, Passes, NoOp, callbacks, locks
<1>22. ASSUME NEW w \in Workers, NEW c \in Requests, BringsAnswer(w, c) PROVE Known'
  BY <1>0, <1>1, <1>22 DEF BringsAnswer, keep, callbacks, locks
<1>23. ASSUME NEW c \in Requests, RemoteServes(c) PROVE Known'
  BY <1>0, <1>1, <1>23 DEF RemoteServes, keep, callbacks, locks
<1>24. CASE UNCHANGED vars
  BY <1>0, <1>1, <1>24 DEF vars, locks, thread, callbacks, counters
<1> QED BY <1>2, <1>3, <1>4, <1>5, <1>6, <1>7, <1>8, <1>9, <1>10, <1>11, <1>12, <1>13,
          <1>14, <1>15, <1>16, <1>17, <1>18, <1>19, <1>20, <1>21, <1>22, <1>23, <1>24 DEF Next,
             Runs

\* What a new callback, a removal and a shutdown do to the ids.
LEMMA IdsStep ==
    ASSUME TypeOK, Holding, Registry, [Next]_vars
    PROVE  Ids' /\ CallbackTypes'
<1> USE DEF Ids
<1>1. /\ adds \in 0..MaxAdds /\ rejects \in [Adds -> SUBSET Values] /\ MaxAdds \in Nat
      /\ handles \in [Adds -> 0..MaxAdds] /\ given \in [Adds -> 0..MaxAdds]
      /\ Ids /\ Known /\ CallbackTypes
  BY TypesSplit DEF CallbackTypes, Registry
<1>2. CASE UNCHANGED callbacks
  BY <1>1, <1>2 DEF callbacks, CallbackTypes
<1>3. ASSUME NEW t \in Threads, AddOnSetParamCallback(t) PROVE Ids' /\ CallbackTypes'
  <2> DEFINE n == adds + 1
  <2>1. n \in Adds /\ nextId = n
    BY <1>1, <1>3 DEF Known, AddOnSetParamCallback, Inside, Adds
  <2>2. PICK R \in SUBSET Values : rejects' = [rejects EXCEPT ![n] = R]
    BY <1>3 DEF AddOnSetParamCallback
  <2>3. /\ adds' = n /\ nextId' = n + 1 /\ over' = over
        /\ handles' = [handles EXCEPT ![n] = n] /\ given' = [given EXCEPT ![n] = n]
        /\ registered' = registered \cup {n} /\ wanted' = wanted \cup {n}
    BY <1>3, <2>1 DEF AddOnSetParamCallback
  <2>4. n \notin over
    BY <1>1
  <2> HIDE DEF n
  <2>5. n \in Nat /\ n = adds + 1
    BY <1>1 DEF n
  <2>6. \A m \in Adds : given'[m] = IF m <= adds' THEN m ELSE 0
    BY <1>1, <2>1, <2>3, <2>5 DEF Adds
  <2>7. \A m \in Adds : handles'[m] \in {0, m} /\ (handles'[m] = m => m <= adds')
    BY <1>1, <2>1, <2>3, <2>5 DEF Adds
  <2>8. registered' = {m \in Adds : handles'[m] = m}
    BY <1>1, <2>1, <2>3
  <2>9. Ids'
    BY <1>1, <2>1, <2>3, <2>4, <2>5, <2>6, <2>7, <2>8
  <2>10. CallbackTypes'
    BY <1>1, <2>1, <2>2, <2>3, <2>5 DEF CallbackTypes, Adds
  <2> QED BY <2>9, <2>10
<1>4. ASSUME NEW t \in Threads, RemoveOnSetParamCallback(t) PROVE Ids' /\ CallbackTypes'
  <2> DEFINE n == op[t].callback
  <2>1. op[t].kind = "remove"
    BY <1>4 DEF RemoveOnSetParamCallback, Locks
  <2>2. n \in Adds /\ n <= adds /\ given[n] = n /\ n # 0
    BY <1>1, <2>1 DEF Known, Adds
  <2>3. /\ registered' = registered \ {handles[n]} /\ handles' = [handles EXCEPT ![n] = 0]
        /\ wanted' = wanted \ {n} /\ over' = over \cup {handles[n]}
        /\ UNCHANGED <<rejects, nextId, given, adds>>
    BY <1>4, <2>2 DEF RemoveOnSetParamCallback
  <2> HIDE DEF n
  <2>4. handles[n] \in {0, n}
    BY <1>1, <2>2
  <2>5. registered' = {m \in Adds : handles'[m] = m}
    BY <1>1, <2>2, <2>3, <2>4 DEF Adds
  <2>6. wanted' = registered'
    BY <1>1, <2>2, <2>3, <2>4 DEF Adds
  <2>7. \A m \in Adds : handles'[m] \in {0, m} /\ (handles'[m] = m => m <= adds')
    BY <1>1, <2>2, <2>3
  <2>8. over' \subseteq 0..adds' /\ registered' \cap over' = {}
    <3>1. over' \subseteq 0..adds'
      <4>1. n \in 0..adds /\ 0 \in 0..adds /\ adds' = adds /\ over \subseteq 0..adds
        BY <1>1, <2>2, <2>3 DEF Adds
      <4> QED BY ONLY <2>3, <2>4, <4>1
    <3>2. registered' \cap over' = {}
      BY <1>1, <2>2, <2>3, <2>4 DEF Adds
    <3> QED BY <3>1, <3>2
  <2>9. CallbackTypes'
    BY <1>1, <2>2, <2>3, <2>8 DEF CallbackTypes, Adds
  <2> QED BY <1>1, <2>3, <2>5, <2>6, <2>7, <2>8, <2>9
<1>5. ASSUME NEW t \in Threads, ShutdownEnds(t) PROVE Ids' /\ CallbackTypes'
  <2>1. /\ registered' = {} /\ wanted' = {} /\ handles' = [i \in Adds |-> 0]
        /\ nextId' = nextId /\ UNCHANGED <<rejects, given, over, adds>>
    BY <1>5 DEF ShutdownEnds, NextIdKept
  <2> QED BY <1>1, <2>1 DEF CallbackTypes, Adds
<1> QED BY <1>2, <1>3, <1>4, <1>5, CallbackFrame

\* While the node is down it has no set callbacks.
LEMMA DownStep ==
    ASSUME CallTypes, Holding, Registry, [Next]_vars
    PROVE  Down'
<1> USE DEF Down
<1>1. /\ Down
      /\ \A t \in Threads : pc[t] = "held" => stage = "up"
  BY DEF Registry, Holding, Threads, Setting
<1>2. ASSUME NEW t \in Threads, Refused(t) PROVE Down'
  BY <1>1, <1>2 DEF Refused, Locks, callbacks, Returns
<1>3. ASSUME NEW t \in Threads, Enters(t) PROVE Down'
  BY <1>1, <1>3 DEF Enters, Locks, callbacks
<1>4. ASSUME NEW t \in Threads, Read(t) PROVE Down'
  BY <1>1, <1>4 DEF Read, Inside, callbacks, Returns
<1>5. ASSUME NEW t \in Threads, AddOnSetParamCallback(t) PROVE Down'
  BY <1>1, <1>5 DEF AddOnSetParamCallback, Inside, callbacks, Returns
<1>6. ASSUME NEW t \in Threads, RemoveOnSetParamCallback(t) PROVE Down'
  BY <1>1, <1>6 DEF RemoveOnSetParamCallback, NativelyRemoved, Locks, callbacks, Returns
<1>7. ASSUME NEW t \in Threads, SetParam(t) PROVE Down'
  BY <1>1, <1>7 DEF SetParam, Inside, Passes, callbacks
<1>8. ASSUME NEW t \in Threads, DeclareParam(t) PROVE Down'
  BY <1>1, <1>8 DEF DeclareParam, Inside, Passes, callbacks
<1>9. ASSUME NEW t \in Threads, NothingToSet(t) PROVE Down'
  BY <1>1, <1>9 DEF NothingToSet, Inside, callbacks, Returns
<1>10. ASSUME NEW t \in Threads, AsksCallback(t) PROVE Down'
  BY <1>1, <1>10 DEF AsksCallback, Ahead, callbacks
<1>11. ASSUME NEW t \in Threads, CallbackAnswers(t) PROVE Down'
  BY <1>1, <1>11 DEF CallbackAnswers, Successful, callbacks, Returns
<1>12. ASSUME NEW t \in Threads, TakesEffect(t) PROVE Down'
  BY <1>1, <1>12 DEF TakesEffect, Ahead, callbacks, Returns
<1>13. ASSUME NEW t \in Threads, RemoteNotThere(t) PROVE Down'
  BY <1>1, <1>13 DEF RemoteNotThere, keep, callbacks, Returns
<1>14. ASSUME NEW t \in Threads, SendsRemote(t) PROVE Down'
  BY <1>1, <1>14 DEF SendsRemote, callbacks
<1>15. ASSUME NEW t \in Threads, RemoteReturns(t) PROVE Down'
  BY <1>1, <1>15 DEF RemoteReturns, keep, callbacks, Returns
<1>16. ASSUME NEW t \in Threads, RemoteTimesOut(t) PROVE Down'
  BY <1>1, <1>16 DEF RemoteTimesOut, keep, WaitedEnough, callbacks, Returns
<1>17. ASSUME NEW t \in Threads, Reopens(t) PROVE Down'
  BY <1>1, <1>17 DEF Reopens, Locks, callbacks, Returns
<1>18. ASSUME NEW t \in Threads, ShutdownBegins(t) PROVE Down'
  BY <1>1, <1>18 DEF ShutdownBegins, Locks, callbacks
<1>19. ASSUME NEW t \in Threads, ShutdownEnds(t) PROVE Down'
  BY <1>1, <1>19 DEF ShutdownEnds, NextIdKept, callbacks, Returns
<1>20. ASSUME NEW u \in Users, UserCalls(u) PROVE Down'
  BY <1>1, <1>20 DEF UserCalls, Begin, callbacks
<1>21. ASSUME NEW w \in Workers, ServesSet(w) PROVE Down'
  BY <1>1, <1>21 DEF ServesSet, Passes, callbacks
<1>22. ASSUME NEW w \in Workers, NEW c \in Requests, BringsAnswer(w, c) PROVE Down'
  BY <1>1, <1>22 DEF BringsAnswer, keep, callbacks
<1>23. ASSUME NEW c \in Requests, RemoteServes(c) PROVE Down'
  BY <1>1, <1>23 DEF RemoteServes, keep, callbacks
<1>24. CASE UNCHANGED vars
  BY <1>1, <1>24 DEF vars, locks, thread, callbacks, counters
<1> QED BY <1>2, <1>3, <1>4, <1>5, <1>6, <1>7, <1>8, <1>9, <1>10, <1>11, <1>12, <1>13,
          <1>14, <1>15, <1>16, <1>17, <1>18, <1>19, <1>20, <1>21, <1>22, <1>23, <1>24 DEF Next,
             Runs

\* The greatest of the callbacks ahead of a set is one of them.
LEMMA AheadMax ==
    ASSUME Ids, NEW t \in Threads, Ahead(t) # {}
    PROVE  Max(Ahead(t)) \in todo[t] \cap registered
<1>1. Ahead(t) \in SUBSET (1..MaxAdds)
  BY DEF Ahead, Ids, Adds
<1>2. Max(Ahead(t)) \in Ahead(t)
  BY <1>1, MaxIsMember
<1> QED BY <1>2 DEF Ahead

\* A set that goes on has asked each registered callback that it has left behind.
LEMMA VettedStep ==
    ASSUME CallTypes, Holding, Registry, Vetted, [Next]_vars
    PROVE  Vetted'
<1> USE DEF Vetted, Setting
<1>1. /\ pc \in [Threads -> Points] /\ op \in [Threads -> Ops]
      /\ todo \in [Threads -> SUBSET Adds] /\ cb \in [Threads -> 0..MaxAdds]
      /\ Users \subseteq Threads /\ Workers \subseteq Threads /\ Null \notin Threads
      /\ registered \subseteq Adds /\ 0 \notin Adds
      /\ \A s \in Threads : pc[s] \in Setting => params = s
      /\ \A s \in Threads : cb[s] # 0 => pc[s] = "callback"
  BY DEF CallTypes, Threads, Users, Registry, Ids, Holding, Adds
<1>2. ASSUME NEW t \in Threads, Refused(t) PROVE Vetted'
  BY <1>1, <1>2 DEF Refused, Locks, callbacks, locks, Returns
<1>3. ASSUME NEW t \in Threads, Enters(t) PROVE Vetted'
  BY <1>1, <1>3 DEF Enters, Locks, callbacks, locks
<1>4. ASSUME NEW t \in Threads, Read(t) PROVE Vetted'
  BY <1>1, <1>4 DEF Read, Inside, callbacks, locks, Returns
<1>5. ASSUME NEW t \in Threads, AddOnSetParamCallback(t) PROVE Vetted'
  <2>1. params = Null /\ pc' = [pc EXCEPT ![t] = "idle"]
    BY <1>5 DEF AddOnSetParamCallback, Inside, Returns
  <2> QED BY <1>1, <2>1
<1>6. ASSUME NEW t \in Threads, RemoveOnSetParamCallback(t) PROVE Vetted'
  <2>1. /\ registered' \subseteq registered /\ UNCHANGED <<rejects, todo, cb>>
        /\ pc' = [pc EXCEPT ![t] = "idle"] /\ op' = [op EXCEPT ![t] = NoOp]
    BY <1>6 DEF RemoveOnSetParamCallback, Returns
  <2> QED BY <1>1, <2>1
<1>7. ASSUME NEW t \in Threads, SetParam(t) PROVE Vetted'
  BY <1>1, <1>7 DEF SetParam, Inside, Passes, callbacks, locks
<1>8. ASSUME NEW t \in Threads, DeclareParam(t) PROVE Vetted'
  BY <1>1, <1>8 DEF DeclareParam, Inside, Passes, callbacks, locks
<1>9. ASSUME NEW t \in Threads, NothingToSet(t) PROVE Vetted'
  BY <1>1, <1>9 DEF NothingToSet, Inside, callbacks, locks, Returns
<1>10. ASSUME NEW t \in Threads, AsksCallback(t) PROVE Vetted'
  <2> DEFINE m == Max(Ahead(t))
  <2>1. m \in todo[t] \cap registered /\ Ahead(t) = todo[t] \cap registered
    BY <1>10, AheadMax DEF AsksCallback, Ahead, Registry
  <2>2. /\ cb' = [cb EXCEPT ![t] = m] /\ todo' = [todo EXCEPT ![t] = Ahead(t) \ {m}]
        /\ pc' = [pc EXCEPT ![t] = "callback"] /\ UNCHANGED <<op, registered, rejects>>
        /\ pc[t] = "checking"
    BY <1>10 DEF AsksCallback, callbacks
  <2> HIDE DEF m
  <2>3. \A n \in registered \ (todo'[t] \cup {cb'[t]}) : n \notin todo[t] \cup {cb[t]}
    BY <1>1, <2>1, <2>2
  <2> QED BY <1>1, <2>2, <2>3
<1>11. ASSUME NEW t \in Threads, CallbackAnswers(t) PROVE Vetted'
  <2>1. cb' = [cb EXCEPT ![t] = 0] /\ UNCHANGED <<todo, registered, rejects>>
        /\ pc[t] = "callback"
    BY <1>11 DEF CallbackAnswers, callbacks
  <2>2. CASE Successful(t, op[t].value)
    <3>1. pc' = [pc EXCEPT ![t] = "checking"] /\ op' = op
      BY <1>11, <2>2 DEF CallbackAnswers
    <3>2. op[t].value \notin rejects[cb[t]]
      BY <2>2 DEF Successful
    <3> QED BY <1>1, <2>1, <3>1, <3>2
  <2>3. CASE ~Successful(t, op[t].value)
    <3>1. pc' = [pc EXCEPT ![t] = "idle"] /\ op' = [op EXCEPT ![t] = NoOp]
      BY <1>11, <2>3 DEF CallbackAnswers, Returns
    <3> QED BY <1>1, <2>1, <3>1
  <2> QED BY <2>2, <2>3
<1>12. ASSUME NEW t \in Threads, TakesEffect(t) PROVE Vetted'
  BY <1>1, <1>12 DEF TakesEffect, Ahead, callbacks, locks, Returns
<1>13. ASSUME NEW t \in Threads, RemoteNotThere(t) PROVE Vetted'
  BY <1>1, <1>13 DEF RemoteNotThere, keep, callbacks, locks, Returns
<1>14. ASSUME NEW t \in Threads, SendsRemote(t) PROVE Vetted'
  BY <1>1, <1>14 DEF SendsRemote, callbacks, locks
<1>15. ASSUME NEW t \in Threads, RemoteReturns(t) PROVE Vetted'
  BY <1>1, <1>15 DEF RemoteReturns, keep, callbacks, locks, Returns
<1>16. ASSUME NEW t \in Threads, RemoteTimesOut(t) PROVE Vetted'
  BY <1>1, <1>16 DEF RemoteTimesOut, keep, WaitedEnough, callbacks, locks, Returns
<1>17. ASSUME NEW t \in Threads, Reopens(t) PROVE Vetted'
  BY <1>1, <1>17 DEF Reopens, Locks, callbacks, locks, Returns
<1>18. ASSUME NEW t \in Threads, ShutdownBegins(t) PROVE Vetted'
  BY <1>1, <1>18 DEF ShutdownBegins, Locks, callbacks, locks
<1>19. ASSUME NEW t \in Threads, ShutdownEnds(t) PROVE Vetted'
  BY <1>1, <1>19 DEF ShutdownEnds, NextIdKept, callbacks, locks, Returns
<1>20. ASSUME NEW u \in Users, UserCalls(u) PROVE Vetted'
  BY <1>1, <1>20 DEF UserCalls, Begin, callbacks, locks
<1>21. ASSUME NEW w \in Workers, ServesSet(w) PROVE Vetted'
  BY <1>1, <1>21 DEF ServesSet, Passes, callbacks, locks
<1>22. ASSUME NEW w \in Workers, NEW c \in Requests, BringsAnswer(w, c) PROVE Vetted'
  BY <1>1, <1>22 DEF BringsAnswer, keep, callbacks, locks
<1>23. ASSUME NEW c \in Requests, RemoteServes(c) PROVE Vetted'
  BY <1>1, <1>23 DEF RemoteServes, keep, callbacks, locks
<1>24. CASE UNCHANGED vars
  BY <1>1, <1>24 DEF vars, locks, thread, callbacks, counters
<1> QED BY <1>2, <1>3, <1>4, <1>5, <1>6, <1>7, <1>8, <1>9, <1>10, <1>11, <1>12, <1>13,
          <1>14, <1>15, <1>16, <1>17, <1>18, <1>19, <1>20, <1>21, <1>22, <1>23, <1>24 DEF Next,
             Runs

\* A removal finds no callback running, unless the node is shutting down; and a callback that
\* is over is asked no more.
LEMMA OverStep ==
    ASSUME CallTypes, Holding, Registry, adds \in 0..MaxAdds, NoCallbackAfterRemove, [Next]_vars
    PROVE  NoCallbackAfterRemove'
<1> USE DEF NoCallbackAfterRemove, Setting
<1>1. /\ pc \in [Threads -> Points] /\ cb \in [Threads -> 0..MaxAdds]
      /\ Threads = Users \cup Workers /\ Null \notin Threads
      /\ \A s \in Threads : pc[s] \in Setting => params = s
      /\ \A s \in Threads : cb[s] # 0 => pc[s] = "callback"
      /\ \A s \in Users : pc[s] = "callback" => mtx = s
      /\ stage \in {"down", "up", "closing"}
  BY DEF CallTypes, Threads, Users, Holding
<1>2. ASSUME NEW t \in Threads, Refused(t) PROVE NoCallbackAfterRemove'
  BY <1>1, <1>2 DEF Refused, Locks, callbacks, locks, Returns
<1>3. ASSUME NEW t \in Threads, Enters(t) PROVE NoCallbackAfterRemove'
  BY <1>1, <1>3 DEF Enters, Locks, callbacks, locks
<1>4. ASSUME NEW t \in Threads, Read(t) PROVE NoCallbackAfterRemove'
  BY <1>1, <1>4 DEF Read, Inside, callbacks, locks, Returns
<1>5. ASSUME NEW t \in Threads, AddOnSetParamCallback(t) PROVE NoCallbackAfterRemove'
  BY <1>1, <1>5 DEF AddOnSetParamCallback, Inside, callbacks, locks, Returns
<1>6. ASSUME NEW t \in Threads, RemoveOnSetParamCallback(t) PROVE NoCallbackAfterRemove'
  <2>1. cb' = cb /\ stage' = stage
    BY <1>6 DEF RemoveOnSetParamCallback
  <2>2. CASE pc[t] = "held"
    <3>1. params = Null
      BY <1>6, <2>2 DEF RemoveOnSetParamCallback, Locks, NativelyRemoved
    <3> QED BY <1>1, <2>1, <3>1
  <2>3. CASE pc[t] # "held"
    <3>1. /\ stage # "up" /\ handles[given[op[t].callback]] # 0
          /\ op[t].kind = "remove"
      BY <1>6, <2>3 DEF RemoveOnSetParamCallback, Locks
    <3>2. op[t].callback \in 1..adds /\ op[t].callback \in Adds
      BY <3>1 DEF Registry, Known, Adds
    <3>3. op[t].callback \in registered
      BY <3>1, <3>2 DEF Registry, Ids
    <3>4. stage = "closing"
      BY <1>1, <3>1, <3>3 DEF Registry, Down
    <3> QED BY <2>1, <3>4
  <2> QED BY <2>2, <2>3
<1>7. ASSUME NEW t \in Threads, SetParam(t) PROVE NoCallbackAfterRemove'
  BY <1>1, <1>7 DEF SetParam, Inside, Passes, callbacks, locks
<1>8. ASSUME NEW t \in Threads, DeclareParam(t) PROVE NoCallbackAfterRemove'
  BY <1>1, <1>8 DEF DeclareParam, Inside, Passes, callbacks, locks
<1>9. ASSUME NEW t \in Threads, NothingToSet(t) PROVE NoCallbackAfterRemove'
  BY <1>1, <1>9 DEF NothingToSet, Inside, callbacks, locks, Returns
<1>10. ASSUME NEW t \in Threads, AsksCallback(t) PROVE NoCallbackAfterRemove'
  <2>1. Max(Ahead(t)) \in registered
    BY <1>10, AheadMax DEF AsksCallback, Registry
  <2>2. Max(Ahead(t)) \notin over
    BY <2>1 DEF Registry, Ids
  <2>3. /\ cb' = [cb EXCEPT ![t] = Max(Ahead(t))] /\ UNCHANGED <<stage, over>>
    BY <1>10 DEF AsksCallback, callbacks
  <2> QED BY <1>1, <2>2, <2>3
<1>11. ASSUME NEW t \in Threads, CallbackAnswers(t) PROVE NoCallbackAfterRemove'
  BY <1>1, <1>11 DEF CallbackAnswers, Successful, callbacks, locks, Returns
<1>12. ASSUME NEW t \in Threads, TakesEffect(t) PROVE NoCallbackAfterRemove'
  BY <1>1, <1>12 DEF TakesEffect, Ahead, callbacks, locks, Returns
<1>13. ASSUME NEW t \in Threads, RemoteNotThere(t) PROVE NoCallbackAfterRemove'
  BY <1>1, <1>13 DEF RemoteNotThere, keep, callbacks, locks, Returns
<1>14. ASSUME NEW t \in Threads, SendsRemote(t) PROVE NoCallbackAfterRemove'
  BY <1>1, <1>14 DEF SendsRemote, callbacks, locks
<1>15. ASSUME NEW t \in Threads, RemoteReturns(t) PROVE NoCallbackAfterRemove'
  BY <1>1, <1>15 DEF RemoteReturns, keep, callbacks, locks, Returns
<1>16. ASSUME NEW t \in Threads, RemoteTimesOut(t) PROVE NoCallbackAfterRemove'
  BY <1>1, <1>16 DEF RemoteTimesOut, keep, WaitedEnough, callbacks, locks, Returns
<1>17. ASSUME NEW t \in Threads, Reopens(t) PROVE NoCallbackAfterRemove'
  BY <1>1, <1>17 DEF Reopens, Locks, callbacks, locks, Returns
<1>18. ASSUME NEW t \in Threads, ShutdownBegins(t) PROVE NoCallbackAfterRemove'
  BY <1>1, <1>18 DEF ShutdownBegins, Locks, callbacks, locks
<1>19. ASSUME NEW t \in Threads, ShutdownEnds(t) PROVE NoCallbackAfterRemove'
  <2>1. cb' = cb /\ mtx = Null /\ \A w \in Workers : pc[w] = "idle"
    BY <1>19 DEF ShutdownEnds
  <2>2. \A s \in Threads : cb[s] = 0
    BY <1>1, <2>1
  <2> QED BY <2>1, <2>2
<1>20. ASSUME NEW u \in Users, UserCalls(u) PROVE NoCallbackAfterRemove'
  BY <1>1, <1>20 DEF UserCalls, Begin, callbacks, locks
<1>21. ASSUME NEW w \in Workers, ServesSet(w) PROVE NoCallbackAfterRemove'
  BY <1>1, <1>21 DEF ServesSet, Passes, callbacks, locks
<1>22. ASSUME NEW w \in Workers, NEW c \in Requests, BringsAnswer(w, c) PROVE NoCallbackAfterRemove'
  BY <1>1, <1>22 DEF BringsAnswer, keep, callbacks, locks
<1>23. ASSUME NEW c \in Requests, RemoteServes(c) PROVE NoCallbackAfterRemove'
  BY <1>1, <1>23 DEF RemoteServes, keep, callbacks, locks
<1>24. CASE UNCHANGED vars
  BY <1>1, <1>24 DEF vars, locks, thread, callbacks, counters
<1> QED BY <1>2, <1>3, <1>4, <1>5, <1>6, <1>7, <1>8, <1>9, <1>10, <1>11, <1>12, <1>13,
          <1>14, <1>15, <1>16, <1>17, <1>18, <1>19, <1>20, <1>21, <1>22, <1>23, <1>24 DEF Next,
             Runs

-----------------------------------------------------------------------------
(* The inductive invariant, and what it says. *)

\* A node that is up starts without callbacks.
LEMMA InvariantHolds == Spec => []IInv
<1>1. Init => IInv
  <2>1. SUFFICES ASSUME Init PROVE IInv
    OBVIOUS
  <2>2. CallTypes
    BY <2>1 DEF Init, CallTypes, NoOp, Ops, Kinds, Points
  <2>3. CallbackTypes /\ Registry
    BY <2>1 DEF Init, CallbackTypes, Registry, Ids, Known, Down, NoOp, Adds
  <2>4. Holding /\ Vetted /\ NoCallbackAfterRemove
    BY <2>1 DEF Init, Holding, Vetted, NoCallbackAfterRemove, Setting, Threads
  <2> QED BY <2>2, <2>3, <2>4, TypesSplit DEF IInv
<1>2. IInv /\ [Next]_vars => IInv'
  <2>1. SUFFICES ASSUME IInv, [Next]_vars PROVE IInv'
    OBVIOUS
  <2>2. CallTypes /\ CallbackTypes /\ adds \in 0..MaxAdds
    BY <2>1, TypesSplit DEF IInv, CallbackTypes
  <2>3. CallTypes'
    BY <2>1, <2>2, CallTypesStep DEF IInv
  <2>4. Ids' /\ CallbackTypes'
    BY <2>1, IdsStep DEF IInv
  <2>5. Known'
    BY <2>1, <2>2, KnownStep DEF IInv
  <2>6. Down'
    BY <2>1, <2>2, DownStep DEF IInv
  <2>7. Holding' /\ Vetted' /\ NoCallbackAfterRemove'
    BY <2>1, <2>2, HoldingStep, VettedStep, OverStep DEF IInv
  <2>8. TypeOK'
    <3>1. (CallTypes /\ CallbackTypes => TypeOK)'
      BY TypesSplit, PTL
    <3> QED BY <2>3, <2>4, <3>1
  <2> QED BY <2>4, <2>5, <2>6, <2>7, <2>8 DEF IInv, Registry
<1> QED BY <1>1, <1>2, PTL DEF Spec

\* Every variable keeps its type.
THEOREM TypeCorrect == Spec => []TypeOK
<1>1. IInv => TypeOK
  BY DEF IInv
<1> QED BY <1>1, InvariantHolds, PTL

\* What is registered is what the users want: a removal takes away its own callback only, be
\* the handle used twice or one of an earlier session.
THEOREM CallbacksAreWanted == Spec => []CallbacksAsWanted
<1>1. IInv => CallbacksAsWanted
  BY DEF IInv, Registry, Ids, CallbacksAsWanted
<1> QED BY <1>1, InvariantHolds, PTL

\* When a removal has returned, its callback neither runs nor is asked again, shutdown() apart.
THEOREM NoneAfterRemove == Spec => []NoCallbackAfterRemove
<1>1. IInv => NoCallbackAfterRemove
  BY DEF IInv
<1> QED BY <1>1, InvariantHolds, PTL

\* What the step does to the value is no matter to callback n, or the callback accepts it.
Vetoed(n) == value' \notin {value, Null} => value' \notin rejects[n]

\* A value that takes effect is one that no registered callback rejects.
LEMMA VetoStep ==
    ASSUME IInv, [Next]_vars, NEW n \in registered
    PROVE  Vetoed(n)
<1> USE DEF Vetoed
<1>1. /\ \A t \in Threads : cb[t] # 0 => pc[t] = "callback"
      /\ n \in Adds /\ 0 \notin Adds /\ Vetted
  BY DEF IInv, Registry, Ids, Holding, Adds
<1>2. ASSUME NEW t \in Threads, Refused(t) PROVE Vetoed(n)
  BY <1>1, <1>2 DEF Refused, Locks, callbacks, locks, Returns
<1>3. ASSUME NEW t \in Threads, Enters(t) PROVE Vetoed(n)
  BY <1>1, <1>3 DEF Enters, Locks, callbacks, locks
<1>4. ASSUME NEW t \in Threads, Read(t) PROVE Vetoed(n)
  BY <1>1, <1>4 DEF Read, Inside, callbacks, locks, Returns
<1>5. ASSUME NEW t \in Threads, AddOnSetParamCallback(t) PROVE Vetoed(n)
  BY <1>1, <1>5 DEF AddOnSetParamCallback, Inside, callbacks, locks, Returns
<1>6. ASSUME NEW t \in Threads, RemoveOnSetParamCallback(t) PROVE Vetoed(n)
  BY <1>1, <1>6 DEF RemoveOnSetParamCallback, NativelyRemoved, Locks, callbacks, locks, Returns
<1>7. ASSUME NEW t \in Threads, SetParam(t) PROVE Vetoed(n)
  BY <1>1, <1>7 DEF SetParam, Inside, Passes, callbacks, locks
<1>8. ASSUME NEW t \in Threads, DeclareParam(t) PROVE Vetoed(n)
  BY <1>1, <1>8 DEF DeclareParam, Inside, Passes, callbacks, locks
<1>9. ASSUME NEW t \in Threads, NothingToSet(t) PROVE Vetoed(n)
  BY <1>1, <1>9 DEF NothingToSet, Inside, callbacks, locks, Returns
<1>10. ASSUME NEW t \in Threads, AsksCallback(t) PROVE Vetoed(n)
  BY <1>1, <1>10 DEF AsksCallback, Ahead, callbacks, locks
<1>11. ASSUME NEW t \in Threads, CallbackAnswers(t) PROVE Vetoed(n)
  BY <1>1, <1>11 DEF CallbackAnswers, Successful, callbacks, locks, Returns
<1>12. ASSUME NEW t \in Threads, TakesEffect(t) PROVE Vetoed(n)
  <2>1. pc[t] = "checking" /\ value' = op[t].value /\ n \notin todo[t]
    BY <1>12 DEF TakesEffect, Ahead
  <2>2. cb[t] = 0
    BY <1>1, <2>1
  <2> QED BY <1>1, <2>1, <2>2 DEF Vetted, Setting
<1>13. ASSUME NEW t \in Threads, RemoteNotThere(t) PROVE Vetoed(n)
  BY <1>1, <1>13 DEF RemoteNotThere, keep, callbacks, locks, Returns
<1>14. ASSUME NEW t \in Threads, SendsRemote(t) PROVE Vetoed(n)
  BY <1>1, <1>14 DEF SendsRemote, callbacks, locks
<1>15. ASSUME NEW t \in Threads, RemoteReturns(t) PROVE Vetoed(n)
  BY <1>1, <1>15 DEF RemoteReturns, keep, callbacks, locks, Returns
<1>16. ASSUME NEW t \in Threads, RemoteTimesOut(t) PROVE Vetoed(n)
  BY <1>1, <1>16 DEF RemoteTimesOut, keep, WaitedEnough, callbacks, locks, Returns
<1>17. ASSUME NEW t \in Threads, Reopens(t) PROVE Vetoed(n)
  BY <1>1, <1>17 DEF Reopens, Locks, callbacks, locks, Returns
<1>18. ASSUME NEW t \in Threads, ShutdownBegins(t) PROVE Vetoed(n)
  BY <1>1, <1>18 DEF ShutdownBegins, Locks, callbacks, locks
<1>19. ASSUME NEW t \in Threads, ShutdownEnds(t) PROVE Vetoed(n)
  BY <1>1, <1>19 DEF ShutdownEnds, NextIdKept, callbacks, locks, Returns
<1>20. ASSUME NEW u \in Users, UserCalls(u) PROVE Vetoed(n)
  BY <1>1, <1>20 DEF UserCalls, Begin, callbacks, locks
<1>21. ASSUME NEW w \in Workers, ServesSet(w) PROVE Vetoed(n)
  BY <1>1, <1>21 DEF ServesSet, Passes, callbacks, locks
<1>22. ASSUME NEW w \in Workers, NEW c \in Requests, BringsAnswer(w, c) PROVE Vetoed(n)
  BY <1>1, <1>22 DEF BringsAnswer, keep, callbacks, locks
<1>23. ASSUME NEW c \in Requests, RemoteServes(c) PROVE Vetoed(n)
  BY <1>1, <1>23 DEF RemoteServes, keep, callbacks, locks
<1>24. CASE UNCHANGED vars
  BY <1>1, <1>24 DEF vars, locks, thread, callbacks, counters
<1> QED BY <1>2, <1>3, <1>4, <1>5, <1>6, <1>7, <1>8, <1>9, <1>10, <1>11, <1>12, <1>13,
          <1>14, <1>15, <1>16, <1>17, <1>18, <1>19, <1>20, <1>21, <1>22, <1>23, <1>24 DEF Next,
             Runs

\* Whatever sets the parameter, here or for another node, has asked every callback that is
\* registered when the value takes effect, and none has rejected it.
THEOREM VetoIsRespected == Spec => VetoRespected
<1>1. IInv /\ [Next]_vars =>
         [value' \notin {value, Null} => \A n \in registered : value' \notin rejects[n]]_vars
  BY VetoStep DEF Vetoed
<1> QED BY <1>1, InvariantHolds, PTL DEF Spec, VetoRespected
-----------------------------------------------------------------------------
\* What is being set stays a value, an override included.
LEMMA CarriedStep ==
    ASSUME TypeOK, Carried, [Next]_vars
    PROVE  Carried'
<1>1. CallTypes
  BY TypesSplit
<1> USE <1>1 DEF CallTypes, Ops, Points, Kinds, Carried, Setting, NoOp
<1>2. ASSUME NEW t \in Threads, Refused(t) PROVE Carried'
BY <1>2 DEF Refused, Locks, Returns
<1>3. ASSUME NEW t \in Threads, Enters(t) PROVE Carried'
BY <1>3 DEF Enters, Locks
<1>4. ASSUME NEW t \in Threads, Read(t) PROVE Carried'
BY <1>4 DEF Read, Inside, Returns
<1>5. ASSUME NEW t \in Threads, AddOnSetParamCallback(t) PROVE Carried'
BY <1>5 DEF AddOnSetParamCallback, Inside, Returns
<1>6. ASSUME NEW t \in Threads, RemoveOnSetParamCallback(t) PROVE Carried'
BY <1>6 DEF RemoveOnSetParamCallback, NativelyRemoved, Locks, Returns
<1>7. ASSUME NEW t \in Threads, SetParam(t) PROVE Carried'
BY <1>7 DEF SetParam, Inside, Passes
<1>8. ASSUME NEW t \in Threads, DeclareParam(t) PROVE Carried'
BY <1>8 DEF DeclareParam, Inside, Passes
<1>9. ASSUME NEW t \in Threads, NothingToSet(t) PROVE Carried'
BY <1>9 DEF NothingToSet, Inside, Returns
<1>10. ASSUME NEW t \in Threads, AsksCallback(t) PROVE Carried'
BY <1>10 DEF AsksCallback, Ahead
<1>11. ASSUME NEW t \in Threads, CallbackAnswers(t) PROVE Carried'
BY <1>11 DEF CallbackAnswers, Successful, Returns
<1>12. ASSUME NEW t \in Threads, TakesEffect(t) PROVE Carried'
BY <1>12 DEF TakesEffect, Ahead, Returns
<1>13. ASSUME NEW t \in Threads, RemoteNotThere(t) PROVE Carried'
BY <1>13 DEF RemoteNotThere, keep, Returns
<1>14. ASSUME NEW t \in Threads, SendsRemote(t) PROVE Carried'
BY <1>14 DEF SendsRemote
<1>15. ASSUME NEW t \in Threads, RemoteReturns(t) PROVE Carried'
BY <1>15 DEF RemoteReturns, keep, Returns
<1>16. ASSUME NEW t \in Threads, RemoteTimesOut(t) PROVE Carried'
BY <1>16 DEF RemoteTimesOut, keep, WaitedEnough, Returns
<1>17. ASSUME NEW t \in Threads, Reopens(t) PROVE Carried'
BY <1>17 DEF Reopens, Locks, Returns
<1>18. ASSUME NEW t \in Threads, ShutdownBegins(t) PROVE Carried'
BY <1>18 DEF ShutdownBegins, Locks
<1>19. ASSUME NEW t \in Threads, ShutdownEnds(t) PROVE Carried'
BY <1>19 DEF ShutdownEnds, NextIdKept, Returns
<1>20. ASSUME NEW u \in Users, UserCalls(u) PROVE Carried'
  BY <1>20 DEF UserCalls, Begin, Users, Threads
<1>21. ASSUME NEW w \in Workers, ServesSet(w) PROVE Carried'
  BY <1>21 DEF ServesSet, Passes, Threads
<1>22. ASSUME NEW w \in Workers, NEW c \in Requests, BringsAnswer(w, c) PROVE Carried'
  BY <1>22 DEF BringsAnswer, keep
<1>23. ASSUME NEW c \in Requests, RemoteServes(c) PROVE Carried'
  BY <1>23 DEF RemoteServes, keep
<1>24. CASE UNCHANGED vars
  BY <1>24 DEF vars, thread, callbacks, counters, locks
<1> QED BY <1>2, <1>3, <1>4, <1>5, <1>6, <1>7, <1>8, <1>9, <1>10, <1>11, <1>12, <1>13, <1>14,
         <1>15, <1>16, <1>17, <1>18, <1>19, <1>20, <1>21, <1>22, <1>23, <1>24 DEF Next, Runs

\* No other thread comes to wait in shutdown(), and workers start only on what is declared.
Continues ==
    /\ \A u \in Threads : pc'[u] = "draining" => pc[u] = "draining"
    /\ \A w \in Workers : pc'[w] # "idle" => pc[w] # "idle" \/ (stage # "down" /\ value # Null)

Unmoved == stage' = stage /\ value' = value /\ Continues

Takes(t) ==
    /\ pc[t] = "checking" /\ pc' = [pc EXCEPT ![t] = "idle"]
    /\ value' = op[t].value /\ stage' = stage

Opens(t) ==
    /\ stage = "down" /\ stage' = "up" /\ value' = value
    /\ pc[t] = "locking" /\ pc' = [pc EXCEPT ![t] = "idle"]

Closes(t) ==
    /\ stage = "up" /\ stage' = "closing" /\ value' = value
    /\ pc[t] = "locking" /\ pc' = [pc EXCEPT ![t] = "draining"]

Ends(t) ==
    /\ pc[t] = "draining" /\ \A w \in Workers : pc[w] = "idle"
    /\ stage' = "down" /\ value' = Null /\ pc' = [pc EXCEPT ![t] = "idle"]

\* A step leaves stage and parameter alone, sets it, opens the node, or is one of the two
\* sections of shutdown().
LEMMA StageMoves ==
    ASSUME IInv, [Next]_vars
    PROVE  Unmoved \/ \E t \in Threads : Takes(t) \/ Opens(t) \/ Closes(t) \/ Ends(t)
<1>1. CallTypes /\ Holding
  BY TypesSplit DEF IInv
<1>2. ASSUME NEW t \in Threads, NEW c, pc' = [pc EXCEPT ![t] = c], c # "draining",
             t \in Workers => pc[t] # "idle" \/ c = "idle" \/ (stage # "down" /\ value # Null),
             stage' = stage, value' = value
      PROVE  Unmoved
  BY <1>1, <1>2 DEF CallTypes, Unmoved, Continues, Threads
<1>3. ASSUME pc' = pc, stage' = stage, value' = value PROVE Unmoved
  BY <1>3 DEF Unmoved, Continues
<1>4. ASSUME NEW t \in Threads, Refused(t) PROVE Unmoved
BY <1>2, <1>3, <1>4 DEF Refused, Locks, Returns
<1>5. ASSUME NEW t \in Threads, Enters(t) PROVE Unmoved
BY <1>2, <1>3, <1>5 DEF Enters, Locks
<1>6. ASSUME NEW t \in Threads, Read(t) PROVE Unmoved
BY <1>2, <1>3, <1>6 DEF Read, Inside, Returns
<1>7. ASSUME NEW t \in Threads, AddOnSetParamCallback(t) PROVE Unmoved
BY <1>2, <1>3, <1>7 DEF AddOnSetParamCallback, Inside, Returns
<1>8. ASSUME NEW t \in Threads, RemoveOnSetParamCallback(t) PROVE Unmoved
BY <1>2, <1>3, <1>8 DEF RemoveOnSetParamCallback, NativelyRemoved, Locks, Returns
<1>9. ASSUME NEW t \in Threads, SetParam(t) PROVE Unmoved
BY <1>2, <1>3, <1>9 DEF SetParam, Inside, Passes
<1>10. ASSUME NEW t \in Threads, DeclareParam(t) PROVE Unmoved
BY <1>2, <1>3, <1>10 DEF DeclareParam, Inside, Passes
<1>11. ASSUME NEW t \in Threads, NothingToSet(t) PROVE Unmoved
BY <1>2, <1>3, <1>11 DEF NothingToSet, Inside, Returns
<1>12. ASSUME NEW t \in Threads, AsksCallback(t) PROVE Unmoved
BY <1>2, <1>3, <1>12 DEF AsksCallback, Ahead
<1>13. ASSUME NEW t \in Threads, CallbackAnswers(t) PROVE Unmoved
BY <1>2, <1>3, <1>13 DEF CallbackAnswers, Successful, Returns
<1>14. ASSUME NEW t \in Threads, TakesEffect(t) PROVE Takes(t)
BY <1>2, <1>3, <1>14 DEF TakesEffect, Takes, Ahead, Returns
<1>15. ASSUME NEW t \in Threads, RemoteNotThere(t) PROVE Unmoved
BY <1>2, <1>3, <1>15 DEF RemoteNotThere, keep, Returns
<1>16. ASSUME NEW t \in Threads, SendsRemote(t) PROVE Unmoved
BY <1>2, <1>3, <1>16 DEF SendsRemote
<1>17. ASSUME NEW t \in Threads, RemoteReturns(t) PROVE Unmoved
BY <1>2, <1>3, <1>17 DEF RemoteReturns, keep, Returns
<1>18. ASSUME NEW t \in Threads, RemoteTimesOut(t) PROVE Unmoved
BY <1>2, <1>3, <1>18 DEF RemoteTimesOut, keep, WaitedEnough, Returns
<1>19. ASSUME NEW t \in Threads, Reopens(t) PROVE Opens(t)
BY <1>2, <1>3, <1>19 DEF Reopens, Opens, Locks, Returns
<1>20. ASSUME NEW t \in Threads, ShutdownBegins(t) PROVE Closes(t)
BY <1>2, <1>3, <1>20 DEF ShutdownBegins, Closes, Locks
<1>21. ASSUME NEW t \in Threads, ShutdownEnds(t) PROVE Ends(t)
BY <1>2, <1>3, <1>21 DEF ShutdownEnds, Ends, NextIdKept, Returns
<1>22. ASSUME NEW u \in Users, UserCalls(u) PROVE Unmoved
  BY <1>2, <1>3, <1>22 DEF UserCalls, Begin, Users, Threads
<1>23. ASSUME NEW w \in Workers, ServesSet(w) PROVE Unmoved
  BY <1>2, <1>3, <1>23 DEF ServesSet, Passes, Threads
<1>24. ASSUME NEW w \in Workers, NEW c \in Requests, BringsAnswer(w, c) PROVE Unmoved
  BY <1>2, <1>3, <1>24 DEF BringsAnswer, keep
<1>25. ASSUME NEW c \in Requests, RemoteServes(c) PROVE Unmoved
  BY <1>2, <1>3, <1>25 DEF RemoteServes, keep
<1>26. CASE UNCHANGED vars
  BY <1>2, <1>3, <1>26 DEF vars, thread, callbacks, counters, locks
<1> QED BY <1>4, <1>5, <1>6, <1>7, <1>8, <1>9, <1>10, <1>11, <1>12, <1>13, <1>14, <1>15, <1>16,
         <1>17, <1>18, <1>19, <1>20, <1>21, <1>22, <1>23, <1>24, <1>25, <1>26 DEF Next, Runs

\* The shutdown() that waits is the one that closes the node, and workers set what is there.
LEMMA ServedStep ==
    ASSUME SInv, [Next]_vars
    PROVE  Served' /\ OneCloses'
<1>1. CallTypes /\ Holding
  BY TypesSplit DEF SInv, IInv
<1> USE <1>1 DEF CallTypes, Points, SInv, Served, OneCloses
<1>2. CASE Unmoved
  BY <1>2 DEF Unmoved, Continues
<1>3. ASSUME NEW t \in Threads, Takes(t) PROVE Served' /\ OneCloses'
  <2>1. value' # Null /\ stage # "down"
    BY <1>3 DEF Takes, Carried, Setting, Holding, Threads
  <2> QED BY <1>3, <2>1 DEF Takes, Threads
<1>4. ASSUME NEW t \in Threads, Opens(t) PROVE Served' /\ OneCloses'
  BY <1>4 DEF Opens, Threads
<1>5. ASSUME NEW t \in Threads, Closes(t) PROVE Served' /\ OneCloses'
  <2>1. t \notin Workers
    BY <1>5 DEF Closes, Holding, Setting
  <2> QED BY <1>5, <2>1 DEF Closes, Threads
<1>6. ASSUME NEW t \in Threads, Ends(t) PROVE Served' /\ OneCloses'
  BY <1>6 DEF Ends, Threads
<1> QED BY <1>2, <1>3, <1>4, <1>5, <1>6, StageMoves DEF SInv

\* Every step is one of the session, or leaves it as it is.
LEMMA SessionStep ==
    ASSUME SInv, SInv', [Next]_vars
    PROVE  [Session!Next]_(Session!vars)
<1>1. CallTypes /\ Holding
  BY TypesSplit DEF SInv, IInv
<1>2. ASSUME stage' = stage, MembersMade' <=> MembersMade
      PROVE  Session!WorkBegins \/ Session!WorkEnds
  <2>1. CASE CallbacksRun'
    <3>1. stage' # "down"
      BY <2>1 DEF SInv, Served, CallbacksRun
    <3> QED BY <1>2, <2>1, <3>1 DEF Session!WorkBegins
  <2>2. CASE ~CallbacksRun'
    BY <1>2, <2>2 DEF Session!WorkEnds
  <2> QED BY <2>1, <2>2
<1>3. ASSUME Unmoved PROVE Session!WorkBegins \/ Session!WorkEnds
  <2>1. stage' = stage /\ (MembersMade' <=> MembersMade)
    BY <1>3 DEF Unmoved, MembersMade
  <2> QED BY <1>2, <2>1
<1>4. ASSUME NEW t \in Threads, Takes(t)
      PROVE  Session!Registers \/ Session!WorkBegins \/ Session!WorkEnds
  <2>1. value' # Null
    BY <1>4 DEF Takes, SInv, Carried, Setting
  <2>2. CASE t \in Workers
    <3>1. value # Null
      BY <1>4, <2>2 DEF Takes, SInv, Served
    <3> QED BY <1>2, <1>4, <2>1, <3>1 DEF Takes, MembersMade
  <2>3. CASE t \notin Workers
    <3>1. \A w \in Workers : pc'[w] = pc[w]
      BY <1>1, <1>4, <2>3 DEF Takes, CallTypes, Threads
    <3>2. CallbacksRun' <=> CallbacksRun
      BY <3>1 DEF CallbacksRun
    <3>3. stage = "up"
      BY <1>1, <1>4, <2>3 DEF Takes, Holding, Setting, Threads
    <3> QED BY <1>4, <2>1, <3>2, <3>3 DEF Takes, MembersMade, Session!Registers
  <2> QED BY <2>2, <2>3
<1>5. ASSUME NEW t \in Threads, Opens(t) \/ Closes(t) PROVE Session!Opens \/ Session!Closes
  <2>1. t \notin Workers
    BY <1>1, <1>5 DEF Opens, Closes, Holding, Setting
  <2>2. \A w \in Workers : pc'[w] = pc[w]
    BY <1>1, <1>5, <2>1 DEF Opens, Closes, CallTypes, Threads
  <2>3. CallbacksRun' <=> CallbacksRun
    BY <2>2 DEF CallbacksRun
  <2>4. MembersMade' <=> MembersMade
    BY <1>5 DEF Opens, Closes, MembersMade
  <2> QED BY <1>5, <2>3, <2>4 DEF Opens, Closes, Session!Opens, Session!Closes
<1>6. ASSUME NEW t \in Threads, Ends(t) PROVE Session!Closed
  <2>1. ~CallbacksRun /\ ~CallbacksRun'
    BY <1>1, <1>6 DEF Ends, CallbacksRun, CallTypes
  <2>2. stage = "closing"
    BY <1>6 DEF Ends, SInv, OneCloses
  <2> QED BY <1>6, <2>1, <2>2 DEF Ends, MembersMade, Session!Closed
<1> QED BY <1>3, <1>4, <1>5, <1>6, StageMoves DEF SInv, Session!Next

\* The parameters keep the session of the node: a parameter is declared only in a node that is
\* up, also when the call has waited, sets of other nodes go on until it closes, and nothing is
\* declared, and no callback runs, when shutdown() has returned.
THEOREM ParametersKeepSession == Spec => Session!Spec
<1>1. Init => Session!Init /\ Carried /\ Served /\ OneCloses
  <2>1. SUFFICES ASSUME Init PROVE Session!Init /\ Carried /\ Served /\ OneCloses
    OBVIOUS
  <2>2. stage = "up" /\ ~CallbacksRun /\ ~MembersMade
    BY <2>1 DEF Init, CallbacksRun, MembersMade, Threads
  <2>3. MembersMade \in BOOLEAN
    BY DEF MembersMade
  <2>4. Carried /\ Served /\ OneCloses
    BY <2>1 DEF Init, Carried, Served, OneCloses, NoOp, Setting, Threads
  <2> QED BY <2>2, <2>3, <2>4 DEF Session!Init
<1>2. IInv /\ IInv' /\ Carried /\ Served /\ OneCloses /\ [Next]_vars =>
         Carried' /\ Served' /\ OneCloses'
  BY CarriedStep, ServedStep DEF SInv, IInv
<1>3. IInv /\ IInv' /\ Carried /\ Served /\ OneCloses /\ Carried' /\ Served' /\ OneCloses'
         /\ [Next]_vars => [Session!Next]_(Session!vars)
  BY SessionStep DEF SInv
<1> QED
  BY <1>1, <1>2, <1>3, InvariantHolds, PTL DEF Spec, Session!Spec
=============================================================================
