------------------------- MODULE NodeLifecycleProofs -------------------------
(***************************************************************************)
(* For any number of threads and sessions: what holds whatever calls of    *)
(* init(), run() and shutdown() overlap and whenever contexts are lost     *)
(* (no executor is destroyed under a spin, contexts have one owner), and   *)
(* what holds if one thread makes the calls of init() and shutdown()       *)
(* (sessions are kept, the background thread is joined).                   *)
(***************************************************************************)
EXTENDS NodeLifecycle, TLAPS

\* A spinner that has read executor_ and not yet returned from spin().
UsesExecutor(x) == phase[x] \in {"enter", "spinning", "left"}

\* running_ is a token: whoever is inside spin() holds it, and is alone.
RunningIsToken ==
    /\ \A x \in Spinners : InSpin(x) => running
    /\ \A x, y \in Spinners : InSpin(x) /\ InSpin(y) => x = y

\* Executors are numbered by session, and the one in executor_ is alive.
ExecutorsNumbered ==
    /\ executor <= session
    /\ initialized => executor # 0 /\ session \in Sessions
    /\ executor # 0 => executor \in alive
    /\ \A t \in Threads : local[t].exec <= session

\* An executor taken by a shutdown() is never executor_ again.
TakenForGood ==
    \A t \in Threads : step[t] # "idle" => local[t].exec \notin {0, executor}

\* Past its wait, a shutdown() holds an executor that nobody uses.
WaitedForSpin ==
    \A t \in Threads : step[t] \in {"join", "reset"} =>
        \A x \in Spinners : UsesExecutor(x) => loaded[x] # local[t].exec

\* The inductive invariant.
IInv ==
    /\ TypeOK /\ RunningIsToken /\ ExecutorsNumbered /\ TakenForGood /\ WaitedForSpin
    /\ ExecutorOutlivesSpin
-----------------------------------------------------------------------------
(* What holds further, if the process keeps to a part of what it may do. *)

\* One thread calls init() and shutdown(); ROS2Node.h does not say that more may.
OneController == \A c, d \in Controllers : c = d

\* A context that init() made is owned: by the node, or by the shutdown() that took the flag.
OwnedContext ==
    /\ ~initialized => ~ownInit
    /\ contextOf = "node" =>
          ownInit \/ \E t \in Threads : step[t] # "idle" /\ local[t].own

\* Until a context is lost, at most one of them owns one, and it is one that the node made.
OneOwner ==
    contextDowns = 0 =>
        /\ ownInit => contextOf = "node"
        /\ \A t \in Threads : local[t].own => contextOf = "node" /\ ~ownInit
        /\ \A t, u \in Threads : local[t].own /\ local[u].own => t = u

\* Sessions are apart: none begins before the shutdown() of the last is over.
SessionsApart ==
    /\ \A t \in Threads : step[t] # "idle" => t \in Controllers /\ ~initialized
    /\ ~initialized /\ (\A t \in Threads : step[t] \in {"idle", "context"}) => entities = {}
    /\ ~initialized /\ (\A t \in Threads : step[t] \notin {"cancel", "wait"}) => ~running
    /\ ~initialized => spinThread = 0
    /\ NoStaleEntities

\* A background thread that has begun is in spinThread_, or a shutdown() has still to join it.
ThreadsJoined ==
    /\ \A n \in Sessions : phase[n] \notin {"out", "done"} =>
          \/ spinThread = n
          \/ \E t \in Threads : step[t] \in {"cancel", "wait", "join"} /\ local[t].join = n
    /\ \A t \in Threads : phase[t] # "done"
    /\ DestroyedAtRest

\* While the node is initialized, and as long as no context was lost, its context is up and its
\* spin goes on.
UndisturbedSpin ==
    contextDowns = 0 /\ initialized =>
        /\ RclcppOk
        /\ spinThread # 0 => InSpin(spinThread)
        /\ \A x \in Spinners : UsesExecutor(x) =>
              /\ phase[x] # "left" /\ loaded[x] = executor
              /\ phase[x] = "spinning" => spinFlag[executor]

\* spinThread_ holds the thread of this session, which has begun; and if it ends by itself, a
\* context was lost.
SpinGoesOn ==
    /\ initialized /\ spinThread # 0 => spinThread = session /\ phase[spinThread] # "out"
    /\ UndisturbedSpin
    /\ SpinThreadFree

\* The session, as the rest of the node sees it.
Closing == \E t \in Threads : step[t] # "idle"

Stage == IF initialized THEN "up" ELSE IF Closing THEN "closing" ELSE "down"

MembersMade == entities # {}

Session == INSTANCE NodeSession WITH stage <- Stage, busy <- running, held <- MembersMade
-----------------------------------------------------------------------------
\* A step keeps every variable in its type.
LEMMA TypedStep ==
    ASSUME TypeOK, ExecutorsNumbered, [Next]_vars
    PROVE  TypeOK'
<1> USE LifecycleAssumption DEF TypeOK, ExecutorsNumbered, Spinners, Sessions, Phases, Steps,
                                flags, spins, calls, process
<1>1. ASSUME NEW t \in Threads, InitOk(t) PROVE TypeOK'
  BY <1>1 DEF InitOk, MayInit, Idle, OwnershipTaken, RclcppOk
<1>2. ASSUME NEW t \in Threads, InitThrows(t) PROVE TypeOK'
  BY <1>2 DEF InitThrows, MayInit, RclcppOk
<1>3. ASSUME NEW t \in Threads, RegisterEntity(t) PROVE TypeOK'
  BY <1>3 DEF RegisterEntity, Idle
<1>4. ASSUME NEW t \in Threads, RunBlocking(t) PROVE TypeOK'
  BY <1>4 DEF RunBlocking, MayRun, Idle
<1>5. ASSUME NEW t \in Threads, RunBackground(t) PROVE TypeOK'
  BY <1>5 DEF RunBackground, MayRun, Idle
<1>6. ASSUME NEW t \in Threads, ShutdownBegin(t) PROVE TypeOK'
  <2>1. PICK h \in {0} \cup {y \in Spinners : phase[y] = "spinning"} :
              host' = [host EXCEPT ![t] = h]
    BY <1>6 DEF ShutdownBegin, NoLongerInitialized
  <2>2. host' \in [Threads -> Spinners \cup {0}]
    BY <2>1
  <2>3. local' \in [Threads -> [exec : 0..MaxSessions, join : 0..MaxSessions, own : BOOLEAN]]
    BY <1>6 DEF ShutdownBegin, NoLongerInitialized
  <2>4. /\ initialized' \in BOOLEAN /\ ownInit' \in BOOLEAN
        /\ initialized' <=> executor' # 0
    BY <1>6 DEF ShutdownBegin, NoLongerInitialized
  <2>5. executor' \in 0..MaxSessions /\ spinThread' \in 0..MaxSessions
    BY <1>6 DEF ShutdownBegin, NoLongerInitialized
  <2>6. step' \in [Threads -> Steps]
    BY <1>6 DEF ShutdownBegin, NoLongerInitialized
  <2>7. UNCHANGED <<running, entities, session, spins, process>>
    BY <1>6 DEF ShutdownBegin, NoLongerInitialized
  <2> HIDE DEF Phases, Steps, Spinners
  <2> QED
    BY <2>2, <2>3, <2>4, <2>5, <2>6, <2>7
<1>7. ASSUME NEW t \in Threads, ShutdownCancel(t) PROVE TypeOK'
  BY <1>7 DEF ShutdownCancel, Cancelled
<1>8. ASSUME NEW t \in Threads, ShutdownWait(t) PROVE TypeOK'
  BY <1>8 DEF ShutdownWait, SpinHasStopped
<1>9. ASSUME NEW t \in Threads, ShutdownJoin(t) PROVE TypeOK'
  BY <1>9 DEF ShutdownJoin
<1>10. ASSUME NEW t \in Threads, ShutdownReset(t) PROVE TypeOK'
  BY <1>10 DEF ShutdownReset
<1>11. ASSUME NEW t \in Threads, ShutdownClear(t) PROVE TypeOK'
  BY <1>11 DEF ShutdownClear, Cleared
<1>12. ASSUME NEW t \in Threads, ShutdownContext(t) PROVE TypeOK'
  BY <1>12 DEF ShutdownContext, OursToShutDown, NoLocals
<1>13. ASSUME NEW x \in Spinners, SpinLoad(x) PROVE TypeOK'
  <2>1. CASE executor # 0
    <3>1. /\ loaded' = [loaded EXCEPT ![x] = executor] /\ phase' = [phase EXCEPT ![x] = "enter"]
          /\ UNCHANGED <<flags, alive, spinFlag, calls, process>>
      BY <1>13, <2>1 DEF SpinLoad
    <3> QED
      BY <3>1
  <2>2. CASE executor = 0
    BY <1>13, <2>2 DEF SpinLoad
  <2> QED
    BY <2>1, <2>2
<1>14. ASSUME NEW x \in Spinners, SpinEnter(x) PROVE TypeOK'
  BY <1>14 DEF SpinEnter
<1>15. ASSUME NEW x \in Spinners, SpinLeave(x) PROVE TypeOK'
  BY <1>15 DEF SpinLeave, RclcppOk
<1>16. ASSUME NEW x \in Spinners, SpinReturn(x) PROVE TypeOK'
  <2>1. phase' \in [Spinners -> Phases]
    BY <1>16 DEF SpinReturn
  <2>2. loaded' \in [Spinners -> 0..MaxSessions]
    BY <1>16 DEF SpinReturn
  <2> QED
    BY <1>16, <2>1, <2>2 DEF SpinReturn
<1>20. ASSUME NEW x \in Spinners, SpinNotify(x) PROVE TypeOK'
  BY <1>20 DEF SpinNotify
<1>21. ASSUME NEW t \in Threads, Destroy(t) PROVE TypeOK'
  BY <1>21 DEF Destroy
<1>17. CASE ContextDown
  BY <1>17 DEF ContextDown
<1>18. CASE UserInit
  BY <1>18 DEF UserInit
<1>19. CASE UNCHANGED vars
  BY <1>19 DEF vars
<1> QED
  BY <1>1, <1>2, <1>3, <1>4, <1>5, <1>6, <1>7, <1>8, <1>9, <1>10, <1>11, <1>12, <1>13, <1>14,
     <1>15, <1>16, <1>17, <1>18, <1>19,
     <1>20, <1>21 DEF Next, Call, ShutdownStep, SpinStep
-----------------------------------------------------------------------------
\* A step keeps the rest of the inductive invariant.
LEMMA InvariantStep ==
    ASSUME IInv, [Next]_vars
    PROVE  (RunningIsToken /\ ExecutorsNumbered /\ TakenForGood /\ WaitedForSpin
              /\ ExecutorOutlivesSpin)'
<1> USE LifecycleAssumption DEF IInv, TypeOK, RunningIsToken, ExecutorsNumbered, TakenForGood,
        WaitedForSpin, ExecutorOutlivesSpin, UsesExecutor, InSpin, Spinners, Sessions, Phases, Steps,
        flags, spins, calls, process
<1> DEFINE Goal == RunningIsToken /\ ExecutorsNumbered /\ TakenForGood /\ WaitedForSpin
                     /\ ExecutorOutlivesSpin
<1>1. ASSUME NEW t \in Threads, InitOk(t) PROVE Goal'
  BY <1>1 DEF InitOk, MayInit, Idle, OwnershipTaken, RclcppOk
<1>2. ASSUME NEW t \in Threads, InitThrows(t) PROVE Goal'
  BY <1>2 DEF InitThrows, MayInit, RclcppOk
<1>3. ASSUME NEW t \in Threads, RegisterEntity(t) PROVE Goal'
  BY <1>3 DEF RegisterEntity, Idle
<1>4. ASSUME NEW t \in Threads, RunBlocking(t) PROVE Goal'
  BY <1>4 DEF RunBlocking, MayRun, Idle
<1>5. ASSUME NEW t \in Threads, RunBackground(t) PROVE Goal'
  BY <1>5 DEF RunBackground, MayRun, Idle
<1>6. ASSUME NEW t \in Threads, ShutdownBegin(t) PROVE Goal'
  <2>1. /\ step' = [step EXCEPT ![t] = "cancel"] /\ executor' = 0 /\ initialized' = FALSE
        /\ local' = [local EXCEPT ![t] =
                        [exec |-> executor, join |-> spinThread, own |-> ownInit]]
        /\ UNCHANGED <<running, session, spins>>
    BY <1>6 DEF ShutdownBegin, NoLongerInitialized
  <2>2. executor # 0
    BY <1>6 DEF ShutdownBegin, NoLongerInitialized
  <2>3. ExecutorsNumbered' /\ TakenForGood'
    BY <2>1, <2>2
  <2>4. RunningIsToken' /\ WaitedForSpin' /\ ExecutorOutlivesSpin'
    BY <2>1
  <2> QED
    BY <2>3, <2>4
<1>7. ASSUME NEW t \in Threads, ShutdownCancel(t) PROVE Goal'
  BY <1>7 DEF ShutdownCancel, Cancelled
<1>8. ASSUME NEW t \in Threads, ShutdownWait(t) PROVE Goal'
  BY <1>8 DEF ShutdownWait, SpinHasStopped
<1>9. ASSUME NEW t \in Threads, ShutdownJoin(t) PROVE Goal'
  BY <1>9 DEF ShutdownJoin
<1>10. ASSUME NEW t \in Threads, ShutdownReset(t) PROVE Goal'
  BY <1>10 DEF ShutdownReset
<1>11. ASSUME NEW t \in Threads, ShutdownClear(t) PROVE Goal'
  BY <1>11 DEF ShutdownClear, Cleared
<1>12. ASSUME NEW t \in Threads, ShutdownContext(t) PROVE Goal'
  BY <1>12 DEF ShutdownContext, OursToShutDown, NoLocals
<1>13. ASSUME NEW x \in Spinners, SpinLoad(x) PROVE Goal'
  <2>1. CASE executor # 0
    <3>1. /\ loaded' = [loaded EXCEPT ![x] = executor] /\ phase' = [phase EXCEPT ![x] = "enter"]
          /\ phase[x] = "call" /\ UNCHANGED <<flags, alive, spinFlag, calls, process>>
      BY <1>13, <2>1 DEF SpinLoad
    <3>2. RunningIsToken' /\ ExecutorsNumbered' /\ TakenForGood'
      BY <3>1
    <3>3. WaitedForSpin' /\ ExecutorOutlivesSpin'
      BY <2>1, <3>1
    <3> QED
      BY <3>2, <3>3
  <2>2. CASE executor = 0
    BY <1>13, <2>2 DEF SpinLoad
  <2> QED
    BY <2>1, <2>2
<1>14. ASSUME NEW x \in Spinners, SpinEnter(x) PROVE Goal'
  BY <1>14 DEF SpinEnter
<1>15. ASSUME NEW x \in Spinners, SpinLeave(x) PROVE Goal'
  BY <1>15 DEF SpinLeave, RclcppOk
<1>16. ASSUME NEW x \in Spinners, SpinReturn(x) PROVE Goal'
  BY <1>16 DEF SpinReturn
<1>20. ASSUME NEW x \in Spinners, SpinNotify(x) PROVE Goal'
  BY <1>20 DEF SpinNotify
<1>21. ASSUME NEW t \in Threads, Destroy(t) PROVE Goal'
  BY <1>21 DEF Destroy
<1>17. CASE ContextDown
  BY <1>17 DEF ContextDown
<1>18. CASE UserInit
  BY <1>18 DEF UserInit
<1>19. CASE UNCHANGED vars
  BY <1>19 DEF vars
<1> QED
  BY <1>1, <1>2, <1>3, <1>4, <1>5, <1>6, <1>7, <1>8, <1>9, <1>10, <1>11, <1>12, <1>13, <1>14,
     <1>15, <1>16, <1>17, <1>18, <1>19,
     <1>20, <1>21 DEF Next, Call, ShutdownStep, SpinStep
-----------------------------------------------------------------------------
\* The inductive invariant holds in every reachable state.
THEOREM LifecycleInvariant == Spec => []IInv
<1>1. Init => IInv
  <2> SUFFICES ASSUME Init PROVE IInv
    OBVIOUS
  <2> USE LifecycleAssumption DEF Init, Spinners, Sessions, NoLocals
  <2>1. TypeOK
    <3>1. /\ spinFlag \in [Sessions -> BOOLEAN]
          /\ phase \in [Spinners -> Phases] /\ loaded \in [Spinners -> 0..MaxSessions]
      BY DEF Phases
    <3>2. /\ step \in [Threads -> Steps] /\ host \in [Threads -> Spinners \cup {0}]
          /\ local \in [Threads -> [exec : 0..MaxSessions, join : 0..MaxSessions, own : BOOLEAN]]
      BY DEF Steps
    <3>3. initialized \in BOOLEAN /\ running \in BOOLEAN /\ ownInit \in BOOLEAN
      OBVIOUS
    <3>4. /\ executor \in 0..MaxSessions /\ spinThread \in 0..MaxSessions
          /\ session \in 0..MaxSessions /\ contextDowns \in 0..MaxContextDowns
      OBVIOUS
    <3>5. entities \subseteq Sessions /\ alive \subseteq Sessions
      OBVIOUS
    <3>6. contextOf = "nobody" /\ failure = "none" /\ (initialized <=> executor # 0)
      OBVIOUS
    <3> HIDE DEF Init, Spinners, NoLocals
    <3> QED
      BY <3>1, <3>2, <3>3, <3>4, <3>5, <3>6 DEF TypeOK
  <2>2. RunningIsToken /\ ExecutorsNumbered /\ TakenForGood /\ WaitedForSpin
    BY DEF RunningIsToken, ExecutorsNumbered, TakenForGood, WaitedForSpin, InSpin
  <2>3. ExecutorOutlivesSpin
    BY DEF ExecutorOutlivesSpin
  <2> QED
    BY <2>1, <2>2, <2>3 DEF IInv
<1>2. IInv /\ [Next]_vars => IInv'
  BY TypedStep, InvariantStep DEF IInv
<1> QED
  BY <1>1, <1>2, PTL DEF Spec

\* Every variable keeps its type.
THEOREM LifecycleTyped == Spec => []TypeOK
<1>1. IInv => TypeOK
  BY DEF IInv
<1> QED
  BY <1>1, LifecycleInvariant, PTL

\* shutdown() never destroys an executor that a spin still uses.
THEOREM ExecutorSafe == Spec => []ExecutorOutlivesSpin
<1>1. IInv => ExecutorOutlivesSpin
  BY DEF IInv
<1> QED
  BY <1>1, LifecycleInvariant, PTL
-----------------------------------------------------------------------------
(* Contexts have one owner, whatever calls overlap. *)

\* init() makes a context and records it; shutdown() takes the record along. Only a throwing
\* constructor leaves a context without an owner.
LEMMA OwnedStep ==
    ASSUME TypeOK, OwnedContext, ~NodeMayThrow, [Next]_vars
    PROVE  OwnedContext'
<1> USE DEF OwnedContext, flags, spins, calls, process
<1>0. /\ step \in [Threads -> Steps]
      /\ local \in [Threads -> [exec : 0..MaxSessions, join : 0..MaxSessions, own : BOOLEAN]]
      /\ initialized \in BOOLEAN /\ ownInit \in BOOLEAN /\ ~NodeMayThrow
  BY DEF TypeOK
<1>1. ASSUME NEW t \in Threads, InitOk(t) PROVE OwnedContext'
  BY <1>0, <1>1 DEF InitOk, MayInit, Idle, OwnershipTaken, RclcppOk
<1>2. ASSUME NEW t \in Threads, InitThrows(t) PROVE OwnedContext'
  BY <1>0, <1>2 DEF InitThrows, MayInit, RclcppOk
<1>3. ASSUME NEW t \in Threads, RegisterEntity(t) PROVE OwnedContext'
  BY <1>0, <1>3 DEF RegisterEntity, Idle
<1>4. ASSUME NEW t \in Threads, RunBlocking(t) PROVE OwnedContext'
  BY <1>0, <1>4 DEF RunBlocking, MayRun, Idle
<1>5. ASSUME NEW t \in Threads, RunBackground(t) PROVE OwnedContext'
  BY <1>0, <1>5 DEF RunBackground, MayRun, Idle
<1>6. ASSUME NEW t \in Threads, ShutdownBegin(t) PROVE OwnedContext'
  <2>1. /\ step[t] = "idle" /\ step' = [step EXCEPT ![t] = "cancel"] /\ contextOf' = contextOf
        /\ ownInit' = FALSE /\ local' = [local EXCEPT ![t] =
                        [exec |-> executor, join |-> spinThread, own |-> ownInit]]
    BY <1>6 DEF ShutdownBegin, Idle
  <2>2. CASE ownInit
    <3>1. step'[t] # "idle" /\ local'[t].own
      BY <1>0, <2>1, <2>2
    <3> QED BY <2>1, <3>1
  <2>3. CASE ~ownInit /\ contextOf = "node"
    <3>1. PICK u \in Threads : step[u] # "idle" /\ local[u].own
      BY <2>3
    <3>2. step'[u] # "idle" /\ local'[u].own
      BY <1>0, <2>1, <3>1
    <3> QED BY <2>1, <3>2
  <2> QED BY <2>1, <2>2, <2>3
<1>7. ASSUME NEW t \in Threads, Destroy(t) PROVE OwnedContext'
  BY <1>0, <1>7 DEF Destroy
<1>8. ASSUME NEW t \in Threads, ShutdownCancel(t) PROVE OwnedContext'
  BY <1>0, <1>8 DEF ShutdownCancel, Cancelled
<1>9. ASSUME NEW t \in Threads, ShutdownWait(t) PROVE OwnedContext'
  BY <1>0, <1>9 DEF ShutdownWait, SpinHasStopped
<1>10. ASSUME NEW t \in Threads, ShutdownJoin(t) PROVE OwnedContext'
  BY <1>0, <1>10 DEF ShutdownJoin
<1>11. ASSUME NEW t \in Threads, ShutdownReset(t) PROVE OwnedContext'
  BY <1>0, <1>11 DEF ShutdownReset
<1>12. ASSUME NEW t \in Threads, ShutdownClear(t) PROVE OwnedContext'
  BY <1>0, <1>12 DEF ShutdownClear, Cleared
<1>13. ASSUME NEW t \in Threads, ShutdownContext(t) PROVE OwnedContext'
  BY <1>0, <1>13 DEF ShutdownContext, OursToShutDown, RclcppOk, NoLocals
<1>14. ASSUME NEW x \in Spinners, SpinLoad(x) PROVE OwnedContext'
  BY <1>0, <1>14 DEF SpinLoad
<1>15. ASSUME NEW x \in Spinners, SpinEnter(x) PROVE OwnedContext'
  BY <1>0, <1>15 DEF SpinEnter
<1>16. ASSUME NEW x \in Spinners, SpinLeave(x) PROVE OwnedContext'
  BY <1>0, <1>16 DEF SpinLeave, RclcppOk
<1>17. ASSUME NEW x \in Spinners, SpinReturn(x) PROVE OwnedContext'
  BY <1>0, <1>17 DEF SpinReturn
<1>18. ASSUME NEW x \in Spinners, SpinNotify(x) PROVE OwnedContext'
  BY <1>0, <1>18 DEF SpinNotify
<1>19. CASE ContextDown
  BY <1>0, <1>19 DEF ContextDown
<1>20. CASE UserInit
  BY <1>0, <1>20 DEF UserInit, RclcppOk
<1>21. CASE UNCHANGED vars
  BY <1>0, <1>21 DEF vars
<1> QED BY <1>1, <1>2, <1>3, <1>4, <1>5, <1>6, <1>7, <1>8, <1>9, <1>10, <1>11, <1>12,
          <1>13, <1>14, <1>15, <1>16, <1>17, <1>18, <1>19, <1>20, <1>21
     DEF Next, Call, ShutdownStep, SpinStep

\* The record is taken for a context that is made now, and nobody else has one then.
LEMMA OwnerStep ==
    ASSUME TypeOK, OneOwner, [Next]_vars
    PROVE  OneOwner'
<1> USE DEF OneOwner, flags, spins, calls, process
<1>0. /\ step \in [Threads -> Steps] /\ contextDowns \in 0..MaxContextDowns
      /\ MaxContextDowns \in Nat
      /\ local \in [Threads -> [exec : 0..MaxSessions, join : 0..MaxSessions, own : BOOLEAN]]
      /\ initialized \in BOOLEAN /\ ownInit \in BOOLEAN
  BY LifecycleAssumption DEF TypeOK
<1>1. ASSUME NEW t \in Threads, InitOk(t) PROVE OneOwner'
  BY <1>0, <1>1 DEF InitOk, MayInit, Idle, OwnershipTaken, RclcppOk
<1>2. ASSUME NEW t \in Threads, InitThrows(t) PROVE OneOwner'
  BY <1>0, <1>2 DEF InitThrows, MayInit, RclcppOk
<1>3. ASSUME NEW t \in Threads, RegisterEntity(t) PROVE OneOwner'
  BY <1>0, <1>3 DEF RegisterEntity, Idle
<1>4. ASSUME NEW t \in Threads, RunBlocking(t) PROVE OneOwner'
  BY <1>0, <1>4 DEF RunBlocking, MayRun, Idle
<1>5. ASSUME NEW t \in Threads, RunBackground(t) PROVE OneOwner'
  BY <1>0, <1>5 DEF RunBackground, MayRun, Idle
<1>6. ASSUME NEW t \in Threads, ShutdownBegin(t) PROVE OneOwner'
  BY <1>0, <1>6 DEF ShutdownBegin, NoLongerInitialized
<1>7. ASSUME NEW t \in Threads, Destroy(t) PROVE OneOwner'
  BY <1>0, <1>7 DEF Destroy
<1>8. ASSUME NEW t \in Threads, ShutdownCancel(t) PROVE OneOwner'
  BY <1>0, <1>8 DEF ShutdownCancel, Cancelled
<1>9. ASSUME NEW t \in Threads, ShutdownWait(t) PROVE OneOwner'
  BY <1>0, <1>9 DEF ShutdownWait, SpinHasStopped
<1>10. ASSUME NEW t \in Threads, ShutdownJoin(t) PROVE OneOwner'
  BY <1>0, <1>10 DEF ShutdownJoin
<1>11. ASSUME NEW t \in Threads, ShutdownReset(t) PROVE OneOwner'
  BY <1>0, <1>11 DEF ShutdownReset
<1>12. ASSUME NEW t \in Threads, ShutdownClear(t) PROVE OneOwner'
  BY <1>0, <1>12 DEF ShutdownClear, Cleared
<1>13. ASSUME NEW t \in Threads, ShutdownContext(t) PROVE OneOwner'
  BY <1>0, <1>13 DEF ShutdownContext, OursToShutDown, RclcppOk, NoLocals
<1>14. ASSUME NEW x \in Spinners, SpinLoad(x) PROVE OneOwner'
  BY <1>0, <1>14 DEF SpinLoad
<1>15. ASSUME NEW x \in Spinners, SpinEnter(x) PROVE OneOwner'
  BY <1>0, <1>15 DEF SpinEnter
<1>16. ASSUME NEW x \in Spinners, SpinLeave(x) PROVE OneOwner'
  BY <1>0, <1>16 DEF SpinLeave, RclcppOk
<1>17. ASSUME NEW x \in Spinners, SpinReturn(x) PROVE OneOwner'
  BY <1>0, <1>17 DEF SpinReturn
<1>18. ASSUME NEW x \in Spinners, SpinNotify(x) PROVE OneOwner'
  BY <1>0, <1>18 DEF SpinNotify
<1>19. CASE ContextDown
  BY <1>0, <1>19 DEF ContextDown
<1>20. CASE UserInit
  BY <1>0, <1>20 DEF UserInit, RclcppOk
<1>21. CASE UNCHANGED vars
  BY <1>0, <1>21 DEF vars
<1> QED BY <1>1, <1>2, <1>3, <1>4, <1>5, <1>6, <1>7, <1>8, <1>9, <1>10, <1>11, <1>12,
          <1>13, <1>14, <1>15, <1>16, <1>17, <1>18, <1>19, <1>20, <1>21
     DEF Next, Call, ShutdownStep, SpinStep

-----------------------------------------------------------------------------
(* One controller: sessions are apart. *)

\* A session begins when the last shutdown() has waited, joined and cleared.
LEMMA ApartStep ==
    ASSUME IInv, SessionsApart, OneController, [Next]_vars
    PROVE  SessionsApart'
<1> USE DEF SessionsApart, NoStaleEntities, flags, spins, calls, process
<1>0. /\ step \in [Threads -> Steps] /\ initialized \in BOOLEAN /\ running \in BOOLEAN
      /\ session \in Nat /\ Controllers \subseteq Threads
      /\ \A c, d \in Controllers : c = d
  BY LifecycleAssumption DEF IInv, TypeOK, OneController
<1>1. ASSUME NEW t \in Threads, InitOk(t) PROVE SessionsApart'
  BY <1>0, <1>1 DEF InitOk, MayInit, Idle, OwnershipTaken, RclcppOk, Steps
<1>2. ASSUME NEW t \in Threads, InitThrows(t) PROVE SessionsApart'
  BY <1>0, <1>2 DEF InitThrows, MayInit, RclcppOk, Steps
<1>3. ASSUME NEW t \in Threads, RegisterEntity(t) PROVE SessionsApart'
  BY <1>0, <1>3 DEF RegisterEntity, Idle, Steps
<1>4. ASSUME NEW t \in Threads, RunBlocking(t) PROVE SessionsApart'
  BY <1>0, <1>4 DEF RunBlocking, MayRun, Idle, Steps
<1>5. ASSUME NEW t \in Threads, RunBackground(t) PROVE SessionsApart'
  BY <1>0, <1>5 DEF RunBackground, MayRun, Idle, Steps
<1>6. ASSUME NEW t \in Threads, ShutdownBegin(t) PROVE SessionsApart'
  BY <1>0, <1>6 DEF ShutdownBegin, NoLongerInitialized, Steps
<1>7. ASSUME NEW t \in Threads, Destroy(t) PROVE SessionsApart'
  BY <1>0, <1>7 DEF Destroy, Steps
<1>8. ASSUME NEW t \in Threads, ShutdownCancel(t) PROVE SessionsApart'
  BY <1>0, <1>8 DEF ShutdownCancel, Cancelled, Steps
<1>9. ASSUME NEW t \in Threads, ShutdownWait(t) PROVE SessionsApart'
  BY <1>0, <1>9 DEF ShutdownWait, SpinHasStopped, Steps
<1>10. ASSUME NEW t \in Threads, ShutdownJoin(t) PROVE SessionsApart'
  BY <1>0, <1>10 DEF ShutdownJoin, Steps
<1>11. ASSUME NEW t \in Threads, ShutdownReset(t) PROVE SessionsApart'
  BY <1>0, <1>11 DEF ShutdownReset, Steps
<1>12. ASSUME NEW t \in Threads, ShutdownClear(t) PROVE SessionsApart'
  BY <1>0, <1>12 DEF ShutdownClear, Cleared, Steps
<1>13. ASSUME NEW t \in Threads, ShutdownContext(t) PROVE SessionsApart'
  BY <1>0, <1>13 DEF ShutdownContext, OursToShutDown, RclcppOk, NoLocals, Steps
<1>14. ASSUME NEW x \in Spinners, SpinLoad(x) PROVE SessionsApart'
  BY <1>0, <1>14 DEF SpinLoad, Steps
<1>15. ASSUME NEW x \in Spinners, SpinEnter(x) PROVE SessionsApart'
  BY <1>0, <1>15 DEF SpinEnter, Steps
<1>16. ASSUME NEW x \in Spinners, SpinLeave(x) PROVE SessionsApart'
  BY <1>0, <1>16 DEF SpinLeave, RclcppOk, Steps
<1>17. ASSUME NEW x \in Spinners, SpinReturn(x) PROVE SessionsApart'
  BY <1>0, <1>17 DEF SpinReturn, Steps
<1>18. ASSUME NEW x \in Spinners, SpinNotify(x) PROVE SessionsApart'
  BY <1>0, <1>18 DEF SpinNotify, Steps
<1>19. CASE ContextDown
  BY <1>0, <1>19 DEF ContextDown, Steps
<1>20. CASE UserInit
  BY <1>0, <1>20 DEF UserInit, RclcppOk, Steps
<1>21. CASE UNCHANGED vars
  BY <1>0, <1>21 DEF vars, Steps
<1> QED BY <1>1, <1>2, <1>3, <1>4, <1>5, <1>6, <1>7, <1>8, <1>9, <1>10, <1>11, <1>12,
          <1>13, <1>14, <1>15, <1>16, <1>17, <1>18, <1>19, <1>20, <1>21
     DEF Next, Call, ShutdownStep, SpinStep

\* run(false) starts a thread only when spinThread_ holds none, and shutdown() joins the one it
\* took before it goes on.
LEMMA JoinedStep ==
    ASSUME IInv, SessionsApart, ThreadsJoined, OneController, failure = "none", [Next]_vars
    PROVE  ThreadsJoined'
<1> USE DEF ThreadsJoined, DestroyedAtRest, flags, spins, calls, process
<1>0. /\ step \in [Threads -> Steps] /\ phase \in [Spinners -> Phases]
      /\ local \in [Threads -> [exec : 0..MaxSessions, join : 0..MaxSessions, own : BOOLEAN]]
      /\ session \in 0..MaxSessions /\ Controllers \subseteq Threads
      /\ Spinners = Threads \cup Sessions /\ Threads \cap (Sessions \cup {0}) = {}
      /\ \A c, d \in Controllers : c = d
      /\ \A t \in Threads : step[t] # "idle" => t \in Controllers /\ ~initialized
  BY LifecycleAssumption DEF IInv, TypeOK, OneController, SessionsApart, Spinners
<1>1. ASSUME NEW t \in Threads, InitOk(t) PROVE ThreadsJoined'
  BY <1>0, <1>1 DEF InitOk, MayInit, Idle, OwnershipTaken, RclcppOk
<1>2. ASSUME NEW t \in Threads, InitThrows(t) PROVE ThreadsJoined'
  BY <1>0, <1>2 DEF InitThrows, MayInit, RclcppOk
<1>3. ASSUME NEW t \in Threads, RegisterEntity(t) PROVE ThreadsJoined'
  BY <1>0, <1>3 DEF RegisterEntity, Idle
<1>4. ASSUME NEW t \in Threads, RunBlocking(t) PROVE ThreadsJoined'
  <2>1. /\ phase' = [phase EXCEPT ![t] = "call"]
        /\ UNCHANGED <<initialized, spinThread, step, local, failure>>
    BY <1>4 DEF RunBlocking
  <2>2. \A n \in Sessions : phase'[n] = phase[n]
    BY <1>0, <2>1
  <2>3. \A u \in Threads : phase'[u] # "done"
    BY <1>0, <2>1
  <2> QED BY <1>0, <2>1, <2>2, <2>3
<1>5. ASSUME NEW t \in Threads, RunBackground(t) PROVE ThreadsJoined'
  <2>1. initialized /\ UNCHANGED <<step, local>> /\ session \in Sessions
    BY <1>0, <1>5 DEF RunBackground, MayRun, Sessions, IInv, ExecutorsNumbered
  <2>2. \A u \in Threads : step[u] = "idle"
    BY <1>0, <2>1
  <2>3. CASE spinThread = 0
    <3>1. spinThread' = session /\ phase' = [phase EXCEPT ![session] = "call"] /\ failure' = failure
      BY <1>5, <2>3 DEF RunBackground
    <3>2. \A n \in Sessions : phase[n] \in {"out", "done"}
      BY <1>0, <2>2, <2>3 DEF Sessions
    <3>3. \A u \in Threads : phase'[u] = phase[u]
      BY <1>0, <2>1, <3>1
    <3>4. \A n \in Sessions : phase'[n] \notin {"out", "done"} => spinThread' = n
      BY <1>0, <3>1, <3>2
    <3> QED BY <1>0, <3>1, <3>3, <3>4
  <2>4. CASE spinThread # 0
    BY <1>0, <1>5, <2>4 DEF RunBackground
  <2> QED BY <2>3, <2>4
<1>6. ASSUME NEW t \in Threads, ShutdownBegin(t) PROVE ThreadsJoined'
  <2>1. /\ step[t] = "idle" /\ step' = [step EXCEPT ![t] = "cancel"] /\ initialized
        /\ local' = [local EXCEPT ![t] =
                        [exec |-> executor, join |-> spinThread, own |-> ownInit]]
        /\ UNCHANGED <<phase, failure>>
    BY <1>6 DEF ShutdownBegin, Idle
  <2>2. step'[t] = "cancel" /\ local'[t].join = spinThread
    BY <1>0, <2>1
  <2>3. \A n \in Sessions : phase[n] \notin {"out", "done"} => spinThread = n
    BY <1>0, <2>1
  <2> QED BY <1>0, <2>1, <2>2, <2>3
<1>7. ASSUME NEW t \in Threads, Destroy(t) PROVE ThreadsJoined'
  <2>1. /\ t \in Controllers /\ step[t] = "idle" /\ ~initialized
        /\ UNCHANGED <<initialized, phase, spinThread, step, local>>
    BY <1>0, <1>7, LifecycleAssumption DEF Destroy, Idle
  <2>2. \A u \in Threads : step[u] = "idle"
    BY <1>0, <2>1
  <2>3. ~running /\ spinThread = 0
    BY <2>1, <2>2 DEF SessionsApart
  <2>4. \A x \in Spinners : phase[x] \in {"out", "notifying", "done"}
    BY <1>0, <2>3 DEF IInv, RunningIsToken, InSpin, Phases
  <2>5. \A n \in Sessions : phase[n] \in {"out", "done"}
    BY <1>0, <2>2, <2>3 DEF Sessions
  <2> QED BY <1>0, <2>1, <2>2, <2>4, <2>5
<1>8. ASSUME NEW t \in Threads, ShutdownCancel(t) PROVE ThreadsJoined'
  BY <1>0, <1>8 DEF ShutdownCancel, Cancelled
<1>9. ASSUME NEW t \in Threads, ShutdownWait(t) PROVE ThreadsJoined'
  BY <1>0, <1>9 DEF ShutdownWait, SpinHasStopped
<1>10. ASSUME NEW t \in Threads, ShutdownJoin(t) PROVE ThreadsJoined'
  <2>1. /\ step[t] = "join" /\ step' = [step EXCEPT ![t] = "reset"]
        /\ local[t].join # 0 => phase[local[t].join] = "done"
        /\ UNCHANGED <<phase, failure, spinThread, local, initialized>>
    BY <1>10 DEF ShutdownJoin
  <2>2. ASSUME NEW n \in Sessions, phase[n] \notin {"out", "done"}, spinThread # n
        PROVE  \E u \in Threads : step'[u] \in {"cancel", "wait", "join"} /\ local'[u].join = n
    <3>1. PICK u \in Threads : step[u] \in {"cancel", "wait", "join"} /\ local[u].join = n
      BY <2>2
    <3>2. u # t
      BY <2>1, <2>2, <3>1 DEF Sessions
    <3>3. step'[u] = step[u] /\ local'[u] = local[u]
      BY <1>0, <2>1, <3>2
    <3> QED BY <3>1, <3>3
  <2> QED BY <1>0, <2>1, <2>2
<1>11. ASSUME NEW t \in Threads, ShutdownReset(t) PROVE ThreadsJoined'
  BY <1>0, <1>11 DEF ShutdownReset
<1>12. ASSUME NEW t \in Threads, ShutdownClear(t) PROVE ThreadsJoined'
  BY <1>0, <1>12 DEF ShutdownClear, Cleared
<1>13. ASSUME NEW t \in Threads, ShutdownContext(t) PROVE ThreadsJoined'
  BY <1>0, <1>13 DEF ShutdownContext, OursToShutDown, RclcppOk, NoLocals
<1>14. ASSUME NEW x \in Spinners, SpinLoad(x) PROVE ThreadsJoined'
  BY <1>0, <1>14 DEF SpinLoad
<1>15. ASSUME NEW x \in Spinners, SpinEnter(x) PROVE ThreadsJoined'
  BY <1>0, <1>15 DEF SpinEnter
<1>16. ASSUME NEW x \in Spinners, SpinLeave(x) PROVE ThreadsJoined'
  BY <1>0, <1>16 DEF SpinLeave, RclcppOk
<1>17. ASSUME NEW x \in Spinners, SpinReturn(x) PROVE ThreadsJoined'
  BY <1>0, <1>17 DEF SpinReturn
<1>18. ASSUME NEW x \in Spinners, SpinNotify(x) PROVE ThreadsJoined'
  BY <1>0, <1>18 DEF SpinNotify
<1>19. CASE ContextDown
  BY <1>0, <1>19 DEF ContextDown
<1>20. CASE UserInit
  BY <1>0, <1>20 DEF UserInit, RclcppOk
<1>21. CASE UNCHANGED vars
  BY <1>0, <1>21 DEF vars
<1> QED BY <1>1, <1>2, <1>3, <1>4, <1>5, <1>6, <1>7, <1>8, <1>9, <1>10, <1>11, <1>12,
          <1>13, <1>14, <1>15, <1>16, <1>17, <1>18, <1>19, <1>20, <1>21
     DEF Next, Call, ShutdownStep, SpinStep

\* The spin of a session ends only when its shutdown() cancels it, unless a context is lost.
LEMMA GoesOnStep ==
    ASSUME IInv, SessionsApart, SpinGoesOn, OneController, failure = "none", [Next]_vars
    PROVE  SpinGoesOn'
<1> USE DEF SpinGoesOn, UndisturbedSpin, SpinThreadFree, UsesExecutor, InSpin, RclcppOk, flags, spins, calls,
   process
<1>0. /\ step \in [Threads -> Steps] /\ phase \in [Spinners -> Phases]
      /\ loaded \in [Spinners -> 0..MaxSessions] /\ spinFlag \in [Sessions -> BOOLEAN]
      /\ session \in 0..MaxSessions /\ executor \in 0..MaxSessions /\ spinThread \in 0..MaxSessions
      /\ alive \subseteq Sessions /\ contextDowns \in Nat
      /\ Spinners = Threads \cup Sessions /\ Threads \cap (Sessions \cup {0}) = {}
      /\ \A t \in Threads : step[t] # "idle" => t \in Controllers /\ ~initialized
      /\ \A c, d \in Controllers : c = d
      /\ RunningIsToken /\ ExecutorsNumbered /\ ExecutorOutlivesSpin
  BY LifecycleAssumption DEF IInv, TypeOK, OneController, SessionsApart, Spinners
<1>1. ASSUME NEW t \in Threads, InitOk(t) PROVE SpinGoesOn'
  <2>1. \A u \in Threads : step[u] = "idle"
    BY <1>0, <1>1 DEF InitOk, MayInit, Idle
  <2>2. ~initialized /\ spinThread = 0 /\ ~running
    BY <1>1, <2>1 DEF InitOk, MayInit, SessionsApart
  <2>3. \A x \in Spinners : ~InSpin(x)
    BY <1>0, <2>2 DEF RunningIsToken
  <2>4. UNCHANGED <<spinThread, phase, failure>> /\ contextOf' # "nobody"
    BY <1>1 DEF InitOk
  <2> QED BY <2>2, <2>3, <2>4
<1>2. ASSUME NEW t \in Threads, InitThrows(t) PROVE SpinGoesOn'
  BY <1>0, <1>2 DEF InitThrows, MayInit, RclcppOk
<1>3. ASSUME NEW t \in Threads, RegisterEntity(t) PROVE SpinGoesOn'
  BY <1>0, <1>3 DEF RegisterEntity, Idle
<1>4. ASSUME NEW t \in Threads, RunBlocking(t) PROVE SpinGoesOn'
  BY <1>0, <1>4 DEF RunBlocking, MayRun, Idle
<1>5. ASSUME NEW t \in Threads, RunBackground(t) PROVE SpinGoesOn'
  <2>1. /\ initialized /\ ~running /\ session \in Sessions
        /\ UNCHANGED <<initialized, session, executor, loaded, spinFlag, contextOf, contextDowns>>
    BY <1>0, <1>5 DEF RunBackground, MayRun, Sessions, ExecutorsNumbered
  <2>2. spinThread # 0 => spinThread \in Spinners
    BY <1>0 DEF Sessions
  <2>3. CASE spinThread = 0
    <3>1. spinThread' = session /\ phase' = [phase EXCEPT ![session] = "call"] /\ failure' = failure
      BY <1>5, <2>3 DEF RunBackground
    <3>2. phase'[session] = "call" /\ \A x \in Spinners : x # session => phase'[x] = phase[x]
      BY <1>0, <2>1, <3>1
    <3> QED BY <1>0, <2>1, <3>1, <3>2
  <2>4. CASE spinThread # 0
    <3>1. UNCHANGED <<spinThread, phase>>
      BY <1>5, <2>4 DEF RunBackground
    <3>2. ~InSpin(spinThread)
      BY <1>0, <2>1, <2>2, <2>4 DEF RunningIsToken
    <3>3. contextDowns > 0
      BY <1>0, <2>1, <2>4, <3>2
    <3>4. spinThread = session /\ phase[spinThread] \in {"notifying", "done"}
      BY <1>0, <2>1, <2>2, <2>4, <3>2 DEF Phases
    <3> QED BY <2>1, <2>4, <3>1, <3>3, <3>4
  <2> QED BY <2>3, <2>4
<1>6. ASSUME NEW t \in Threads, ShutdownBegin(t) PROVE SpinGoesOn'
  BY <1>0, <1>6 DEF ShutdownBegin, NoLongerInitialized
<1>7. ASSUME NEW t \in Threads, Destroy(t) PROVE SpinGoesOn'
  BY <1>0, <1>7 DEF Destroy
<1>8. ASSUME NEW t \in Threads, ShutdownCancel(t) PROVE SpinGoesOn'
  BY <1>0, <1>8 DEF ShutdownCancel, Cancelled
<1>9. ASSUME NEW t \in Threads, ShutdownWait(t) PROVE SpinGoesOn'
  BY <1>0, <1>9 DEF ShutdownWait, SpinHasStopped
<1>10. ASSUME NEW t \in Threads, ShutdownJoin(t) PROVE SpinGoesOn'
  BY <1>0, <1>10 DEF ShutdownJoin
<1>11. ASSUME NEW t \in Threads, ShutdownReset(t) PROVE SpinGoesOn'
  BY <1>0, <1>11 DEF ShutdownReset
<1>12. ASSUME NEW t \in Threads, ShutdownClear(t) PROVE SpinGoesOn'
  BY <1>0, <1>12 DEF ShutdownClear, Cleared
<1>13. ASSUME NEW t \in Threads, ShutdownContext(t) PROVE SpinGoesOn'
  BY <1>0, <1>13 DEF ShutdownContext, OursToShutDown, RclcppOk, NoLocals
<1>14. ASSUME NEW x \in Spinners, SpinLoad(x) PROVE SpinGoesOn'
  <2>1. CASE executor # 0
    <3>1. /\ loaded' = [loaded EXCEPT ![x] = executor] /\ phase' = [phase EXCEPT ![x] = "enter"]
          /\ UNCHANGED <<flags, spinFlag, process>>
      BY <1>14, <2>1 DEF SpinLoad
    <3> QED BY <1>0, <3>1
  <2>2. CASE executor = 0
    BY <1>0, <1>14, <2>2 DEF SpinLoad
  <2> QED BY <2>1, <2>2
<1>15. ASSUME NEW x \in Spinners, SpinEnter(x) PROVE SpinGoesOn'
  <2>1. /\ phase[x] = "enter" /\ phase' = [phase EXCEPT ![x] = "spinning"]
        /\ spinFlag' = [spinFlag EXCEPT ![loaded[x]] = TRUE]
        /\ UNCHANGED <<flags, loaded, process>>
    BY <1>15 DEF SpinEnter
  <2>2. loaded[x] \in Sessions
    BY <1>0, <2>1 DEF ExecutorOutlivesSpin
  <2>3. contextDowns = 0 /\ initialized => loaded[x] = executor
    BY <1>0, <2>1
  <2>4. contextDowns = 0 /\ initialized => spinFlag'[executor] = TRUE
    BY <1>0, <2>1, <2>2, <2>3
  <2>5. \A y \in Spinners : phase'[y] = IF y = x THEN "spinning" ELSE phase[y]
    BY <1>0, <2>1
  <2> QED BY <1>0, <2>1, <2>3, <2>4, <2>5
<1>16. ASSUME NEW x \in Spinners, SpinLeave(x) PROVE SpinGoesOn'
  BY <1>0, <1>16 DEF SpinLeave, RclcppOk
<1>17. ASSUME NEW x \in Spinners, SpinReturn(x) PROVE SpinGoesOn'
  BY <1>0, <1>17 DEF SpinReturn
<1>18. ASSUME NEW x \in Spinners, SpinNotify(x) PROVE SpinGoesOn'
  <2>1. /\ phase[x] = "notifying"
        /\ phase' = [phase EXCEPT ![x] = IF x \in Sessions THEN "done" ELSE "out"]
        /\ UNCHANGED <<flags, alive, spinFlag, loaded, calls, process>>
    BY <1>18 DEF SpinNotify
  <2>2. \A y \in Spinners : y # x => phase'[y] = phase[y]
    BY <1>0, <2>1
  <2>3. \A n \in Sessions : phase[n] # "out" => phase'[n] # "out"
    BY <1>0, <2>1
  <2>4. ~InSpin(x) /\ ~InSpin(x)'
    BY <1>0, <2>1
  <2>5. spinThread # 0 => spinThread \in Sessions
    BY <1>0 DEF Sessions
  <2> QED BY <1>0, <2>1, <2>2, <2>3, <2>4, <2>5
<1>19. CASE ContextDown
  BY <1>0, <1>19 DEF ContextDown
<1>20. CASE UserInit
  BY <1>0, <1>20 DEF UserInit, RclcppOk
<1>21. CASE UNCHANGED vars
  BY <1>0, <1>21 DEF vars
<1> QED BY <1>1, <1>2, <1>3, <1>4, <1>5, <1>6, <1>7, <1>8, <1>9, <1>10, <1>11, <1>12,
          <1>13, <1>14, <1>15, <1>16, <1>17, <1>18, <1>19, <1>20, <1>21
     DEF Next, Call, ShutdownStep, SpinStep
-----------------------------------------------------------------------------
(* What follows for a process that keeps to a part of what it may do. *)

\* As long as no node constructor throws, whatever calls overlap and however the context goes
\* down: a node that is shut down leaves no context of its own up.
THEOREM ContextIsReleased ==
    ASSUME ~NodeMayThrow
    PROVE  Spec => []ContextReleased
<1>1. Init => OwnedContext
  BY DEF Init, OwnedContext
<1>2. TypeOK /\ OwnedContext /\ [Next]_vars => OwnedContext'
  BY OwnedStep
<1>3. OwnedContext => ContextReleased
  BY DEF OwnedContext, ContextReleased
<1> QED BY <1>1, <1>2, <1>3, LifecycleTyped, PTL DEF Spec

\* Whatever calls overlap: as long as nothing but the node has brought a context down, one of the
\* application stays up.
THEOREM OnlyOwnContextGoes == Spec => OnlyOwnContext
<1>1. Init => OneOwner
  BY DEF Init, OneOwner, NoLocals
<1>2. TypeOK /\ OneOwner /\ [Next]_vars => OneOwner'
  BY OwnerStep
<1>3. TypeOK /\ OneOwner /\ [Next]_vars =>
         [contextOf = "user" /\ contextOf' # "user" => contextDowns' > 0]_vars
  <2>0. SUFFICES ASSUME TypeOK, OneOwner, [Next]_vars, contextOf = "user", contextOf' # "user",
                        ~(contextDowns' > 0)
                 PROVE  FALSE
    OBVIOUS
  <2>4. contextDowns \in Nat
    BY <2>0, LifecycleAssumption DEF TypeOK
  <2>3. ~ContextDown
    BY <2>0, <2>4 DEF ContextDown
  <2>1. contextDowns' = contextDowns /\ contextDowns = 0
    BY <2>0, <2>3, <2>4 DEF Next, Call, ShutdownStep, SpinStep, process, vars,
       InitOk, InitThrows, RegisterEntity, RunBlocking, RunBackground, ShutdownBegin, Destroy,
       ShutdownCancel, ShutdownWait, ShutdownJoin, ShutdownReset, ShutdownClear, ShutdownContext,
       SpinLoad, SpinEnter, SpinLeave, SpinReturn, SpinNotify, UserInit
  <2>2. \A t \in Threads : ~OursToShutDown(t)
    BY <2>0, <2>1 DEF OneOwner, OursToShutDown
  <2> QED
    BY <2>0, <2>2, <2>3 DEF Next, Call, ShutdownStep, SpinStep, process, vars, RclcppOk,
       InitOk, InitThrows, RegisterEntity, RunBlocking, RunBackground, ShutdownBegin, Destroy,
       ShutdownCancel, ShutdownWait, ShutdownJoin, ShutdownReset, ShutdownClear, ShutdownContext,
       SpinLoad, SpinEnter, SpinLeave, SpinReturn, SpinNotify, UserInit
<1> QED BY <1>1, <1>2, <1>3, LifecycleTyped, PTL DEF Spec, OnlyOwnContext

\* With one controller sessions are apart.
LEMMA SessionsAreApart ==
    ASSUME OneController
    PROVE  Spec => []SessionsApart
<1>1. Init => SessionsApart
  BY DEF Init, SessionsApart, NoStaleEntities
<1>2. IInv /\ SessionsApart /\ [Next]_vars => SessionsApart'
  BY ApartStep
<1> QED BY <1>1, <1>2, LifecycleInvariant, PTL DEF Spec

\* With one controller init() finds clean maps, in whatever state the last session ended.
THEOREM EntitiesNeverStale ==
    ASSUME OneController
    PROVE  Spec => []NoStaleEntities
<1>1. SessionsApart => NoStaleEntities
  BY DEF SessionsApart
<1> QED BY <1>1, SessionsAreApart, PTL

\* With one controller nothing clears the maps in a session.
THEOREM LiveEntitiesAreKept ==
    ASSUME OneController
    PROVE  Spec => LiveEntitiesKept
<1>1. SessionsApart /\ [Next]_vars =>
         [initialized /\ initialized' /\ session' = session => entities \subseteq entities']_vars
  <2>1. SUFFICES ASSUME SessionsApart, [Next]_vars, initialized
                 PROVE  entities \subseteq entities'
    OBVIOUS
  <2>2. \A t \in Threads : ~ShutdownClear(t)
    BY <2>1 DEF ShutdownClear, SessionsApart
  <2> QED
    BY <2>1, <2>2 DEF Next, Call, ShutdownStep, SpinStep, flags, vars,
       InitOk, InitThrows, RegisterEntity, RunBlocking, RunBackground, ShutdownBegin, Destroy,
       ShutdownCancel, ShutdownWait, ShutdownJoin, ShutdownReset, ShutdownContext,
       SpinLoad, SpinEnter, SpinLeave, SpinReturn, SpinNotify, ContextDown, UserInit
<1> QED BY <1>1, SessionsAreApart, PTL DEF Spec, LiveEntitiesKept

\* With one controller whoever ends the object after its shutdown() finds nobody inside but a
\* blocking run() that has still to notify: the background thread has been joined.
THEOREM DestroyedWhenAtRest ==
    ASSUME OneController
    PROVE  Spec => []DestroyedAtRest
<1>1. Init => ThreadsJoined
  BY LifecycleAssumption DEF Init, ThreadsJoined, DestroyedAtRest, Spinners
<1>2. IInv /\ SessionsApart /\ ThreadsJoined /\ [Next]_vars => ThreadsJoined'
  <2>1. SUFFICES ASSUME IInv, SessionsApart, ThreadsJoined, [Next]_vars PROVE ThreadsJoined'
    OBVIOUS
  <2>2. CASE failure = "none"
    BY <2>1, <2>2, JoinedStep
  <2>3. CASE failure # "none"
    BY <2>1, <2>3 DEF Next, vars, flags, spins, calls, process, ThreadsJoined, DestroyedAtRest
  <2> QED BY <2>2, <2>3
<1>3. ThreadsJoined => DestroyedAtRest
  BY DEF ThreadsJoined
<1> QED BY <1>1, <1>2, <1>3, LifecycleInvariant, SessionsAreApart, PTL DEF Spec

\* With one controller run(false) assigns to a spinThread_ that holds a thread in one case only:
\* a context was brought down from outside (SIGINT), and the spin of this session ended of it.
THEOREM SpinThreadIsFree ==
    ASSUME OneController
    PROVE  Spec => []SpinThreadFree
<1>1. Init => SpinGoesOn
  BY DEF Init, SpinGoesOn, UndisturbedSpin, SpinThreadFree
<1>2. IInv /\ SessionsApart /\ SpinGoesOn /\ [Next]_vars => SpinGoesOn'
  <2>1. SUFFICES ASSUME IInv, SessionsApart, SpinGoesOn, [Next]_vars PROVE SpinGoesOn'
    OBVIOUS
  <2>2. CASE failure = "none"
    BY <2>1, <2>2, GoesOnStep
  <2>3. CASE failure # "none"
    BY <2>1, <2>3 DEF Next, vars, flags, spins, calls, process, SpinGoesOn, UndisturbedSpin,
       SpinThreadFree, InSpin, UsesExecutor, RclcppOk
  <2> QED BY <2>2, <2>3
<1>3. SpinGoesOn => SpinThreadFree
  BY DEF SpinGoesOn
<1> QED BY <1>1, <1>2, <1>3, LifecycleInvariant, SessionsAreApart, PTL DEF Spec
-----------------------------------------------------------------------------
(* The session that the other parts of the node rely on. *)

\* With one controller a thread in shutdown() is the only one, and no init() goes on beside it.
LEMMA OneInside ==
    ASSUME OneController, SessionsApart, NEW t \in Threads, t \in Controllers
    PROVE  \A u \in Threads : step[u] # "idle" => u = t
  BY DEF OneController, SessionsApart

LEMMA SessionStep ==
    ASSUME OneController, IInv, SessionsApart, [Next]_vars
    PROVE  [Session!Next]_(Session!vars)
<1> USE DEF IInv, TypeOK, flags, spins, calls, process, Session!Next, Session!vars
<1>1. ASSUME UNCHANGED <<initialized, step>> PROVE Stage' = Stage
  BY <1>1 DEF Stage, Closing
<1>2. ASSUME UNCHANGED entities PROVE MembersMade' <=> MembersMade
  BY <1>2 DEF MembersMade
<1>3. ASSUME NEW t \in Threads, InitOk(t) PROVE Session!Opens
  <2>1. ~Closing
    BY <1>3, OneInside DEF InitOk, MayInit, Idle, Closing
  <2>2. Stage = "down" /\ Stage' = "up"
    BY <1>3, <2>1 DEF InitOk, MayInit, Stage
  <2>3. running' = running
    BY <1>3 DEF InitOk
  <2>4. MembersMade' <=> MembersMade
    BY <1>2, <1>3 DEF InitOk
  <2> QED BY <2>2, <2>3, <2>4 DEF Session!Opens
<1>4. ASSUME NEW t \in Threads, RegisterEntity(t) PROVE Session!Registers
  <2>1. Stage = "up" /\ Stage' = "up" /\ running' = running
    BY <1>4 DEF RegisterEntity, Stage
  <2>2. MembersMade'
    BY <1>4 DEF RegisterEntity, MembersMade
  <2> QED BY <2>1, <2>2 DEF Session!Registers
<1>5. ASSUME NEW t \in Threads, RunBlocking(t) \/ RunBackground(t) PROVE Session!WorkBegins
  <2>1. running' /\ UNCHANGED <<initialized, step, entities>> /\ initialized
    BY <1>5 DEF RunBlocking, RunBackground, MayRun
  <2>2. Stage' = Stage /\ Stage # "down"
    BY <1>1, <2>1 DEF Stage
  <2>3. MembersMade' <=> MembersMade
    BY <1>2, <2>1
  <2> QED BY <2>1, <2>2, <2>3 DEF Session!WorkBegins
<1>6. ASSUME NEW x \in Spinners, SpinReturn(x) PROVE Session!WorkEnds
  <2>1. ~running' /\ UNCHANGED <<initialized, step, entities>>
    BY <1>6 DEF SpinReturn
  <2>2. Stage' = Stage
    BY <1>1, <2>1
  <2>3. MembersMade' <=> MembersMade
    BY <1>2, <2>1
  <2> QED BY <2>1, <2>2, <2>3 DEF Session!WorkEnds
<1>7. ASSUME NEW t \in Threads, ShutdownBegin(t) PROVE Session!Closes
  <2>1. step'[t] # "idle" /\ initialized /\ ~initialized'
    BY <1>7 DEF ShutdownBegin, NoLongerInitialized
  <2>2. Stage = "up" /\ Stage' = "closing"
    BY <2>1 DEF Stage, Closing
  <2>3. running' = running
    BY <1>7 DEF ShutdownBegin
  <2>4. MembersMade' <=> MembersMade
    BY <1>2, <1>7 DEF ShutdownBegin
  <2> QED BY <2>2, <2>3, <2>4 DEF Session!Closes
<1>8. ASSUME NEW t \in Threads, NEW c \in Steps \ {"idle"}, step[t] # "idle",
             step' = [step EXCEPT ![t] = c], initialized' = initialized
      PROVE  Stage = "closing" /\ Stage' = "closing"
  <2>1. ~initialized /\ step'[t] # "idle"
    BY <1>8 DEF SessionsApart
  <2> QED BY <1>8, <2>1 DEF Stage, Closing
<1>9. ASSUME NEW t \in Threads,
             ShutdownCancel(t) \/ ShutdownWait(t) \/ ShutdownJoin(t) \/ ShutdownReset(t)
      PROVE  UNCHANGED Session!vars
  <2>1. PICK c \in Steps \ {"idle"} : step' = [step EXCEPT ![t] = c]
    BY <1>9 DEF ShutdownCancel, ShutdownWait, ShutdownJoin, ShutdownReset, Steps
  <2>2. UNCHANGED <<initialized, running, entities>> /\ step[t] # "idle"
    BY <1>9 DEF ShutdownCancel, ShutdownWait, SpinHasStopped, ShutdownJoin, ShutdownReset
  <2>3. Stage' = Stage
    BY <1>8, <2>1, <2>2
  <2>4. MembersMade' <=> MembersMade
    BY <1>2, <2>2
  <2> QED BY <2>2, <2>3, <2>4
<1>10. ASSUME NEW t \in Threads, step[t] \in {"clear", "context"} PROVE ~running /\ ~initialized
  <2>1. t \in Controllers /\ ~initialized
    BY <1>10 DEF SessionsApart
  <2>2. \A u \in Threads : step[u] \notin {"cancel", "wait"}
    BY <1>10, <2>1, OneInside
  <2> QED BY <2>1, <2>2 DEF SessionsApart
<1>11. ASSUME NEW t \in Threads, ShutdownClear(t) PROVE Session!Clears
  <2>1. step[t] = "clear" /\ step' = [step EXCEPT ![t] = "context"]
        /\ UNCHANGED <<initialized, running>> /\ entities' = {}
    BY <1>11 DEF ShutdownClear, Cleared
  <2>2. Stage = "closing" /\ Stage' = "closing"
    BY <1>8, <2>1 DEF Steps
  <2>3. ~running /\ ~MembersMade'
    BY <1>10, <2>1 DEF MembersMade
  <2> QED BY <2>1, <2>2, <2>3 DEF Session!Clears
<1>12. ASSUME NEW t \in Threads, ShutdownContext(t) PROVE Session!Closed
  <2>1. step[t] = "context" /\ step' = [step EXCEPT ![t] = "idle"]
        /\ UNCHANGED <<initialized, running, entities>>
    BY <1>12 DEF ShutdownContext
  <2>2. ~running /\ ~initialized /\ ~running' /\ ~initialized'
    BY <1>10, <2>1
  <2>3. \A u \in Threads : step[u] # "idle" => u = t
    BY <2>1, OneInside DEF SessionsApart
  <2>4. \A u \in Threads : step'[u] = "idle"
    BY <2>1, <2>3
  <2>5. Stage = "closing" /\ Stage' = "down"
    BY <2>1, <2>2, <2>4 DEF Stage, Closing
  <2>6. ~MembersMade'
    BY <2>1, <2>2, <2>3 DEF SessionsApart, MembersMade
  <2> QED BY <2>2, <2>5, <2>6 DEF Session!Closed
<1>13. ASSUME UNCHANGED <<initialized, step, entities, running>> PROVE UNCHANGED Session!vars
  <2>1. Stage' = Stage
    BY <1>1, <1>13
  <2>2. MembersMade' <=> MembersMade
    BY <1>2, <1>13
  <2> QED BY <1>13, <2>1, <2>2
<1>14. ASSUME NEW t \in Threads, InitThrows(t) \/ Destroy(t) PROVE UNCHANGED Session!vars
  BY <1>13, <1>14 DEF InitThrows, Destroy
<1>15. ASSUME NEW x \in Spinners, SpinLoad(x) \/ SpinEnter(x) \/ SpinLeave(x) \/ SpinNotify(x)
       PROVE  UNCHANGED Session!vars
  BY <1>13, <1>15 DEF SpinLoad, SpinEnter, SpinLeave, SpinNotify
<1>16. ASSUME ContextDown \/ UserInit \/ UNCHANGED vars PROVE UNCHANGED Session!vars
  BY <1>13, <1>16 DEF ContextDown, UserInit, vars
<1> QED
  BY <1>3, <1>4, <1>5, <1>6, <1>7, <1>9, <1>11, <1>12, <1>14, <1>15, <1>16
     DEF Next, Call, ShutdownStep, SpinStep

\* With one controller the seven sections of shutdown(), with mtx_ released between them, and
\* the spin beside them come to the session that the other parts of the node rely on.
THEOREM LifecycleKeepsSession ==
    ASSUME OneController
    PROVE  Spec => Session!Spec
<1>1. Init => Session!Init
  <2>1. SUFFICES ASSUME Init PROVE Session!Init
    OBVIOUS
  <2>2. Stage = "down" /\ ~running /\ ~MembersMade
    BY <2>1 DEF Init, Stage, Closing, MembersMade
  <2>3. MembersMade \in BOOLEAN
    BY DEF MembersMade
  <2> QED BY <2>2, <2>3 DEF Session!Init
<1>2. IInv /\ SessionsApart /\ [Next]_vars => [Session!Next]_(Session!vars)
  BY SessionStep
<1> QED BY <1>1, <1>2, LifecycleInvariant, SessionsAreApart, PTL DEF Spec, Session!Spec
=============================================================================
