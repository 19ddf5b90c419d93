------------------------- MODULE ExecutorPoolProofs -------------------------
(***************************************************************************)
(* Proofs about ExecutorPool for every set of threads and executors.       *)
(***************************************************************************)
EXTENDS ExecutorPool, FiniteSetTheorems, TLAPS

-----------------------------------------------------------------------------
(* What appending to a queue and taking its first element do to the set of *)
(* its elements *)

\* An element is appended.
LEMMA AppendFacts ==
    ASSUME NEW S, NEW s \in Seq(S), NEW e \in S
    PROVE  /\ Append(s, e) \in Seq(S)
           /\ Len(Append(s, e)) = Len(s) + 1
           /\ Append(s, e) # <<>>
           /\ ToSet(Append(s, e)) = ToSet(s) \cup {e}
<1>1. /\ Append(s, e) \in Seq(S)
      /\ Len(Append(s, e)) = Len(s) + 1
      /\ \A i \in 1..Len(s) : Append(s, e)[i] = s[i]
      /\ Append(s, e)[Len(s) + 1] = e
      /\ Append(s, e) # <<>>
  OBVIOUS
<1>2. DOMAIN Append(s, e) = DOMAIN s \cup {Len(s) + 1}
  BY <1>1
<1>3. ToSet(Append(s, e)) = ToSet(s) \cup {e}
  BY <1>1, <1>2 DEF ToSet
<1> QED
  BY <1>1, <1>3

\* The first element of a queue without repetitions is taken.
LEMMA PopFacts ==
    ASSUME NEW S, NEW s \in Seq(S), s # <<>>,
           \A i, j \in DOMAIN s : s[i] = s[j] => i = j
    PROVE  /\ Head(s) \in S
           /\ Tail(s) \in Seq(S)
           /\ Len(Tail(s)) = Len(s) - 1
           /\ Head(s) \in ToSet(s)
           /\ ToSet(Tail(s)) = ToSet(s) \ {Head(s)}
           /\ \A i, j \in DOMAIN Tail(s) : Tail(s)[i] = Tail(s)[j] => i = j
<1>1. /\ Head(s) = s[1]
      /\ Head(s) \in S
      /\ Tail(s) \in Seq(S)
      /\ Len(s) \in Nat \ {0}
      /\ Len(Tail(s)) = Len(s) - 1
      /\ \A i \in 1..Len(Tail(s)) : Tail(s)[i] = s[i + 1]
  OBVIOUS
<1>2. DOMAIN s = 1..Len(s) /\ DOMAIN Tail(s) = 1..(Len(s) - 1)
  BY <1>1
<1>3. Head(s) \in ToSet(s)
  BY <1>1, <1>2 DEF ToSet
<1>4. ASSUME NEW x PROVE x \in ToSet(Tail(s)) <=> x \in ToSet(s) \ {Head(s)}
  <2>1. ASSUME x \in ToSet(Tail(s)) PROVE x \in ToSet(s) \ {Head(s)}
    <3>1. PICK i \in 1..(Len(s) - 1) : x = Tail(s)[i]
      BY <2>1, <1>2 DEF ToSet
    <3>2. x = s[i + 1] /\ i + 1 \in DOMAIN s /\ i + 1 # 1 /\ 1 \in DOMAIN s
      BY <3>1, <1>1, <1>2
    <3> QED
      BY <3>2, <1>1 DEF ToSet
  <2>2. ASSUME x \in ToSet(s) \ {Head(s)} PROVE x \in ToSet(Tail(s))
    <3>1. PICK i \in 1..Len(s) : x = s[i]
      BY <2>2, <1>2 DEF ToSet
    <3>2. i # 1
      BY <3>1, <2>2, <1>1
    <3>3. i - 1 \in 1..(Len(s) - 1) /\ Tail(s)[i - 1] = s[(i - 1) + 1] /\ (i - 1) + 1 = i
      BY <3>1, <3>2, <1>1
    <3> QED
      BY <3>1, <3>3, <1>2 DEF ToSet
  <2> QED
    BY <2>1, <2>2
<1>5. ASSUME NEW i \in DOMAIN Tail(s), NEW j \in DOMAIN Tail(s), Tail(s)[i] = Tail(s)[j]
      PROVE  i = j
  <2>1. s[i + 1] = s[j + 1] /\ i + 1 \in DOMAIN s /\ j + 1 \in DOMAIN s /\ i \in Int /\ j \in Int
    BY <1>5, <1>1, <1>2
  <2> QED
    BY <2>1
<1> QED
  BY <1>1, <1>3, <1>4, <1>5

-----------------------------------------------------------------------------
\* A thread has an executor exactly while it executes it or is about to delete
\* it; a thread exits only when the destructor has begun.
HoldsWhileBusy == \A t \in Threads : executor[t] # None <=> pc[t] \in {"run", "retire"}
FlagOfOwner    == owner = "serving" <=> ~inDestructor
JoinedBefore   == owner \in {"drain", "done"} => \A t \in Threads : pc[t] \in {"unborn", "exited"}
EmptyWhenDone  == owner = "done" => reqQueue = <<>>

IInv ==
    /\ TypeOK /\ OneOwner
    /\ HoldsWhileBusy /\ FlagOfOwner /\ JoinedBefore /\ EmptyWhenDone

LEMMA IInvInit == Init => IInv
<1> SUFFICES ASSUME Init PROVE IInv
  OBVIOUS
<1>1. PICK created \in (SUBSET Threads) \ {{}} :
         pc = [t \in Threads |-> IF t \in created THEN "acquire" ELSE "unborn"]
  BY DEF Init
<1>2. TypeOK
  <2>1. pc \in [Threads -> ThreadStates]
    BY <1>1 DEF ThreadStates
  <2>2. reqQueue \in Seq(Executors)
    BY DEF Init
  <2> QED
    BY <2>1, <2>2 DEF Init, TypeOK, OwnerStates
<1>3. Held = {} /\ ToSet(reqQueue) = {}
  BY DEF Init, Held, ToSet
<1>4. OneOwner
  BY <1>3 DEF Init, OneOwner, QueueDistinct, HeldByOne, HeldNotQueued, NothingLost
<1>5. HoldsWhileBusy /\ FlagOfOwner /\ JoinedBefore /\ EmptyWhenDone
  BY <1>1 DEF Init, HoldsWhileBusy, FlagOfOwner, JoinedBefore, EmptyWhenDone
<1> QED
  BY <1>2, <1>4, <1>5 DEF IInv

\* The steps that move executors, each against the invariant of ownership.
LEMMA RegisterKeepsOwner ==
    ASSUME IInv, NEW e \in Executors, RegisterExecutor(e)
    PROVE  OneOwner' /\ reqQueue' \in Seq(Executors)
<1> USE DEF IInv, TypeOK, OneOwner
<1>1. /\ reqQueue' \in Seq(Executors)
      /\ Len(reqQueue') = Len(reqQueue) + 1
      /\ ToSet(reqQueue') = ToSet(reqQueue) \cup {e}
  BY AppendFacts DEF RegisterExecutor
<1>2. Held' = Held
  BY DEF RegisterExecutor, Held
<1>3. e \notin Held /\ e \notin ToSet(reqQueue)
  BY DEF RegisterExecutor, NothingLost
<1>4. QueueDistinct'
  <2>1. \A i \in DOMAIN reqQueue : reqQueue[i] # e
    BY <1>3 DEF ToSet
  <2> QED
    BY <2>1 DEF RegisterExecutor, QueueDistinct
<1>5. HeldByOne' /\ HeldNotQueued' /\ NothingLost'
  BY <1>1, <1>2, <1>3 DEF RegisterExecutor, HeldByOne, HeldNotQueued, NothingLost
<1> QED
  BY <1>1, <1>4, <1>5

LEMMA PopKeepsOwner ==
    ASSUME IInv, NEW t \in Threads, pc[t] \in {"acquire", "testing"},
           reqQueue # <<>>, PopFront(t), UNCHANGED live
    PROVE  /\ OneOwner'
           /\ reqQueue' \in Seq(Executors)
           /\ executor' \in [Threads -> Executors \cup {None}]
           /\ executor'[t] \in Executors
<1> USE DEF IInv, TypeOK, OneOwner, PopFront
<1> DEFINE h == Head(reqQueue)
<1>1. /\ h \in Executors
      /\ reqQueue' \in Seq(Executors)
      /\ h \in ToSet(reqQueue)
      /\ ToSet(reqQueue') = ToSet(reqQueue) \ {h}
      /\ QueueDistinct'
  BY PopFacts DEF QueueDistinct
<1>2. executor[t] = None
  BY DEF HoldsWhileBusy
<1>3. executor' = [executor EXCEPT ![t] = h] /\ h # None /\ executor'[t] = h
  BY <1>1, PoolAssumption
<1> HIDE DEF h
<1>4. Held' = Held \cup {h}
  BY <1>2, <1>3 DEF Held
<1>5. h \notin Held
  BY <1>1 DEF HeldNotQueued
<1>6. HeldByOne'
  BY <1>3, <1>5 DEF HeldByOne, Held
<1>7. HeldNotQueued' /\ NothingLost'
  BY <1>1, <1>4, <1>5 DEF HeldNotQueued, NothingLost
<1> QED
  BY <1>1, <1>3, <1>6, <1>7

LEMMA DeleteKeepsOwner ==
    ASSUME IInv, NEW t \in Threads, DeleteExecutor(t)
    PROVE  OneOwner' /\ executor'[t] = None
<1> USE DEF IInv, TypeOK, OneOwner, DeleteExecutor
<1>1. executor[t] # None
  BY DEF HoldsWhileBusy
<1>2. executor'[t] = None /\ \A u \in Threads \ {t} : executor'[u] = executor[u]
  OBVIOUS
<1>3. Held' = Held \ {executor[t]}
  BY <1>1, <1>2 DEF Held, HeldByOne
<1>4. executor[t] \notin ToSet(reqQueue)
  BY <1>1 DEF HeldNotQueued, Held
<1>5. HeldByOne'
  BY <1>2 DEF HeldByOne
<1>6. QueueDistinct' /\ HeldNotQueued' /\ NothingLost'
  BY <1>3, <1>4 DEF QueueDistinct, HeldNotQueued, NothingLost
<1> QED
  BY <1>2, <1>5, <1>6

LEMMA DrainKeepsOwner ==
    ASSUME IInv, DeleteQueued
    PROVE  OneOwner' /\ live' = {} /\ reqQueue' \in Seq(Executors)
<1> USE DEF IInv, TypeOK, OneOwner, DeleteQueued
<1>1. \A t \in Threads : executor[t] = None
  BY DEF HoldsWhileBusy, JoinedBefore
<1>2. Held = {} /\ Held' = {} /\ ToSet(reqQueue') = {}
  BY <1>1 DEF Held, ToSet
<1>3. live' = {}
  BY <1>2 DEF NothingLost
<1>4. reqQueue' \in Seq(Executors)
  OBVIOUS
<1>5. QueueDistinct' /\ HeldByOne' /\ HeldNotQueued' /\ NothingLost'
  BY <1>2, <1>3 DEF QueueDistinct, HeldByOne, HeldNotQueued, NothingLost
<1> QED
  BY <1>3, <1>4, <1>5

\* The steps that move no executor leave its owner alone.
LEMMA StillOwned ==
    ASSUME OneOwner, UNCHANGED <<executor, reqQueue, live>>
    PROVE  OneOwner'
BY DEF OneOwner, QueueDistinct, HeldByOne, HeldNotQueued, NothingLost, Held

LEMMA IInvStep ==
    ASSUME IInv, [Next]_vars
    PROVE  IInv'
<1> USE DEF IInv
<1> DEFINE Rest == TypeOK' /\ HoldsWhileBusy' /\ FlagOfOwner' /\ JoinedBefore' /\ EmptyWhenDone'
<1> SUFFICES OneOwner' /\ Rest
  OBVIOUS
<1> USE DEF TypeOK, ThreadStates, OwnerStates, HoldsWhileBusy, FlagOfOwner,
            JoinedBefore, EmptyWhenDone
<1>1. ASSUME NEW t \in Threads, AddThread(t) PROVE OneOwner' /\ Rest
  BY <1>1, StillOwned DEF AddThread
<1>2. ASSUME NEW t \in Threads, TakeRequest(t) PROVE OneOwner' /\ Rest
  <2>1. /\ OneOwner'
        /\ reqQueue' \in Seq(Executors)
        /\ executor' \in [Threads -> Executors \cup {None}]
        /\ executor'[t] # None
    BY <1>2, PopKeepsOwner, PoolAssumption DEF TakeRequest
  <2> QED
    BY <1>2, <2>1 DEF TakeRequest, PopFront
<1>3. ASSUME NEW t \in Threads, Wait(t) PROVE OneOwner' /\ Rest
  BY <1>3, StillOwned DEF Wait
<1>4. ASSUME NEW t \in Threads, SpuriousWakeup(t) PROVE OneOwner' /\ Rest
  BY <1>4, StillOwned DEF SpuriousWakeup
<1>5. ASSUME NEW t \in Threads, WaitReturns(t) PROVE OneOwner' /\ Rest
  BY <1>5, StillOwned DEF WaitReturns
<1>6. ASSUME NEW t \in Threads, ExitThread(t) PROVE OneOwner' /\ Rest
  BY <1>6, StillOwned DEF ExitThread
<1>7. ASSUME NEW t \in Threads, WaitAgain(t) PROVE OneOwner' /\ Rest
  BY <1>7, StillOwned DEF WaitAgain
<1>8. ASSUME NEW t \in Threads, TakeAfterWait(t) PROVE OneOwner' /\ Rest
  <2>1. /\ OneOwner'
        /\ reqQueue' \in Seq(Executors)
        /\ executor' \in [Threads -> Executors \cup {None}]
        /\ executor'[t] # None
    BY <1>8, PopKeepsOwner, PoolAssumption DEF TakeAfterWait
  <2> QED
    BY <1>8, <2>1 DEF TakeAfterWait, PopFront
<1>9. ASSUME NEW t \in Threads, ScheduleResponse(t) PROVE OneOwner' /\ Rest
  BY <1>9, StillOwned DEF ScheduleResponse
<1>10. ASSUME NEW t \in Threads, DeleteExecutor(t) PROVE OneOwner' /\ Rest
  <2>1. OneOwner' /\ executor'[t] = None
    BY <1>10, DeleteKeepsOwner
  <2> QED
    BY <1>10, <2>1 DEF DeleteExecutor
<1>11. ASSUME NEW e \in Executors, RegisterExecutor(e) PROVE OneOwner' /\ Rest
  <2>1. OneOwner' /\ reqQueue' \in Seq(Executors)
    BY <1>11, RegisterKeepsOwner
  <2>2. /\ pc' \in [Threads -> ThreadStates]
        /\ \A t \in Threads : pc'[t] # pc[t] => pc[t] = "waiting" /\ pc'[t] = "woken"
    BY <1>11 DEF RegisterExecutor, NotifyOne, At
  <2> QED
    BY <1>11, <2>1, <2>2 DEF RegisterExecutor
<1>12. CASE StartDestruction
  BY <1>12, StillOwned DEF StartDestruction
<1>13. CASE NotifyAll
  BY <1>13, StillOwned DEF NotifyAll
<1>14. CASE JoinAll
  BY <1>14, StillOwned DEF JoinAll
<1>15. CASE DeleteQueued
  <2>1. OneOwner' /\ live' = {} /\ reqQueue' \in Seq(Executors)
    BY <1>15, DrainKeepsOwner
  <2> QED
    BY <1>15, <2>1 DEF DeleteQueued
<1>16. CASE UNCHANGED vars
  BY <1>16, StillOwned DEF vars
<1> QED
  BY <1>1, <1>2, <1>3, <1>4, <1>5, <1>6, <1>7, <1>8, <1>9, <1>10, <1>11, <1>12,
     <1>13, <1>14, <1>15, <1>16 DEF Next, ThreadStep, DestructorStep

LEMMA IInvHolds == Spec => []IInv
BY IInvInit, IInvStep, PTL DEF Spec

\* Type correctness of the pool.
THEOREM TypeCorrect == Spec => []TypeOK
<1>1. IInv => TypeOK
  BY DEF IInv
<1> QED
  BY <1>1, IInvHolds, PTL

\* Whatever the threads do, an executor is in the queue once, or with one
\* thread, or deleted (executor.cc:98-115, 128-136, 163-168).
THEOREM OwnershipHolds == Spec => []OneOwner
<1>1. IInv => OneOwner
  BY DEF IInv
<1> QED
  BY <1>1, IInvHolds, PTL

\* The destructor frees the queue only when no thread is left, and when it
\* returns nothing is allocated (executor.cc:128-136).
THEOREM DestructionIsClean == Spec => []CleanDestruction
<1>1. IInv => CleanDestruction
  <2> SUFFICES ASSUME IInv, owner = "done" PROVE live = {}
    BY DEF IInv, JoinedBefore, CleanDestruction
  <2>1. \A t \in Threads : executor[t] = None
    BY DEF IInv, TypeOK, JoinedBefore, HoldsWhileBusy
  <2>2. Held = {} /\ ToSet(reqQueue) = {}
    BY <2>1 DEF IInv, EmptyWhenDone, Held, ToSet
  <2> QED
    BY <2>2 DEF IInv, OneOwner, NothingLost
<1> QED
  BY <1>1, IInvHolds, PTL

\* Both together (executor.cc:98-136).
THEOREM ExecutorsAreOwnedAndFreed == Spec => []OwnedAndFreed
<1>1. OneOwner /\ CleanDestruction => OwnedAndFreed
  BY DEF OwnedAndFreed
<1> QED
  BY <1>1, OwnershipHolds, DestructionIsClean, PTL

-----------------------------------------------------------------------------
\* The threads on their way to the queue, as a finite set.
LEMMA OnTheWayFinite == IsFiniteSet(OnTheWay) /\ Cardinality(OnTheWay) \in Nat
<1>1. OnTheWay \subseteq Threads
  BY DEF OnTheWay, At
<1> QED
  BY <1>1, PoolAssumption, FS_Subset, FS_CardinalityType

\* One thread more, one thread less on the way.
LEMMA OneMoreOnTheWay ==
    ASSUME IInv, NEW t \in Threads, pc[t] = "waiting", pc' = [pc EXCEPT ![t] = "woken"]
    PROVE  Cardinality(OnTheWay') = Cardinality(OnTheWay) + 1
<1>1. OnTheWay' = OnTheWay \cup {t} /\ t \notin OnTheWay
  BY DEF IInv, TypeOK, OnTheWay, At
<1> QED
  BY <1>1, OnTheWayFinite, FS_AddElement

LEMMA OneLessOnTheWay ==
    ASSUME IInv, NEW t \in Threads, pc[t] = "testing", pc' = [pc EXCEPT ![t] = "run"]
    PROVE  Cardinality(OnTheWay') = Cardinality(OnTheWay) - 1
<1>1. OnTheWay' = OnTheWay \ {t} /\ t \in OnTheWay
  BY DEF IInv, TypeOK, OnTheWay, At
<1> QED
  BY <1>1, OnTheWayFinite, FS_RemoveElement

LEMMA SameOnTheWay ==
    ASSUME IInv, NEW t \in Threads, NEW s, pc' = [pc EXCEPT ![t] = s],
           \/ pc[t] \in {"woken", "testing"} /\ s \in {"woken", "testing"}
           \/ /\ pc[t] \notin {"woken", "testing", "waiting"}
              /\ s \notin {"woken", "testing", "waiting"}
    PROVE  OnTheWay' = OnTheWay /\ At("waiting")' = At("waiting")
BY DEF IInv, TypeOK, OnTheWay, At

LEMMA NoIdleStep ==
    ASSUME IInv, NoIdleWhileWork, [Next]_vars
    PROVE  NoIdleWhileWork'
<1> USE DEF NoIdleWhileWork
<1> SUFFICES ASSUME ~inDestructor', At("waiting")' # {}
             PROVE  Len(reqQueue') <= Cardinality(OnTheWay')
  BY DEF NoIdleWhileWork
<1>0. /\ Len(reqQueue) \in Nat
      /\ Cardinality(OnTheWay) \in Nat /\ Cardinality(OnTheWay') \in Nat
  <2>1. OnTheWay' \subseteq Threads
    BY DEF OnTheWay, At
  <2>2. Cardinality(OnTheWay') \in Nat
    BY <2>1, PoolAssumption, FS_Subset, FS_CardinalityType
  <2> QED
    BY <2>2, OnTheWayFinite DEF IInv, TypeOK
<1> DEFINE Goal == Len(reqQueue') <= Cardinality(OnTheWay')
<1>1. ASSUME NEW t \in Threads, AddThread(t) PROVE Goal
  BY <1>1, SameOnTheWay DEF AddThread
<1>2. ASSUME NEW t \in Threads, TakeRequest(t) PROVE Goal
  <2>1. OnTheWay' = OnTheWay /\ At("waiting")' = At("waiting")
    BY <1>2, SameOnTheWay DEF TakeRequest, PopFront
  <2>2. Len(reqQueue') = Len(reqQueue) - 1
    BY <1>2, PopFacts DEF TakeRequest, PopFront, IInv, TypeOK, OneOwner, QueueDistinct
  <2> QED
    BY <1>0, <1>2, <2>1, <2>2 DEF TakeRequest
<1>3. ASSUME NEW t \in Threads, Wait(t) \/ WaitAgain(t) PROVE Goal
  <2>1. reqQueue' = <<>>
    BY <1>3 DEF Wait, WaitAgain
  <2> QED
    BY <1>0, <2>1
<1>4. ASSUME NEW t \in Threads, SpuriousWakeup(t) PROVE Goal
  <2>1. Cardinality(OnTheWay') = Cardinality(OnTheWay) + 1
    BY <1>4, OneMoreOnTheWay DEF SpuriousWakeup
  <2>2. At("waiting") # {}
    BY <1>4 DEF SpuriousWakeup, At
  <2> QED
    BY <1>0, <1>4, <2>1, <2>2 DEF SpuriousWakeup
<1>5. ASSUME NEW t \in Threads, WaitReturns(t) PROVE Goal
  BY <1>5, SameOnTheWay DEF WaitReturns
<1>6. ASSUME NEW t \in Threads, ExitThread(t) PROVE Goal
  BY <1>6 DEF ExitThread
<1>7. ASSUME NEW t \in Threads, TakeAfterWait(t) PROVE Goal
  <2>1. Cardinality(OnTheWay') = Cardinality(OnTheWay) - 1
    BY <1>7, OneLessOnTheWay DEF TakeAfterWait, PopFront
  <2>2. Len(reqQueue') = Len(reqQueue) - 1
    BY <1>7, PopFacts DEF TakeAfterWait, PopFront, IInv, TypeOK, OneOwner, QueueDistinct
  <2>3. At("waiting")' \subseteq At("waiting")
    BY <1>7 DEF TakeAfterWait, PopFront, At, IInv, TypeOK
  <2> QED
    BY <1>0, <1>7, <2>1, <2>2, <2>3 DEF TakeAfterWait
<1>8. ASSUME NEW t \in Threads, ScheduleResponse(t) PROVE Goal
  BY <1>8, SameOnTheWay DEF ScheduleResponse
<1>9. ASSUME NEW t \in Threads, DeleteExecutor(t) PROVE Goal
  BY <1>9, SameOnTheWay DEF DeleteExecutor
<1>10. ASSUME NEW e \in Executors, RegisterExecutor(e) PROVE Goal
  <2>1. At("waiting") # {}
    BY <1>10 DEF RegisterExecutor, NotifyOne, At
  <2>2. PICK t \in At("waiting") : pc' = [pc EXCEPT ![t] = "woken"]
    BY <1>10, <2>1 DEF RegisterExecutor, NotifyOne
  <2>3. Cardinality(OnTheWay') = Cardinality(OnTheWay) + 1
    BY <2>2, OneMoreOnTheWay DEF At
  <2>4. Len(reqQueue') = Len(reqQueue) + 1
    BY <1>10, AppendFacts DEF RegisterExecutor, IInv, TypeOK
  <2> QED
    BY <1>0, <1>10, <2>1, <2>3, <2>4 DEF RegisterExecutor
<1>11. CASE StartDestruction
  BY <1>11 DEF StartDestruction
<1>12. CASE DestructorStep
  BY <1>12 DEF DestructorStep, NotifyAll, JoinAll, DeleteQueued, IInv, FlagOfOwner
<1>13. CASE UNCHANGED vars
  BY <1>13 DEF vars, OnTheWay, At
<1> QED
  BY <1>1, <1>2, <1>3, <1>4, <1>5, <1>6, <1>7, <1>8, <1>9, <1>10, <1>11, <1>12,
     <1>13 DEF Next, ThreadStep

\* One notify_one() per request is enough: no thread sleeps while there is a
\* request that no woken thread is coming for (executor.cc:98-109, 163-168).
THEOREM NoThreadIdlesWhileWork == Spec => []NoIdleWhileWork
<1>1. Init => NoIdleWhileWork
  <2> SUFFICES ASSUME Init PROVE Len(reqQueue) <= Cardinality(OnTheWay)
    BY DEF NoIdleWhileWork
  <2>1. Len(reqQueue) = 0
    BY DEF Init
  <2> QED
    BY <2>1, OnTheWayFinite
<1>2. IInv /\ NoIdleWhileWork /\ [Next]_vars => NoIdleWhileWork'
  BY NoIdleStep
<1> QED
  BY <1>1, <1>2, IInvHolds, PTL DEF Spec

-----------------------------------------------------------------------------
\* Every step of the pool is a step of the abstract queue, or none of it.
AnsweredMap == [t \in Threads |-> pc[t] = "retire"]

LEMMA LiveMap ==
    ASSUME IInv
    PROVE  Queue!LiveJobs = live
<1>1. Queue!LiveJobs = ToSet(reqQueue) \cup Held
  BY DEF Queue!LiveJobs, Queue!ToSet, ToSet, Held
<1> QED
  BY <1>1 DEF IInv, OneOwner, NothingLost

\* A step that moves no executor and no thread in or out of "retire" is hidden.
LEMMA HiddenStep ==
    ASSUME UNCHANGED <<executor, reqQueue, inDestructor>>,
           \A t \in Threads : pc'[t] = "retire" <=> pc[t] = "retire"
    PROVE  UNCHANGED Queue!jqVars
<1>1. AnsweredMap' = AnsweredMap
  BY DEF AnsweredMap
<1> QED
  BY <1>1 DEF AnsweredMap, Queue!jqVars

\* Taking the front of the queue is the abstract Start.
LEMMA PopIsStart ==
    ASSUME IInv, NEW t \in Threads, pc[t] \in {"acquire", "testing"},
           reqQueue # <<>>, PopFront(t), UNCHANGED inDestructor
    PROVE  Queue!Start(t)
<1>1. executor[t] = None
  BY DEF IInv, HoldsWhileBusy
<1>2. AnsweredMap' = AnsweredMap
  BY DEF AnsweredMap, PopFront, IInv, TypeOK
<1> QED
  BY <1>1, <1>2 DEF PopFront, Queue!Start, AnsweredMap

LEMMA StepRefines ==
    ASSUME IInv, [Next]_vars
    PROVE  [Queue!Next]_(Queue!jqVars)
<1> USE DEF IInv, TypeOK
<1>1. ASSUME NEW t \in Threads, AddThread(t) \/ Wait(t) \/ SpuriousWakeup(t) \/ WaitReturns(t)
                                   \/ ExitThread(t) \/ WaitAgain(t)
      PROVE  UNCHANGED Queue!jqVars
  <2>1. \A u \in Threads : pc'[u] = "retire" <=> pc[u] = "retire"
    BY <1>1 DEF AddThread, Wait, SpuriousWakeup, WaitReturns, ExitThread, WaitAgain
  <2> QED
    BY <1>1, <2>1, HiddenStep
       DEF AddThread, Wait, SpuriousWakeup, WaitReturns, ExitThread, WaitAgain
<1>2. ASSUME NEW t \in Threads, TakeRequest(t) \/ TakeAfterWait(t) PROVE Queue!Start(t)
  BY <1>2, PopIsStart DEF TakeRequest, TakeAfterWait
<1>3. ASSUME NEW t \in Threads, ScheduleResponse(t) PROVE Queue!Answer(t)
  <2>1. executor[t] # None
    BY <1>3 DEF ScheduleResponse, HoldsWhileBusy
  <2>2. AnsweredMap' = [AnsweredMap EXCEPT ![t] = TRUE] /\ ~AnsweredMap[t]
    BY <1>3 DEF ScheduleResponse, AnsweredMap
  <2> QED
    BY <1>3, <2>1, <2>2 DEF ScheduleResponse, Queue!Answer, AnsweredMap
<1>4. ASSUME NEW t \in Threads, DeleteExecutor(t) PROVE Queue!Retire(t)
  <2>1. AnsweredMap' = [AnsweredMap EXCEPT ![t] = FALSE] /\ AnsweredMap[t]
    BY <1>4 DEF DeleteExecutor, AnsweredMap
  <2> QED
    BY <1>4, <2>1 DEF DeleteExecutor, Queue!Retire, AnsweredMap
<1>5. ASSUME NEW e \in Executors, RegisterExecutor(e) PROVE Queue!Submit(e)
  <2>1. \A t \in Threads : pc'[t] = "retire" <=> pc[t] = "retire"
    BY <1>5 DEF RegisterExecutor, NotifyOne, At
  <2>2. AnsweredMap' = AnsweredMap
    BY <2>1 DEF AnsweredMap
  <2>3. ~inDestructor /\ e \notin Queue!LiveJobs
    BY <1>5, LiveMap DEF RegisterExecutor, FlagOfOwner
  <2> QED
    BY <1>5, <2>2, <2>3 DEF RegisterExecutor, Queue!Submit, AnsweredMap
<1>6. CASE StartDestruction
  <2>1. Queue!Close
    BY <1>6 DEF StartDestruction, Queue!Close, FlagOfOwner
  <2> QED
    BY <2>1 DEF Queue!Next
<1>7. CASE NotifyAll
  <2>1. \A t \in Threads : pc'[t] = "retire" <=> pc[t] = "retire"
    BY <1>7 DEF NotifyAll
  <2> QED
    BY <1>7, <2>1, HiddenStep DEF NotifyAll
<1>8. CASE JoinAll
  BY <1>8, HiddenStep DEF JoinAll
<1>9. CASE DeleteQueued
  <2>1. inDestructor /\ \A t \in Threads : executor[t] = None
    BY <1>9 DEF DeleteQueued, FlagOfOwner, JoinedBefore, HoldsWhileBusy
  <2>2. Queue!Discard
    BY <1>9, <2>1 DEF DeleteQueued, Queue!Discard
  <2> QED
    BY <2>2 DEF Queue!Next
<1>10. CASE UNCHANGED vars
  BY <1>10, HiddenStep DEF vars
<1> QED
  BY <1>1, <1>2, <1>3, <1>4, <1>5, <1>6, <1>7, <1>8, <1>9, <1>10
     DEF Next, ThreadStep, DestructorStep, Queue!Next

\* The pool with its locks and condition variable implements JobQueue: jobs are
\* started in order, each by one free thread, answered before they are released,
\* and dropped only by the destructor with no thread left.
THEOREM PoolImplementsJobQueue == Spec => Queue!Spec
<1>1. Init => Queue!Init
  <2> SUFFICES ASSUME Init PROVE Queue!Init
    OBVIOUS
  <2>1. \A t \in Threads : pc[t] # "retire"
    BY DEF Init
  <2> QED
    BY <2>1 DEF Init, Queue!Init
<1>2. IInv /\ [Next]_vars => [Queue!Next]_(Queue!jqVars)
  BY StepRefines
<1> QED
  BY <1>1, <1>2, IInvHolds, PTL DEF Spec, Queue!Spec

=============================================================================
