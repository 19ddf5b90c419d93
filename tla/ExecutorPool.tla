---------------------------- MODULE ExecutorPool ----------------------------
(***************************************************************************)
(* Pool_executor_factory (executor.h, executor.cc): the queue of requests, *)
(* the condition variable the pool threads sleep on, the two mutexes, and  *)
(* the destructor that joins the threads and drops what is still queued.   *)
(*                                                                         *)
(* Executors stand for heap addresses: `live' are the allocated ones, and  *)
(* an address is used again after `delete'.                                *)
(*                                                                         *)
(* A critical section in which the code neither blocks nor takes a second  *)
(* lock is one step.  The two sections that do are split where they block: *)
(* a woken thread calls is_being_destructed() (takes destructor_lock) with *)
(* req_queue_lock held, and destruction_started() takes req_queue_lock     *)
(* with destructor_lock held.  So who holds a mutex follows from where the *)
(* threads are, and no variable is needed for it.                          *)
(***************************************************************************)
EXTENDS Naturals, Sequences, FiniteSets, SequencesExt

CONSTANTS Threads,     \* every thread add_threads() may ever create
          Executors,   \* the addresses of Pool_executor objects
          None         \* no executor

ASSUME PoolAssumption ==
    /\ IsFiniteSet(Threads)
    /\ None \notin Executors

VARIABLES pc,             \* where each pool thread is
          executor,       \* the local variable of Pool_thread::operator()
          reqQueue,       \* req_queue
          inDestructor,   \* in_destructor
          owner,          \* where the thread that owns the factory is
          live            \* the Pool_executor objects that exist

vars == <<pc, executor, reqQueue, inDestructor, owner, live>>

\* unborn:  not created by add_threads() yet
\* acquire: about to lock req_queue_lock at the top of the loop
\* waiting: inside req_queue_cond.wait()
\* woken:   signalled, about to get req_queue_lock back inside wait()
\* testing: holds req_queue_lock, about to call is_being_destructed()
\* run:     inside the method of the executor
\* retire:  response scheduled, executor not deleted yet
\* exited:  returned from operator()
ThreadStates ==
    {"unborn", "acquire", "waiting", "woken", "testing", "run", "retire", "exited"}

\* serving: the server uses the factory; notify: in_destructor is set and
\* destructor_lock is held; join: inside threads.join_all(); drain: all joined;
\* done: the destructor has returned.
OwnerStates == {"serving", "notify", "join", "drain", "done"}

At(state) == {t \in Threads : pc[t] = state}

ReqQueueLockFree   == At("testing") = {}
DestructorLockFree == owner # "notify"

-----------------------------------------------------------------------------
\* The constructor has created numthreads (at least one) of the threads.
Init ==
    /\ \E created \in (SUBSET Threads) \ {{}} :
          pc = [t \in Threads |-> IF t \in created THEN "acquire" ELSE "unborn"]
    /\ executor = [t \in Threads |-> None]
    /\ reqQueue = <<>>
    /\ inDestructor = FALSE
    /\ owner = "serving"
    /\ live = {}

\* One round of the loop in add_threads(), called by the user later on.
AddThread(t) ==
    /\ owner = "serving"
    /\ pc[t] = "unborn"
    /\ pc' = [pc EXCEPT ![t] = "acquire"]
    /\ UNCHANGED <<executor, reqQueue, inDestructor, owner, live>>

\* notify_one(): one of the waiting threads, if there is any, is woken.
NotifyOne ==
    IF At("waiting") = {} THEN pc' = pc
    ELSE \E t \in At("waiting") : pc' = [pc EXCEPT ![t] = "woken"]

\* Mutant: a null pointer is queued.
RegisterNull(e) ==
    /\ owner = "serving" /\ e \notin live /\ ReqQueueLockFree
    /\ live' = live \cup {e}
    /\ reqQueue' = Append(reqQueue, None)
    /\ NotifyOne
    /\ UNCHANGED <<executor, inDestructor, owner>>

\* Mutant: only the request that makes the queue non-empty wakes a thread.
RegisterNotifyFirst(e) ==
    /\ owner = "serving" /\ e \notin live /\ ReqQueueLockFree
    /\ live' = live \cup {e}
    /\ reqQueue' = Append(reqQueue, e)
    /\ IF reqQueue = <<>> THEN NotifyOne ELSE pc' = pc
    /\ UNCHANGED <<executor, inDestructor, owner>>

\* Pool_executor_factory::create() and register_executor().
RegisterExecutor(e) ==
    /\ owner = "serving"
    /\ e \notin live
    /\ ReqQueueLockFree
    /\ live' = live \cup {e}
    /\ reqQueue' = Append(reqQueue, e)
    /\ NotifyOne
    /\ UNCHANGED <<executor, inDestructor, owner>>

-----------------------------------------------------------------------------
\* Mutants: pop_front() is forgotten; the newest request is taken.
PeekFront(t) ==
    /\ executor' = [executor EXCEPT ![t] = Head(reqQueue)]
    /\ reqQueue' = reqQueue
    /\ pc' = [pc EXCEPT ![t] = "run"]

PopBack(t) ==
    /\ executor' = [executor EXCEPT ![t] = Last(reqQueue)]
    /\ reqQueue' = Front(reqQueue)
    /\ pc' = [pc EXCEPT ![t] = "run"]

\* Take the front of the queue and leave the critical section.
PopFront(t) ==
    /\ executor' = [executor EXCEPT ![t] = Head(reqQueue)]
    /\ reqQueue' = Tail(reqQueue)
    /\ pc' = [pc EXCEPT ![t] = "run"]

\* Top of the loop with a non-empty queue: in_destructor is not looked at.
TakeRequest(t) ==
    /\ pc[t] = "acquire"
    /\ ReqQueueLockFree
    /\ reqQueue # <<>>
    /\ PopFront(t)
    /\ UNCHANGED <<inDestructor, owner, live>>

\* Top of the loop with an empty queue: wait() gives the mutex up.
Wait(t) ==
    /\ pc[t] = "acquire"
    /\ ReqQueueLockFree
    /\ reqQueue = <<>>
    /\ pc' = [pc EXCEPT ![t] = "waiting"]
    /\ UNCHANGED <<executor, reqQueue, inDestructor, owner, live>>

\* boost::condition may wake a thread nobody has notified.
SpuriousWakeup(t) ==
    /\ pc[t] = "waiting"
    /\ pc' = [pc EXCEPT ![t] = "woken"]
    /\ UNCHANGED <<executor, reqQueue, inDestructor, owner, live>>

\* wait() returns with req_queue_lock held.
WaitReturns(t) ==
    /\ pc[t] = "woken"
    /\ ReqQueueLockFree
    /\ pc' = [pc EXCEPT ![t] = "testing"]
    /\ UNCHANGED <<executor, reqQueue, inDestructor, owner, live>>

\* is_being_destructed() gave TRUE.
ExitThread(t) ==
    /\ pc[t] = "testing"
    /\ DestructorLockFree
    /\ inDestructor
    /\ pc' = [pc EXCEPT ![t] = "exited"]
    /\ UNCHANGED <<executor, reqQueue, inDestructor, owner, live>>

\* It gave FALSE, and another thread was faster or the wakeup was spurious.
WaitAgain(t) ==
    /\ pc[t] = "testing"
    /\ DestructorLockFree
    /\ ~inDestructor
    /\ reqQueue = <<>>
    /\ pc' = [pc EXCEPT ![t] = "acquire"]
    /\ UNCHANGED <<executor, reqQueue, inDestructor, owner, live>>

\* It gave FALSE and there is a request.
TakeAfterWait(t) ==
    /\ pc[t] = "testing"
    /\ DestructorLockFree
    /\ ~inDestructor
    /\ reqQueue # <<>>
    /\ PopFront(t)
    /\ UNCHANGED <<inDestructor, owner, live>>

\* process_actual_execution(): whatever the method throws, the response is
\* scheduled exactly once.
ScheduleResponse(t) ==
    /\ pc[t] = "run"
    /\ pc' = [pc EXCEPT ![t] = "retire"]
    /\ UNCHANGED <<executor, reqQueue, inDestructor, owner, live>>

\* executor_to_delete goes out of scope: ~Pool_executor() interrupts the server.
DeleteExecutor(t) ==
    /\ pc[t] = "retire"
    /\ live' = live \ {executor[t]}
    /\ executor' = [executor EXCEPT ![t] = None]
    /\ pc' = [pc EXCEPT ![t] = "acquire"]
    /\ UNCHANGED <<reqQueue, inDestructor, owner>>

-----------------------------------------------------------------------------
\* ~Pool_executor_factory(): destruction_started() locks destructor_lock and
\* sets the flag ...
StartDestruction ==
    /\ owner = "serving"
    /\ inDestructor' = TRUE
    /\ owner' = "notify"
    /\ UNCHANGED <<pc, executor, reqQueue, live>>

\* ... then locks req_queue_lock, wakes every waiting thread, and returns.
NotifyAll ==
    /\ owner = "notify"
    /\ ReqQueueLockFree
    /\ pc' = [t \in Threads |-> IF pc[t] = "waiting" THEN "woken" ELSE pc[t]]
    /\ owner' = "join"
    /\ UNCHANGED <<executor, reqQueue, inDestructor, live>>

\* threads.join_all() returns when every created thread has exited.
JoinAll ==
    /\ owner = "join"
    /\ \A t \in Threads : pc[t] \in {"unborn", "exited"}
    /\ owner' = "drain"
    /\ UNCHANGED <<pc, executor, reqQueue, inDestructor, live>>

\* util::delete_ptrs(req_queue): the executors nobody started are deleted.
DeleteQueued ==
    /\ owner = "drain"
    /\ live' = live \ ToSet(reqQueue)
    /\ reqQueue' = <<>>
    /\ owner' = "done"
    /\ UNCHANGED <<pc, executor, inDestructor>>

-----------------------------------------------------------------------------
\* The steps of a pool thread that the scheduler owes it.
ThreadStep(t) ==
    \/ TakeRequest(t) \/ Wait(t) \/ WaitReturns(t)
    \/ ExitThread(t) \/ WaitAgain(t) \/ TakeAfterWait(t)
    \/ ScheduleResponse(t) \/ DeleteExecutor(t)

\* The steps of the destructor once it runs.
DestructorStep == NotifyAll \/ JoinAll \/ DeleteQueued

Next ==
    \/ \E t \in Threads : AddThread(t) \/ ThreadStep(t) \/ SpuriousWakeup(t)
    \/ \E e \in Executors : RegisterExecutor(e)
    \/ StartDestruction
    \/ DestructorStep

Spec == Init /\ [][Next]_vars

\* The operating system runs every thread, methods return, and the destructor
\* goes on.  Nobody has to add threads, register executors, wake a thread
\* spuriously or destroy the factory.
Fairness ==
    /\ \A t \in Threads : WF_vars(ThreadStep(t))
    /\ WF_vars(DestructorStep)

FairSpec == Spec /\ Fairness

-----------------------------------------------------------------------------
TypeOK ==
    /\ pc \in [Threads -> ThreadStates]
    /\ executor \in [Threads -> Executors \cup {None}]
    /\ reqQueue \in Seq(Executors)
    /\ inDestructor \in BOOLEAN
    /\ owner \in OwnerStates
    /\ live \subseteq Executors

\* The executors the pool threads hold in their local variable.
Held == {executor[t] : t \in Threads} \ {None}

\* Every allocated executor is in exactly one place: once in the queue or with
\* one thread, so it is executed and deleted by one thread, never touched after
\* `delete' and never forgotten (executor.cc:111-115, 163-168, 128-136).
QueueDistinct == \A i, j \in DOMAIN reqQueue : reqQueue[i] = reqQueue[j] => i = j
HeldByOne     == \A t, u \in Threads :
                    executor[t] = executor[u] /\ executor[t] # None => t = u
HeldNotQueued == Held \cap ToSet(reqQueue) = {}
NothingLost   == live = Held \cup ToSet(reqQueue)

OneOwner == QueueDistinct /\ HeldByOne /\ HeldNotQueued /\ NothingLost

\* A thread sleeps only while every queued request has a thread of its own on
\* the way to it: notify_one() once per push_back() is enough, even with
\* spurious wakeups and with threads that take a request without having slept
\* (executor.cc:98-109, 163-168).
OnTheWay == At("woken") \cup At("testing")

NoIdleWhileWork ==
    ~inDestructor /\ At("waiting") # {} => Len(reqQueue) <= Cardinality(OnTheWay)

\* The destructor drops the queue when no thread can look at it any more, and
\* when it returns no executor exists (executor.cc:128-136).
CleanDestruction ==
    /\ owner \in {"drain", "done"} => \A t \in Threads : pc[t] \in {"unborn", "exited"}
    /\ owner = "done" => live = {}

\* Executors have one owner while the factory serves, and none when it is gone.
OwnedAndFreed == OneOwner /\ CleanDestruction

-----------------------------------------------------------------------------
\* The pool implements the abstract queue of jobs, fairness included.
Queue == INSTANCE JobQueue WITH
            Jobs <- Executors, Workers <- Threads, NoJob <- None,
            pending <- reqQueue, job <- executor, closed <- inDestructor,
            answered <- [t \in Threads |-> pc[t] = "retire"]

ImplementsJobQueue == Queue!FairSpec

-----------------------------------------------------------------------------
\* "Fix thread-leaks in Pool_executor_factory" (NEWS:188): the destructor joins
\* every thread and returns.  It may never do so: the code tests in_destructor
\* only after a wait(), so a thread that was not waiting when notify_all() came
\* sleeps for ever and join_all() never returns; and destruction_started() wants
\* req_queue_lock with destructor_lock held, a woken thread wants them in the
\* other order.
DestructorReturns == inDestructor ~> owner = "done"

=============================================================================
