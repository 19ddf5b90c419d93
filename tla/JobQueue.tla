------------------------------ MODULE JobQueue ------------------------------
(***************************************************************************)
(* What the pool of threads promises to the server: the abstract           *)
(* specification of Pool_executor_factory.  There are no locks, condition  *)
(* variables or program counters here: only the queue of jobs (executors), *)
(* the job every thread holds, and whether the factory is being destroyed. *)
(*                                                                         *)
(* A job is an address of an executor: it is handed over once, started in  *)
(* the order of hand-over, answered once, and released by the thread that  *)
(* answered it, after which the address may be used for another executor.  *)
(***************************************************************************)
EXTENDS Sequences, SequencesExt

CONSTANTS Jobs,      \* the executors
          Workers,   \* the threads of the pool
          NoJob      \* what a thread without an executor holds

VARIABLES pending,   \* the executors nobody has started, in hand-over order
          job,       \* the executor each thread holds
          answered,  \* has the thread scheduled the response of its executor
          closed     \* is the factory being destroyed

jqVars == <<pending, job, answered, closed>>

LiveJobs == ToSet(pending) \cup ({job[w] : w \in Workers} \ {NoJob})

-----------------------------------------------------------------------------
Init ==
    /\ pending = <<>>
    /\ job = [w \in Workers |-> NoJob]
    /\ answered = [w \in Workers |-> FALSE]
    /\ closed = FALSE

\* The server hands an executor over.
Submit(j) ==
    /\ ~closed
    /\ j \notin LiveJobs
    /\ pending' = Append(pending, j)
    /\ UNCHANGED <<job, answered>> /\ closed' = closed

\* A free thread starts the oldest job.
Start(w) ==
    /\ job[w] = NoJob
    /\ pending # <<>>
    /\ job' = [job EXCEPT ![w] = Head(pending)]
    /\ pending' = Tail(pending)
    /\ UNCHANGED <<answered>> /\ closed' = closed

\* The method has returned or thrown: its response is given to the server.
Answer(w) ==
    /\ job[w] # NoJob
    /\ ~answered[w]
    /\ answered' = [answered EXCEPT ![w] = TRUE]
    /\ UNCHANGED <<pending, job>> /\ closed' = closed

\* The answered executor is deleted and the thread is free again.
Retire(w) ==
    /\ answered[w]
    /\ job' = [job EXCEPT ![w] = NoJob]
    /\ answered' = [answered EXCEPT ![w] = FALSE]
    /\ UNCHANGED <<pending>> /\ closed' = closed

Close ==
    /\ ~closed
    /\ closed' = TRUE
    /\ UNCHANGED <<pending, job, answered>>

\* Jobs are dropped only by the destructor, and only when no thread has one.
Discard ==
    /\ closed
    /\ \A w \in Workers : job[w] = NoJob
    /\ pending' = <<>>
    /\ UNCHANGED <<job, answered>> /\ closed' = closed

Next ==
    \/ \E j \in Jobs : Submit(j)
    \/ \E w \in Workers : Start(w) \/ Answer(w) \/ Retire(w)
    \/ Close
    \/ Discard

Spec == Init /\ [][Next]_jqVars

\* Until the factory is destroyed a pending job is started when a thread is
\* free; what is started is answered and released in any case.
StartOpen == ~closed /\ \E w \in Workers : Start(w)

FairSpec ==
    /\ Spec
    /\ WF_jqVars(StartOpen)
    /\ \A w \in Workers : WF_jqVars(Answer(w)) /\ WF_jqVars(Retire(w))
=============================================================================
