-------------------------- MODULE HttpServerProofs --------------------------
(***************************************************************************)
(* Proofs about HttpServer for any number of connections, pool threads and *)
(* callers of set_exit_flag().                                             *)
(*                                                                         *)
(* Most properties say something of a connection's place: the reactor's    *)
(* list, the copy poll() works on, the batch, or an executor.  They are    *)
(* inductive together with two facts: an executor is in one place          *)
(* (ExecutorsOwned), and the copy and the batch are empty outside the      *)
(* phases they belong to (LoopInOrder).  That a result is not cut off      *)
(* needs two more: nobody is reported for input who is not registered for  *)
(* it, and a connection with a result is registered for output only.       *)
(***************************************************************************)
EXTENDS HttpServer, TLAPS

-----------------------------------------------------------------------------
(* What appending to a queue and taking its first element do to the set of *)
(* its elements *)

\* An element is appended.
LEMMA AppendFacts ==
    ASSUME NEW S, NEW s \in Seq(S), NEW e \in S
    PROVE  /\ Append(s, e) \in Seq(S)
           /\ Len(Append(s, e)) = Len(s) + 1
           /\ Append(s, e) # <<>>
           /\ ToSet(Append(s, e)) = ToSet(s) \cup {e}
<1>1. /\ Append(s, e) \in Seq(S)
      /\ Len(Append(s, e)) = Len(s) + 1
      /\ \A i \in 1..Len(s) : Append(s, e)[i] = s[i]
      /\ Append(s, e)[Len(s) + 1] = e
      /\ Append(s, e) # <<>>
  OBVIOUS
<1>2. DOMAIN Append(s, e) = DOMAIN s \cup {Len(s) + 1}
  BY <1>1
<1>3. ToSet(Append(s, e)) = ToSet(s) \cup {e}
  BY <1>1, <1>2 DEF ToSet
<1> QED
  BY <1>1, <1>3

\* The first element of a queue without repetitions is taken.
LEMMA PopFacts ==
    ASSUME NEW S, NEW s \in Seq(S), s # <<>>,
           \A i, j \in DOMAIN s : s[i] = s[j] => i = j
    PROVE  /\ Head(s) \in S
           /\ Tail(s) \in Seq(S)
           /\ Len(Tail(s)) = Len(s) - 1
           /\ Head(s) \in ToSet(s)
           /\ ToSet(Tail(s)) = ToSet(s) \ {Head(s)}
           /\ \A i, j \in DOMAIN Tail(s) : Tail(s)[i] = Tail(s)[j] => i = j
<1>1. /\ Head(s) = s[1]
      /\ Head(s) \in S
      /\ Tail(s) \in Seq(S)
      /\ Len(s) \in Nat \ {0}
      /\ Len(Tail(s)) = Len(s) - 1
      /\ \A i \in 1..Len(Tail(s)) : Tail(s)[i] = s[i + 1]
  OBVIOUS
<1>2. DOMAIN s = 1..Len(s) /\ DOMAIN Tail(s) = 1..(Len(s) - 1)
  BY <1>1
<1>3. Head(s) \in ToSet(s)
  BY <1>1, <1>2 DEF ToSet
<1>4. ASSUME NEW x PROVE x \in ToSet(Tail(s)) <=> x \in ToSet(s) \ {Head(s)}
  <2>1. ASSUME x \in ToSet(Tail(s)) PROVE x \in ToSet(s) \ {Head(s)}
    <3>1. PICK i \in 1..(Len(s) - 1) : x = Tail(s)[i]
      BY <2>1, <1>2 DEF ToSet
    <3>2. x = s[i + 1] /\ i + 1 \in DOMAIN s /\ i + 1 # 1 /\ 1 \in DOMAIN s
      BY <3>1, <1>1, <1>2
    <3> QED
      BY <3>2, <1>1 DEF ToSet
  <2>2. ASSUME x \in ToSet(s) \ {Head(s)} PROVE x \in ToSet(Tail(s))
    <3>1. PICK i \in 1..Len(s) : x = s[i]
      BY <2>2, <1>2 DEF ToSet
    <3>2. i # 1
      BY <3>1, <2>2, <1>1
    <3>3. i - 1 \in 1..(Len(s) - 1) /\ Tail(s)[i - 1] = s[(i - 1) + 1] /\ (i - 1) + 1 = i
      BY <3>1, <3>2, <1>1
    <3> QED
      BY <3>1, <3>3, <1>2 DEF ToSet
  <2> QED
    BY <2>1, <2>2
<1>5. ASSUME NEW i \in DOMAIN Tail(s), NEW j \in DOMAIN Tail(s), Tail(s)[i] = Tail(s)[j]
      PROVE  i = j
  <2>1. s[i + 1] = s[j + 1] /\ i + 1 \in DOMAIN s /\ j + 1 \in DOMAIN s /\ i \in Int /\ j \in Int
    BY <1>5, <1>1, <1>2
  <2> QED
    BY <2>1
<1> QED
  BY <1>1, <1>3, <1>4, <1>5

-----------------------------------------------------------------------------
Sockets == Conns \cup {Acceptor, Stopper}

\* An executor is once in the queue or with one thread, and has a connection
\* until it is answered.
QueuedOnce  == \A i, j \in DOMAIN pending : pending[i] = pending[j] => i = j
HeldOnce    == \A t, u \in Threads : job[t] = job[u] /\ job[t] # None => t = u
HeldOrQueued == \A t \in Threads : job[t] \notin ToSet(pending)
AnswersHeld == \A t \in Threads : answered[t] => job[t] # None
HasConnection == \A e \in Unanswered : conn[e] \in Conns

ExecutorsOwned ==
    /\ QueuedOnce /\ HeldOnce /\ HeldOrQueued /\ AnswersHeld /\ HasConnection

\* What the loop holds depends on its phase; the interrupter is in the batch only
\* with a byte to read.
LoopInOrder ==
    /\ revents = NoEvents
    /\ phase # "poll" => polled = NoEvents
    /\ phase # "system" => batch = NoEvents
    /\ working # "loop" => phase = "idle"
    /\ batch[Stopper] # {} => bytes > 0

IInv ==
    /\ TypeOK
    /\ ExecutorsOwned
    /\ LoopInOrder
    /\ ReactorOrExecutor
    /\ OneRequestAtATime
    /\ EventsHaveHandlers
    /\ OutputHasResponse
    /\ NoMissedResponse
    /\ NoMissedExit

-----------------------------------------------------------------------------
(* Executors *)

\* A connection executes when an executor that is to answer has it.
LEMMA ExecutingFacts ==
    ASSUME NEW c
    PROVE  Executing(c) <=> \E e \in Unanswered : conn[e] = c
<1>1. ASSUME Executing(c) PROVE \E e \in Unanswered : conn[e] = c
  BY <1>1 DEF Executing, Unanswered, ToSet
<1>2. ASSUME NEW e \in Unanswered, conn[e] = c PROVE Executing(c)
  BY <1>2 DEF Executing, Unanswered, ToSet
<1> QED
  BY <1>1, <1>2

\* The same of the state after a step.
LEMMA ExecutingFactsAfter ==
    ASSUME NEW c
    PROVE  Executing(c)' <=> \E e \in Unanswered' : conn'[e] = c
<1>1. ASSUME Executing(c)' PROVE \E e \in Unanswered' : conn'[e] = c
  BY <1>1 DEF Executing, Unanswered, ToSet
<1>2. ASSUME NEW e \in Unanswered', conn'[e] = c PROVE Executing(c)'
  BY <1>2 DEF Executing, Unanswered, ToSet
<1> QED
  BY <1>1, <1>2

\* A step that changes nothing of the pool.
LEMMA PoolUnchanged ==
    ASSUME IInv, UNCHANGED poolState
    PROVE  /\ ExecutorsOwned' /\ OneRequestAtATime'
           /\ \A c : Executing(c)' <=> Executing(c)
           /\ pending' \in Seq(Executors) /\ job' \in [Threads -> Executors \cup {None}]
           /\ answered' \in [Threads -> BOOLEAN]
           /\ conn' \in [Executors -> Conns \cup {NoConn}]
<1>1. pending' = pending /\ job' = job /\ answered' = answered /\ conn' = conn
  BY DEF poolState
<1>2. ExecutorsOwned' /\ OneRequestAtATime'
  BY <1>1 DEF IInv, ExecutorsOwned, QueuedOnce, HeldOnce, HeldOrQueued, AnswersHeld,
              HasConnection, OneRequestAtATime, Unanswered
<1>3. \A c : Executing(c)' <=> Executing(c)
  BY <1>1 DEF Executing
<1> QED
  BY <1>1, <1>2, <1>3 DEF IInv, TypeOK

\* A step that moves no connection between reactor and executors.
LEMMA PlaceUnchanged ==
    ASSUME IInv, UNCHANGED poolState, UNCHANGED alloc,
           \A c \in Conns : mask'[c] # {} <=> mask[c] # {}
    PROVE  ReactorOrExecutor'
  BY PoolUnchanged DEF IInv, ReactorOrExecutor

-----------------------------------------------------------------------------
(* The loop *)

LEMMA SocketFacts ==
    /\ Acceptor \in Sockets /\ Stopper \in Sockets /\ Acceptor # Stopper
    /\ \A c \in Conns : c \in Sockets /\ c # Acceptor /\ c # Stopper
  BY ServerAssumption DEF Sockets

\* Handlers run in the phase "system" only, since no event is ever faked here.
LEMMA DispatchFacts ==
    ASSUME IInv, NEW h \in Sockets, Dispatch(h)
    PROVE  /\ phase = "system" /\ working = "loop"
           /\ mask[h] # {}
           /\ polled = NoEvents /\ revents = NoEvents
           /\ batch' \in EventMap /\ phase' \in Phases
           /\ batch'[h] = {} /\ \A g \in Sockets \ {h} : batch'[g] = batch[g]
           /\ phase' = "system" \/ (phase' = "idle" /\ batch' = NoEvents)
<1>1. batch \in [Sockets -> SUBSET Events]
  BY DEF IInv, TypeOK, ReactorTypeOK, EventMap, Sockets
<1>2. phase = "system" /\ working = "loop" /\ polled = NoEvents /\ revents = NoEvents
  <2>1. batch # NoEvents
    BY <1>1 DEF Dispatch, NoEvents, Sockets
  <2> QED
    BY <2>1 DEF IInv, LoopInOrder
<1>3. mask[h] # {}
  BY DEF IInv, EventsHaveHandlers, Dispatch, Sockets
<1>4. batch' = [batch EXCEPT ![h] = {}]
  BY DEF Dispatch
<1>5. batch' \in [Sockets -> SUBSET Events]
  BY <1>1, <1>4
<1>6. phase' = "system" \/ (phase' = "idle" /\ batch' = NoEvents)
  BY <1>2 DEF Dispatch
<1>7. phase' \in Phases /\ batch' \in EventMap
  BY <1>5, <1>6 DEF Phases, EventMap, Sockets
<1> QED
  BY <1>1, <1>2, <1>3, <1>4, <1>6, <1>7

\* What every handler leaves of the loop, as long as it unregisters nobody else
\* and does not empty the interrupter while it is in the batch.
LEMMA LoopAfterDispatch ==
    ASSUME IInv, NEW h \in Sockets, Dispatch(h),
           revents' = NoEvents, UNCHANGED <<polled, working>>,
           h = Stopper \/ bytes' = bytes,
           \A g \in Sockets \ {h} : mask[g] # {} => mask'[g] # {}
    PROVE  /\ LoopInOrder' /\ EventsHaveHandlers'
           /\ NoMissedResponse' /\ NoMissedExit'
<1> USE DispatchFacts
<1>0. Stopper \in Sockets /\ Sockets = Conns \cup {Acceptor, Stopper}
  BY SocketFacts DEF Sockets
<1>1. batch'[Stopper] # {} => bytes' > 0
  BY <1>0 DEF IInv, LoopInOrder
<1>2. LoopInOrder'
  <2>1. NoEvents' = NoEvents BY DEF NoEvents
  <2> QED
    BY <1>1, <2>1 DEF LoopInOrder
<1>3. EventsHaveHandlers'
  <2>1. polled' = [g \in Sockets |-> {}]
    BY <1>0 DEF NoEvents, Sockets
  <2>2. ASSUME NEW g \in Sockets, batch'[g] # {} PROVE mask'[g] # {}
    BY <1>0, <2>2 DEF IInv, EventsHaveHandlers
  <2> QED
    BY <1>0, <2>1, <2>2 DEF EventsHaveHandlers
<1>4. NoMissedResponse' /\ NoMissedExit'
  BY DEF NoMissedResponse, NoMissedExit
<1> QED
  BY <1>2, <1>3, <1>4

\* What the calls on the list of handlers return.
LEMMA RegisterFacts ==
    ASSUME NEW list \in EventMap, NEW h \in Sockets, NEW ev \in Events
    PROVE  /\ RegisterIn(list, h, ev) \in EventMap
           /\ RegisterIn(list, h, ev)[h] = list[h] \cup {ev}
           /\ RegisterIn(list, h, ev)[h] # {}
           /\ \A g \in Sockets \ {h} : RegisterIn(list, h, ev)[g] = list[g]
<1>1. list \in [Sockets -> SUBSET Events]
  BY DEF EventMap, Sockets
<1>2. RegisterIn(list, h, ev) \in [Sockets -> SUBSET Events]
  BY <1>1 DEF RegisterIn
<1> QED
  BY <1>1, <1>2 DEF EventMap, Sockets, RegisterIn

LEMMA UnregisterFacts ==
    ASSUME NEW list \in EventMap, NEW h \in Sockets
    PROVE  /\ UnregisterIn(list, h) \in EventMap
           /\ UnregisterIn(list, h)[h] = {}
           /\ \A g \in Sockets \ {h} : UnregisterIn(list, h)[g] = list[g]
           /\ \A ev : UnregisterEventIn(list, h, ev) = UnregisterIn(list, h)
<1>1. list \in [Sockets -> SUBSET Events]
  BY DEF EventMap, Sockets
<1>2. UnregisterIn(list, h) \in [Sockets -> SUBSET Events]
  BY <1>1 DEF UnregisterIn
<1> QED
  BY <1>1, <1>2 DEF EventMap, Sockets, UnregisterIn, UnregisterEventIn

\* Faked events: there are none to drop.
LEMMA NothingToDrop ==
    ASSUME IInv, NEW h \in Sockets, DropRevents(h)
    PROVE  revents' = NoEvents
  BY DEF IInv, LoopInOrder, DropRevents, NoEvents, Sockets

LEMMA EventFacts == "INPUT" \in Events /\ "OUTPUT" \in Events
  BY DEF Events

LEMMA NoEventsFacts ==
    /\ NoEvents \in EventMap
    /\ \A h \in Sockets : NoEvents[h] = {}
  BY DEF NoEvents, EventMap, Sockets

-----------------------------------------------------------------------------
(* Steps of work() that call no handler *)

\* A connection's registration is not touched.
LEMMA OutputUnchanged ==
    ASSUME IInv, UNCHANGED response, \A c \in Conns : mask'[c] = mask[c]
    PROVE  OutputHasResponse'
  BY DEF IInv, OutputHasResponse

LEMMA WorkBeginsStep ==
    ASSUME IInv, WorkBegins
    PROVE  IInv'
<1> USE DEF WorkBegins
<1>1. TypeOK /\ mask \in EventMap BY DEF IInv, TypeOK, ReactorTypeOK
<1>2. phase = "idle" /\ phase' = "idle" BY DEF IInv, LoopInOrder
<1>3. /\ mask' \in EventMap
      /\ \A h \in Sockets : mask[h] # {} => mask'[h] # {}
      /\ \A c \in Conns : mask'[c] = mask[c]
  <2>1. mask' = RegisterIn(mask, Acceptor, "INPUT") OBVIOUS
  <2>2. Acceptor \in Sockets /\ "INPUT" \in Events
    BY SocketFacts, EventFacts
  <2>3. mask' \in EventMap
    BY <1>1, <2>1, <2>2, RegisterFacts
  <2>4. \A h \in Sockets \ {Acceptor} : mask'[h] = mask[h]
    BY <1>1, <2>1, <2>2, RegisterFacts
  <2>5. mask'[Acceptor] # {}
    BY <1>1, <2>1, <2>2, RegisterFacts
  <2> QED
    BY <2>3, <2>4, <2>5, SocketFacts
<1>4. TypeOK'
  BY <1>1, <1>3 DEF TypeOK, ReactorTypeOK, poolState, connState, clientState
<1>5. LoopInOrder' /\ NoMissedResponse' /\ NoMissedExit'
  BY <1>2 DEF IInv, LoopInOrder, NoMissedResponse, NoMissedExit, NoEvents
<1>6. EventsHaveHandlers'
  BY <1>3 DEF IInv, EventsHaveHandlers, Sockets
<1>7. ReactorOrExecutor' /\ OutputHasResponse'
  BY <1>3, PlaceUnchanged, OutputUnchanged DEF connState
<1> QED
  BY <1>4, <1>5, <1>6, <1>7, PoolUnchanged DEF IInv

LEMMA LoopGoesOnStep ==
    ASSUME IInv, LoopGoesOn
    PROVE  IInv'
<1> USE DEF LoopGoesOn, EnterHandleEvents
<1>1. TypeOK BY DEF IInv
<1>2. batch' = NoEvents /\ polled' = NoEvents /\ mask' = mask
  BY DEF IInv, LoopInOrder
<1>3. TypeOK'
  BY <1>1, <1>2, NoEventsFacts
     DEF TypeOK, ReactorTypeOK, Phases, poolState, serverState, connState, clientState
<1>4. LoopInOrder' /\ EventsHaveHandlers'
  BY <1>2, NoEventsFacts, SocketFacts
     DEF IInv, LoopInOrder, EventsHaveHandlers, NoEvents, Sockets, serverState
<1>5. NoMissedResponse' /\ NoMissedExit'
  BY DEF NoMissedResponse, NoMissedExit, serverState
<1>6. ReactorOrExecutor' /\ OutputHasResponse'
  BY <1>2, PlaceUnchanged, OutputUnchanged DEF connState
<1> QED
  BY <1>3, <1>4, <1>5, <1>6, PoolUnchanged DEF IInv

LEMMA LeaveLoopStep ==
    ASSUME IInv, LeaveLoop
    PROVE  IInv'
<1> USE DEF LeaveLoop
<1>1. TypeOK /\ mask \in EventMap BY DEF IInv, TypeOK, ReactorTypeOK
<1>2. mask' \in EventMap /\ \A c \in Conns : mask'[c] = mask[c]
  <2>1. mask' = UnregisterIn(mask, Acceptor) OBVIOUS
  <2>2. Acceptor \in Sockets /\ "INPUT" \in Events
    BY SocketFacts, EventFacts
  <2>3. mask' \in EventMap
    BY <1>1, <2>1, <2>2, UnregisterFacts
  <2>4. \A h \in Sockets \ {Acceptor} : mask'[h] = mask[h]
    BY <1>1, <2>1, <2>2, UnregisterFacts
  <2> QED
    BY <2>3, <2>4, SocketFacts
<1>3. revents' = NoEvents /\ polled' = NoEvents /\ batch' = NoEvents /\ phase' = "idle"
  BY NothingToDrop, SocketFacts DEF IInv, LoopInOrder
<1>4. TypeOK'
  BY <1>1, <1>2, <1>3, NoEventsFacts
     DEF TypeOK, ReactorTypeOK, Phases, poolState, connState
<1>5. LoopInOrder' /\ EventsHaveHandlers'
  BY <1>3, NoEventsFacts, SocketFacts
     DEF LoopInOrder, EventsHaveHandlers, NoEvents, Sockets
<1>6. NoMissedResponse' /\ NoMissedExit'
  BY <1>3 DEF NoMissedResponse, NoMissedExit
<1>7. ReactorOrExecutor' /\ OutputHasResponse'
  BY <1>2, PlaceUnchanged, OutputUnchanged DEF connState
<1> QED
  BY <1>4, <1>5, <1>6, <1>7, PoolUnchanged DEF IInv

LEMMA WorkReturnsStep ==
    ASSUME IInv, WorkReturns
    PROVE  IInv'
<1> USE DEF WorkReturns, reactorState
<1>1. phase = "idle" BY DEF IInv, LoopInOrder
<1>2. TypeOK'
  BY DEF IInv, TypeOK, ReactorTypeOK, poolState, connState, clientState
<1>3. LoopInOrder' /\ EventsHaveHandlers' /\ NoMissedResponse' /\ NoMissedExit'
  BY <1>1 DEF IInv, LoopInOrder, EventsHaveHandlers, NoMissedResponse, NoMissedExit, NoEvents
<1>4. ReactorOrExecutor' /\ OutputHasResponse'
  BY PlaceUnchanged, OutputUnchanged DEF connState
<1> QED
  BY <1>2, <1>3, <1>4, PoolUnchanged DEF IInv

\* handle_events() copies the list and calls poll().
LEMMA CopyHandlersStep ==
    ASSUME IInv, CopyHandlers, UNCHANGED <<poolState, serverState, connState, clientState>>
    PROVE  IInv'
<1> USE DEF CopyHandlers
<1>1. TypeOK'
  BY DEF IInv, TypeOK, ReactorTypeOK, Phases, poolState, serverState, connState, clientState
<1>2. LoopInOrder' /\ EventsHaveHandlers'
  BY NoEventsFacts, SocketFacts
     DEF IInv, LoopInOrder, EventsHaveHandlers, NoEvents, Sockets, serverState
<1>3. NoMissedResponse' /\ NoMissedExit'
  BY DEF IInv, NoMissedResponse, NoMissedExit, serverState
<1>4. ReactorOrExecutor' /\ OutputHasResponse'
  BY PlaceUnchanged, OutputUnchanged DEF connState
<1> QED
  BY <1>1, <1>2, <1>3, <1>4, PoolUnchanged DEF IInv

\* What is ready has been polled, and the interrupter is ready with a byte.
LEMMA ReadyFacts ==
    ASSUME IInv
    PROVE  /\ Ready \in EventMap
           /\ \A h \in Sockets : Ready[h] # {} => polled[h] # {}
           /\ Ready[Stopper] # {} => bytes > 0
<1>1. polled \in [Sockets -> SUBSET Events]
  BY DEF IInv, TypeOK, ReactorTypeOK, EventMap, Sockets
<1>2. ASSUME NEW h \in Sockets
      PROVE  Ready[h] \subseteq Events /\ (Ready[h] # {} => polled[h] # {})
  <2>1. CASE polled[h] = {}
    <3>1. Ready[h] = {} BY <2>1 DEF Ready, Sockets
    <3> QED BY <3>1
  <2>2. CASE polled[h] # {}
    <3>1. CASE h = Stopper
      BY <2>2, <3>1, EventFacts DEF Ready, Sockets
    <3>2. CASE h = Acceptor
      BY <2>2, <3>2, EventFacts, SocketFacts DEF Ready, Sockets
    <3>3. CASE h # Stopper /\ h # Acceptor
      <4>1. Ready[h] = {ev \in polled[h] : ev = "INPUT" => unread[h] \/ peer[h] # "open"}
                       \cup (IF peer[h] = "reset" THEN {"OUTPUT"} ELSE {})
        BY <2>2, <3>3 DEF Ready, Sockets
      <4> QED
        BY <1>1, <2>2, <4>1, EventFacts
    <3> QED
      BY <3>1, <3>2, <3>3
  <2> QED
    BY <2>1, <2>2
<1>3. Ready[Stopper] # {} => bytes > 0
  BY SocketFacts DEF Ready, Sockets
<1>4. Ready \in [Sockets -> SUBSET Events]
  BY <1>2 DEF Ready, Sockets
<1> QED
  BY <1>2, <1>3, <1>4 DEF EventMap, Sockets

LEMMA PollReturnsStep ==
    ASSUME IInv, PollReturns(Ready), UNCHANGED <<poolState, serverState, connState, clientState>>
    PROVE  IInv'
<1> USE DEF PollReturns
<1>1. TypeOK'
  BY ReadyFacts, NoEventsFacts
     DEF IInv, TypeOK, ReactorTypeOK, Phases, poolState, serverState, connState, clientState
<1>2. LoopInOrder'
  <2>1. batch'[Stopper] # {} => bytes' > 0
    BY ReadyFacts DEF serverState
  <2> QED
    BY <2>1 DEF IInv, LoopInOrder, NoEvents, serverState
<1>3. EventsHaveHandlers'
  BY ReadyFacts, NoEventsFacts DEF IInv, EventsHaveHandlers, Sockets
<1>4. NoMissedResponse' /\ NoMissedExit'
  BY DEF NoMissedResponse, NoMissedExit
<1>5. ReactorOrExecutor' /\ OutputHasResponse'
  BY PlaceUnchanged, OutputUnchanged DEF connState
<1> QED
  BY <1>1, <1>2, <1>3, <1>4, <1>5, PoolUnchanged DEF IInv

LEMMA SignalStep ==
    ASSUME IInv, Signal
    PROVE  IInv'
<1> USE DEF Signal, PollInterrupted
<1>1. TypeOK'
  BY NoEventsFacts
     DEF IInv, TypeOK, ReactorTypeOK, Phases, poolState, serverState, connState, clientState
<1>2. LoopInOrder' /\ EventsHaveHandlers'
  BY NoEventsFacts, SocketFacts
     DEF IInv, LoopInOrder, EventsHaveHandlers, NoEvents, Sockets, serverState
<1>3. NoMissedResponse' /\ NoMissedExit'
  BY DEF NoMissedResponse, NoMissedExit
<1>4. ReactorOrExecutor' /\ OutputHasResponse'
  BY PlaceUnchanged, OutputUnchanged DEF connState
<1> QED
  BY <1>1, <1>2, <1>3, <1>4, PoolUnchanged DEF IInv

-----------------------------------------------------------------------------
(* The interrupter and the acceptor *)

LEMMA StopperInputStep ==
    ASSUME IInv, StopperInput
    PROVE  IInv'
<1> USE DEF StopperInput
<1>1. Dispatch(Stopper) /\ Stopper \in Sockets
  BY SocketFacts DEF DispatchInput
<1>2. bytes \in 0..MaxBytes /\ bytes > 0 /\ MaxBytes \in Nat
  BY ServerAssumption DEF IInv, TypeOK, LoopInOrder, DispatchInput
<1>3. TypeOK'
  BY <1>1, <1>2, DispatchFacts
     DEF IInv, TypeOK, ReactorTypeOK, poolState, connState, clientState
<1>4. LoopInOrder' /\ EventsHaveHandlers' /\ NoMissedResponse' /\ NoMissedExit'
  BY <1>1, LoopAfterDispatch, DispatchFacts
<1>5. ReactorOrExecutor' /\ OutputHasResponse'
  BY PlaceUnchanged, OutputUnchanged DEF connState
<1> QED
  BY <1>3, <1>4, <1>5, PoolUnchanged DEF IInv

LEMMA DenyStep ==
    ASSUME IInv, Deny
    PROVE  IInv'
<1> USE DEF Deny
<1>1. Dispatch(Acceptor) /\ Acceptor \in Sockets
  BY SocketFacts DEF DispatchInput
<1>2. TypeOK'
  BY <1>1, DispatchFacts
     DEF IInv, TypeOK, ReactorTypeOK, poolState, serverState, connState
<1>3. LoopInOrder' /\ EventsHaveHandlers' /\ NoMissedResponse' /\ NoMissedExit'
  BY <1>1, LoopAfterDispatch, DispatchFacts DEF serverState
<1>4. ReactorOrExecutor' /\ OutputHasResponse'
  BY PlaceUnchanged, OutputUnchanged DEF connState
<1> QED
  BY <1>2, <1>3, <1>4, PoolUnchanged DEF IInv

LEMMA AcceptThrowsStep ==
    ASSUME IInv, AcceptThrows
    PROVE  IInv'
<1> USE DEF AcceptThrows
<1>1. TypeOK'
  BY NoEventsFacts
     DEF IInv, TypeOK, ReactorTypeOK, Phases, poolState, connState, clientState
<1>2. LoopInOrder' /\ EventsHaveHandlers'
  BY NoEventsFacts, SocketFacts
     DEF IInv, LoopInOrder, EventsHaveHandlers, NoEvents, Sockets
<1>3. NoMissedResponse' /\ NoMissedExit'
  BY DEF NoMissedResponse, NoMissedExit
<1>4. ReactorOrExecutor' /\ OutputHasResponse'
  BY PlaceUnchanged, OutputUnchanged DEF connState
<1> QED
  BY <1>1, <1>2, <1>3, <1>4, PoolUnchanged DEF IInv

\* The new connection's descriptor was nobody's.
LEMMA AcceptStep ==
    ASSUME IInv, NEW c \in Conns, Accept(c)
    PROVE  IInv'
<1> USE DEF Accept
<1>1. Dispatch(Acceptor) /\ Acceptor \in Sockets /\ c \in Sockets /\ c # Acceptor
  BY SocketFacts DEF DispatchInput
<1>2. /\ mask' \in EventMap /\ mask'[c] # {} /\ mask'[c] = mask[c] \cup {"INPUT"}
      /\ \A h \in Sockets \ {c} : mask'[h] = mask[h]
  <2>1. mask \in EventMap /\ "INPUT" \in Events
    BY EventFacts DEF IInv, TypeOK, ReactorTypeOK
  <2> QED
    BY <1>1, <2>1, RegisterFacts
<1>3. mask[c] = {} /\ ~Executing(c)
  BY DEF IInv, ReactorOrExecutor
<1>4. TypeOK'
  BY <1>1, <1>2, DispatchFacts DEF IInv, TypeOK, ReactorTypeOK, poolState, serverState
<1>5. LoopInOrder' /\ EventsHaveHandlers' /\ NoMissedResponse' /\ NoMissedExit'
  BY <1>1, <1>2, <1>3, LoopAfterDispatch, DispatchFacts DEF serverState
<1>6. ReactorOrExecutor'
  <2>1. ASSUME NEW d \in Conns, d # c
        PROVE  mask'[d] = mask[d] /\ alloc'[d] = alloc[d]
    BY <1>2, <2>1, SocketFacts DEF IInv, TypeOK
  <2>2. alloc'[c] BY DEF IInv, TypeOK
  <2> QED
    BY <1>2, <1>3, <2>1, <2>2, PoolUnchanged DEF IInv, ReactorOrExecutor
<1>7. OutputHasResponse'
  <2>1. \A d \in Conns : "OUTPUT" \in mask'[d] => "OUTPUT" \in mask[d]
    BY <1>2, <1>3, SocketFacts
  <2> QED
    BY <2>1 DEF IInv, OutputHasResponse
<1> QED
  BY <1>4, <1>5, <1>6, <1>7, PoolUnchanged DEF IInv

-----------------------------------------------------------------------------
(* The handlers of a connection *)

\* The object of a registered connection is freed.
LEMMA TerminateStep ==
    ASSUME IInv, NEW c \in Conns, Dispatch(c), Terminate(c)
    PROVE  IInv'
<1> USE DEF Terminate
<1>1. c \in Sockets /\ c # Stopper
  BY SocketFacts
<1>2. /\ mask' \in EventMap /\ mask'[c] = {}
      /\ \A h \in Sockets \ {c} : mask'[h] = mask[h]
  <2>1. mask \in EventMap
    BY DEF IInv, TypeOK, ReactorTypeOK
  <2> QED
    BY <1>1, <2>1, UnregisterFacts
<1>3. revents' = NoEvents
  BY <1>1, NothingToDrop
<1>4. ~Executing(c)
  BY <1>1, DispatchFacts DEF IInv, ReactorOrExecutor
<1>5. TypeOK'
  <2>1. response' \in [Conns -> [kind : Kinds, left : 0..MaxParts]]
    BY ServerAssumption DEF IInv, TypeOK, NoResponse, Kinds
  <2> QED
    BY <1>1, <1>2, <1>3, <2>1, DispatchFacts, NoEventsFacts
       DEF IInv, TypeOK, ReactorTypeOK, poolState, serverState
<1>6. LoopInOrder' /\ EventsHaveHandlers' /\ NoMissedResponse' /\ NoMissedExit'
  BY <1>1, <1>2, <1>3, LoopAfterDispatch, DispatchFacts DEF serverState
<1>7. ReactorOrExecutor'
  <2>1. ASSUME NEW d \in Conns, d # c
        PROVE  mask'[d] = mask[d] /\ alloc'[d] = alloc[d]
    BY <1>2, <2>1, SocketFacts DEF IInv, TypeOK
  <2>2. ~alloc'[c] BY DEF IInv, TypeOK
  <2> QED
    BY <1>2, <1>4, <2>1, <2>2, PoolUnchanged DEF IInv, ReactorOrExecutor
<1>8. OutputHasResponse'
  <2>1. ASSUME NEW d \in Conns, d # c
        PROVE  mask'[d] = mask[d] /\ response'[d] = response[d]
    BY <1>2, <2>1, SocketFacts DEF IInv, TypeOK
  <2> QED
    BY <1>2, <2>1 DEF IInv, OutputHasResponse
<1> QED
  BY <1>5, <1>6, <1>7, <1>8, PoolUnchanged DEF IInv

\* A connection stays registered, and has something to send when it is for output.
LEMMA StaysRegistered ==
    ASSUME IInv, NEW c \in Conns, Dispatch(c),
           UNCHANGED <<poolState, serverState, polled, alloc>>,
           revents' = NoEvents,
           mask' \in EventMap, mask'[c] # {}, \A h \in Sockets \ {c} : mask'[h] = mask[h],
           response' \in [Conns -> [kind : Kinds, left : 0..MaxParts]],
           \A d \in Conns \ {c} : response'[d] = response[d],
           "OUTPUT" \in mask'[c] => response'[c].left > 0,
           keepAlive' \in [Conns -> BOOLEAN], continued' \in [Conns -> BOOLEAN],
           unread' \in [Conns -> BOOLEAN], UNCHANGED <<peer, backlog>>
    PROVE  IInv'
<1>1. c \in Sockets /\ c # Stopper
  BY SocketFacts
<1>2. TypeOK'
  BY <1>1, DispatchFacts, NoEventsFacts
     DEF IInv, TypeOK, ReactorTypeOK, poolState, serverState
<1>3. LoopInOrder' /\ EventsHaveHandlers' /\ NoMissedResponse' /\ NoMissedExit'
  BY <1>1, LoopAfterDispatch, DispatchFacts DEF serverState
<1>4. ReactorOrExecutor'
  <2>1. \A d \in Conns : mask'[d] # {} <=> mask[d] # {}
    BY <1>1, DispatchFacts, SocketFacts
  <2> QED
    BY <2>1, PlaceUnchanged
<1>5. OutputHasResponse'
  BY SocketFacts DEF IInv, OutputHasResponse
<1> QED
  BY <1>2, <1>3, <1>4, <1>5, PoolUnchanged DEF IInv

\* A reply of some kind is put into the buffer and the connection is registered
\* for output.
LEMMA FullFacts ==
    ASSUME IInv, NEW kind \in Kinds, NEW c \in Conns, response' = [response EXCEPT ![c] = Full(kind)]
    PROVE  /\ response' \in [Conns -> [kind : Kinds, left : 0..MaxParts]]
           /\ \A d \in Conns \ {c} : response'[d] = response[d]
           /\ response'[c].left > 0
<1>1. Full(kind) \in [kind : Kinds, left : 0..MaxParts] /\ Full(kind).left > 0
  BY ServerAssumption DEF Full
<1> HIDE DEF Full
<1> QED
  BY <1>1 DEF IInv, TypeOK

LEMMA ReadPartStep ==
    ASSUME IInv, NEW c \in Conns, ReadPart(c)
    PROVE  IInv'
<1> USE DEF ReadPart, Receive, DispatchInput
<1>1. c \in Sockets /\ Dispatch(c)
  BY SocketFacts
<1>2. /\ mask' \in EventMap /\ mask'[c] # {} /\ revents' = NoEvents
      /\ "OUTPUT" \in mask'[c] => response'[c].left > 0
  BY <1>1, DispatchFacts DEF IInv, TypeOK, ReactorTypeOK, OutputHasResponse
<1>3. /\ keepAlive' \in [Conns -> BOOLEAN] /\ continued' \in [Conns -> BOOLEAN]
      /\ unread' \in [Conns -> BOOLEAN]
      /\ response' \in [Conns -> [kind : Kinds, left : 0..MaxParts]]
  BY DEF IInv, TypeOK
<1> QED
  BY <1>1, <1>2, <1>3, StaysRegistered

LEMMA ReadExpectationStep ==
    ASSUME IInv, NEW c \in Conns, ReadExpectation(c)
    PROVE  IInv'
<1> USE DEF ReadExpectation, Receive, DispatchInput
<1>1. c \in Sockets /\ Dispatch(c) /\ mask \in EventMap /\ revents' = NoEvents
  BY SocketFacts, DispatchFacts DEF IInv, TypeOK, ReactorTypeOK
<1>2. mask' \in EventMap /\ mask'[c] # {} /\ \A h \in Sockets \ {c} : mask'[h] = mask[h]
  BY <1>1, RegisterFacts, EventFacts
<1>3. /\ keepAlive' \in [Conns -> BOOLEAN] /\ continued' \in [Conns -> BOOLEAN]
      /\ unread' \in [Conns -> BOOLEAN]
  BY DEF IInv, TypeOK
<1>4. "100" \in Kinds BY DEF Kinds
<1> QED
  BY <1>1, <1>2, <1>3, <1>4, FullFacts, StaysRegistered

LEMMA ReadErrorStep ==
    ASSUME IInv, NEW c \in Conns, ReadError(c)
    PROVE  IInv'
<1> USE DEF ReadError, Receive, DispatchInput
<1>1. c \in Sockets /\ Dispatch(c) /\ mask \in EventMap /\ revents' = NoEvents
  BY SocketFacts, DispatchFacts DEF IInv, TypeOK, ReactorTypeOK
<1>2. mask' \in EventMap /\ mask'[c] # {} /\ \A h \in Sockets \ {c} : mask'[h] = mask[h]
  BY <1>1, RegisterFacts, EventFacts
<1>3. /\ keepAlive' \in [Conns -> BOOLEAN] /\ continued' \in [Conns -> BOOLEAN]
      /\ unread' \in [Conns -> BOOLEAN]
  BY DEF IInv, TypeOK
<1>4. "error" \in Kinds BY DEF Kinds
<1> QED
  BY <1>1, <1>2, <1>3, <1>4, FullFacts, StaysRegistered

LEMMA AnswerAtOnceStep ==
    ASSUME IInv, NEW c \in Conns, AnswerAtOnce(c)
    PROVE  IInv'
<1> USE DEF AnswerAtOnce, ReadRequest, Receive, DispatchInput
<1>1. c \in Sockets /\ Dispatch(c) /\ mask \in EventMap /\ revents' = NoEvents
  BY SocketFacts, NothingToDrop DEF IInv, TypeOK, ReactorTypeOK
<1>2. mask' \in EventMap /\ mask'[c] # {} /\ \A h \in Sockets \ {c} : mask'[h] = mask[h]
  <2> DEFINE list == UnregisterIn(mask, c)
  <2>1. mask' = RegisterIn(list, c, "OUTPUT") /\ list \in EventMap
    BY <1>1, UnregisterFacts
  <2>2. \A h \in Sockets \ {c} : list[h] = mask[h]
    BY <1>1, UnregisterFacts
  <2> HIDE DEF list
  <2> QED
    BY <1>1, <2>1, <2>2, RegisterFacts, EventFacts
<1>3. /\ keepAlive' \in [Conns -> BOOLEAN] /\ continued' \in [Conns -> BOOLEAN]
      /\ unread' \in [Conns -> BOOLEAN]
  BY DEF IInv, TypeOK
<1>4. PICK kind \in Kinds : response' = [response EXCEPT ![c] = Full(kind)]
  BY DEF Kinds
<1> QED
  BY <1>1, <1>2, <1>3, <1>4, FullFacts, StaysRegistered

LEMMA SendPartStep ==
    ASSUME IInv, NEW c \in Conns, SendPart(c)
    PROVE  IInv'
<1> USE DEF SendPart, DispatchOutput
<1>1. c \in Sockets /\ Dispatch(c) /\ mask \in EventMap /\ revents' = NoEvents
  BY SocketFacts, DispatchFacts DEF IInv, TypeOK, ReactorTypeOK
<1>2. mask'[c] # {}
  BY <1>1, DispatchFacts
<1>3. /\ response' \in [Conns -> [kind : Kinds, left : 0..MaxParts]]
      /\ \A d \in Conns \ {c} : response'[d] = response[d]
      /\ response'[c].left > 0
  <2>1. PICK left \in 1..(response[c].left - 1) : response' = [response EXCEPT ![c].left = left]
    OBVIOUS
  <2>2. response[c] \in [kind : Kinds, left : 0..MaxParts] /\ MaxParts \in Nat
    BY ServerAssumption DEF IInv, TypeOK
  <2>3. left \in 0..MaxParts /\ left > 0
    BY <2>1, <2>2
  <2> QED
    BY <2>1, <2>2, <2>3 DEF IInv, TypeOK
<1>4. /\ keepAlive' \in [Conns -> BOOLEAN] /\ continued' \in [Conns -> BOOLEAN]
      /\ unread' \in [Conns -> BOOLEAN]
  BY DEF IInv, TypeOK, clientState
<1> QED
  BY <1>1, <1>2, <1>3, <1>4, StaysRegistered DEF clientState

LEMMA SendAllAndKeepStep ==
    ASSUME IInv, NEW c \in Conns, SendAllAndKeep(c)
    PROVE  IInv'
<1> USE DEF SendAllAndKeep, DispatchOutput
<1>1. c \in Sockets /\ Dispatch(c) /\ mask \in EventMap /\ revents' = NoEvents
  BY SocketFacts, NothingToDrop DEF IInv, TypeOK, ReactorTypeOK
<1>2. /\ mask' \in EventMap /\ mask'[c] = {"INPUT"}
      /\ \A h \in Sockets \ {c} : mask'[h] = mask[h]
  <2> DEFINE list == UnregisterIn(mask, c)
  <2>1. mask' = RegisterIn(list, c, "INPUT") /\ list \in EventMap
    BY <1>1, UnregisterFacts
  <2>2. list[c] = {} /\ \A h \in Sockets \ {c} : list[h] = mask[h]
    BY <1>1, UnregisterFacts
  <2> HIDE DEF list
  <2> QED
    BY <1>1, <2>1, <2>2, RegisterFacts, EventFacts
<1>3. /\ response' \in [Conns -> [kind : Kinds, left : 0..MaxParts]]
      /\ \A d \in Conns \ {c} : response'[d] = response[d]
  BY ServerAssumption DEF IInv, TypeOK, NoResponse, Kinds
<1>4. /\ keepAlive' \in [Conns -> BOOLEAN] /\ continued' \in [Conns -> BOOLEAN]
      /\ unread' \in [Conns -> BOOLEAN]
  BY DEF IInv, TypeOK, clientState
<1> QED
  BY <1>1, <1>2, <1>3, <1>4, StaysRegistered DEF clientState

\* The connection goes from the reactor to a new executor.
LEMMA ExecuteInPoolStep ==
    ASSUME IInv, NEW c \in Conns, ExecuteInPool(c)
    PROVE  IInv'
<1> USE DEF ExecuteInPool, ReadRequest, Receive, DispatchInput
<1> DEFINE e == NewExecutor
<1>1. c \in Sockets /\ c # Stopper /\ Dispatch(c) /\ mask \in EventMap /\ revents' = NoEvents
  BY SocketFacts, NothingToDrop DEF IInv, TypeOK, ReactorTypeOK
<1>2. mask' \in EventMap /\ mask'[c] = {} /\ \A h \in Sockets \ {c} : mask'[h] = mask[h]
  BY <1>1, UnregisterFacts
<1>3. e \in Executors /\ e \notin Pool!LiveJobs
  BY DEF NewExecutor, FreeExecutors
<1>4. /\ pending' = Append(pending, e) /\ job' = job /\ answered' = answered
      /\ conn' = [conn EXCEPT ![e] = c]
  BY DEF Pool!Submit
<1> HIDE DEF e
<1>5. pending' \in Seq(Executors) /\ ToSet(pending') = ToSet(pending) \cup {e}
  BY <1>3, <1>4, AppendFacts DEF IInv, TypeOK
<1>6. e \notin ToSet(pending) /\ \A t \in Threads : job[t] # e
  BY <1>3, ServerAssumption DEF Pool!LiveJobs, Pool!ToSet, ToSet
<1>7. Unanswered' = Unanswered \cup {e} /\ e \notin Unanswered
  BY <1>4, <1>5, <1>6 DEF Unanswered
<1>8. /\ conn' \in [Executors -> Conns \cup {NoConn}] /\ conn'[e] = c
      /\ \A f \in Unanswered : conn'[f] = conn[f]
  <2>1. Unanswered \subseteq Executors
    BY ServerAssumption DEF IInv, TypeOK, Unanswered, ToSet
  <2>2. conn \in [Executors -> Conns \cup {NoConn}]
    BY DEF IInv, TypeOK
  <2>3. \A f \in Executors \ {e} : conn'[f] = conn[f]
    BY <1>4, <2>2
  <2> QED
    BY ZenonT(60), <1>3, <1>4, <1>7, <2>1, <2>2, <2>3
<1>9. ~Executing(c) /\ \A f \in Unanswered : conn[f] # c
  BY <1>1, DispatchFacts, ExecutingFacts DEF IInv, ReactorOrExecutor
<1>10. \A d \in Conns : Executing(d)' <=> Executing(d) \/ d = c
  BY <1>7, <1>8, ExecutingFacts, ExecutingFactsAfter
<1>11. OneRequestAtATime'
  BY <1>7, <1>8, <1>9 DEF IInv, OneRequestAtATime
<1>12. ExecutorsOwned'
  <2>1. QueuedOnce'
    <3>1. \A i \in DOMAIN pending : pending[i] # e
      BY <1>6 DEF ToSet
    <3> QED
      BY <1>4, <3>1 DEF IInv, TypeOK, ExecutorsOwned, QueuedOnce
  <2>2. HeldOnce' /\ HeldOrQueued' /\ AnswersHeld'
    BY <1>4, <1>5, <1>6 DEF IInv, ExecutorsOwned, HeldOnce, HeldOrQueued, AnswersHeld
  <2>3. HasConnection'
    BY <1>7, <1>8 DEF IInv, ExecutorsOwned, HasConnection
  <2> QED
    BY <2>1, <2>2, <2>3 DEF ExecutorsOwned
<1>13. TypeOK'
  BY <1>1, <1>2, <1>4, <1>5, <1>8, DispatchFacts, NoEventsFacts
     DEF IInv, TypeOK, ReactorTypeOK, serverState
<1>14. LoopInOrder' /\ EventsHaveHandlers' /\ NoMissedResponse' /\ NoMissedExit'
  BY <1>1, <1>2, LoopAfterDispatch, DispatchFacts DEF serverState
<1>15. ReactorOrExecutor'
  <2>1. mask[c] # {} BY <1>1, DispatchFacts
  <2>2. ASSUME NEW d \in Conns, d # c
        PROVE  mask'[d] = mask[d]
    BY <1>2, <2>2, SocketFacts
  <2> QED
    BY <1>2, <1>9, <1>10, <2>1, <2>2 DEF IInv, ReactorOrExecutor
<1>16. OutputHasResponse'
  <2>1. \A d \in Conns : "OUTPUT" \in mask'[d] => "OUTPUT" \in mask[d]
    BY <1>2, SocketFacts
  <2> QED
    BY <2>1 DEF IInv, OutputHasResponse
<1> QED
  BY <1>11, <1>12, <1>13, <1>14, <1>15, <1>16 DEF IInv

LEMMA ConnectionStepKeeps ==
    ASSUME IInv, NEW c \in Conns, ConnectionStep(c)
    PROVE  IInv'
<1>1. CASE ReadEnd(c) \/ SendFails(c) \/ SendAllAndClose(c)
  BY <1>1, TerminateStep
     DEF ReadEnd, SendFails, SendAllAndClose, DispatchInput, DispatchOutput
<1> QED
  BY <1>1, ReadPartStep, ReadExpectationStep, ReadErrorStep, ExecuteInPoolStep,
     AnswerAtOnceStep, SendPartStep, SendAllAndKeepStep DEF ConnectionStep

-----------------------------------------------------------------------------
(* The pool, the callers of set_exit_flag(), the clients *)

LEMMA WorkerStartsStep ==
    ASSUME IInv, NEW t \in Threads, WorkerStarts(t)
    PROVE  IInv'
<1> USE DEF WorkerStarts, Pool!Start
<1> DEFINE h == Head(pending)
<1>1. /\ h \in Executors /\ h \in ToSet(pending) /\ h # None
      /\ pending' \in Seq(Executors) /\ ToSet(pending') = ToSet(pending) \ {h}
      /\ QueuedOnce'
  BY PopFacts, ServerAssumption DEF IInv, TypeOK, ExecutorsOwned, QueuedOnce
<1>2. /\ job' = [job EXCEPT ![t] = h] /\ job[t] = None /\ ~answered[t]
      /\ UNCHANGED <<answered, conn, reactorState, serverState, connState, clientState>>
  BY DEF IInv, TypeOK, ExecutorsOwned, AnswersHeld
<1> HIDE DEF h
<1>3. job' \in [Threads -> Executors \cup {None}] /\ job'[t] = h
      /\ \A u \in Threads \ {t} : job'[u] = job[u]
  BY <1>1, <1>2 DEF IInv, TypeOK
<1>4. \A u \in Threads : job[u] # h
  BY <1>1 DEF IInv, ExecutorsOwned, HeldOrQueued
<1>5. Unanswered' = Unanswered
  BY <1>1, <1>2, <1>3 DEF Unanswered
<1>6. ExecutorsOwned'
  BY <1>1, <1>2, <1>3, <1>4, <1>5
     DEF IInv, ExecutorsOwned, HeldOnce, HeldOrQueued, AnswersHeld, HasConnection
<1>7. \A d \in Conns : Executing(d)' <=> Executing(d)
  BY <1>2, <1>5, ExecutingFacts, ExecutingFactsAfter
<1>8. OneRequestAtATime'
  BY <1>2, <1>5 DEF IInv, OneRequestAtATime
<1>9. TypeOK'
  BY <1>1, <1>2, <1>3 DEF IInv, TypeOK, ReactorTypeOK, reactorState, serverState,
                          connState, clientState
<1>10. ReactorOrExecutor' /\ OutputHasResponse'
  BY <1>2, <1>7 DEF IInv, ReactorOrExecutor, OutputHasResponse, reactorState, connState
<1>11. LoopInOrder' /\ EventsHaveHandlers' /\ NoMissedExit'
  BY <1>2 DEF IInv, LoopInOrder, EventsHaveHandlers, NoMissedExit, NoEvents,
              reactorState, serverState
<1>12. NoMissedResponse'
  <2>1. \A u \in Threads : answered[u] => job'[u] = job[u]
    BY <1>2, <1>3
  <2> QED
    BY <1>2, <2>1 DEF IInv, NoMissedResponse, reactorState, serverState
<1> QED
  BY <1>6, <1>8, <1>9, <1>10, <1>11, <1>12 DEF IInv

\* The connection goes from the executor to the reactor.
LEMMA WorkerAnswersStep ==
    ASSUME IInv, NEW t \in Threads, WorkerAnswers(t)
    PROVE  IInv'
<1> USE DEF WorkerAnswers, Pool!Answer
<1> DEFINE c == conn[job[t]]
<1>1. /\ job[t] # None /\ ~answered[t] /\ answered' = [answered EXCEPT ![t] = TRUE]
      /\ UNCHANGED <<pending, job, conn, revents, phase, polled, batch,
                     alloc, keepAlive, continued, serverState, clientState>>
      /\ response' = [response EXCEPT ![c] = Full("result")]
      /\ mask' = RegisterIn(mask, c, "OUTPUT")
  OBVIOUS
<1>2. job[t] \in Unanswered /\ c \in Conns /\ c \in Sockets
  BY <1>1, SocketFacts DEF IInv, ExecutorsOwned, HasConnection, Unanswered
<1> HIDE DEF c
<1>3. Executing(c) /\ mask[c] = {}
  BY <1>2, ExecutingFacts DEF c, IInv, ReactorOrExecutor
<1>4. /\ mask' \in EventMap /\ mask'[c] # {} /\ mask'[c] = {"OUTPUT"}
      /\ \A h \in Sockets \ {c} : mask'[h] = mask[h]
  <2>1. mask \in EventMap BY DEF IInv, TypeOK, ReactorTypeOK
  <2>2. mask'[c] = mask[c] \cup {"OUTPUT"}
    BY <1>1, <1>2, <2>1, RegisterFacts, EventFacts
  <2>3. mask'[c] = {"OUTPUT"}
    BY <1>3, <2>2
  <2>4. mask' \in EventMap
    BY <1>1, <1>2, <2>1, RegisterFacts, EventFacts
  <2>5. \A h \in Sockets \ {c} : mask'[h] = mask[h]
    BY <1>1, <1>2, <2>1, RegisterFacts, EventFacts
  <2> QED
    BY <2>3, <2>4, <2>5
<1>5. /\ response' \in [Conns -> [kind : Kinds, left : 0..MaxParts]]
      /\ \A d \in Conns \ {c} : response'[d] = response[d]
      /\ response'[c].left > 0
  <2>1. "result" \in Kinds BY DEF Kinds
  <2> QED
    BY <1>1, <1>2, <2>1, FullFacts
<1>6. /\ answered' \in [Threads -> BOOLEAN] /\ answered'[t]
      /\ \A u \in Threads \ {t} : answered'[u] = answered[u]
  BY <1>1 DEF IInv, TypeOK
<1>7. Unanswered' = Unanswered \ {job[t]}
  BY <1>1, <1>6 DEF IInv, ExecutorsOwned, HeldOnce, HeldOrQueued, Unanswered
<1>8. \A d \in Conns : Executing(d)' <=> Executing(d) /\ d # c
  BY <1>1, <1>2, <1>7, ExecutingFacts, ExecutingFactsAfter DEF c, IInv, OneRequestAtATime
<1>9. OneRequestAtATime' /\ ExecutorsOwned'
  BY <1>1, <1>6, <1>7
     DEF IInv, OneRequestAtATime, ExecutorsOwned, QueuedOnce, HeldOnce, HeldOrQueued,
         AnswersHeld, HasConnection
<1>10. TypeOK'
  BY <1>1, <1>4, <1>5, <1>6 DEF IInv, TypeOK, ReactorTypeOK, serverState, clientState
<1>11. ReactorOrExecutor'
  <2>1. ASSUME NEW d \in Conns, d # c PROVE mask'[d] = mask[d]
    BY <1>4, <2>1, SocketFacts
  <2> QED
    BY <1>1, <1>3, <1>4, <1>8, <2>1 DEF IInv, ReactorOrExecutor
<1>12. OutputHasResponse'
  <2>1. ASSUME NEW d \in Conns, d # c PROVE mask'[d] = mask[d] /\ response'[d] = response[d]
    BY <1>4, <1>5, <2>1, SocketFacts
  <2> QED
    BY <1>5, <2>1 DEF IInv, OutputHasResponse
<1>13. LoopInOrder' /\ NoMissedExit'
  BY <1>1 DEF IInv, LoopInOrder, NoMissedExit, NoEvents, serverState
<1>14. EventsHaveHandlers'
  <2>1. \A h \in Sockets : mask[h] # {} => mask'[h] # {}
    BY <1>2, <1>4
  <2> QED
    BY <1>1, <2>1 DEF IInv, EventsHaveHandlers, Sockets
<1>15. NoMissedResponse'
  <2>1. ASSUME NEW d \in Conns, d # c PROVE mask'[d] = mask[d]
    BY <1>4, <2>1, SocketFacts
  <2>2. answered'[t] /\ conn'[job'[t]] = c
    BY <1>1, <1>6 DEF c
  <2>3. \A u \in Threads : answered[u] => answered'[u]
    BY <1>6
  <2> QED
    BY <1>1, <2>1, <2>2, <2>3 DEF IInv, NoMissedResponse, serverState
<1> QED
  BY <1>9, <1>10, <1>11, <1>12, <1>13, <1>14, <1>15 DEF IInv

\* The executor is forgotten, its connection is not its own any more.
LEMMA WorkerRetiresStep ==
    ASSUME IInv, NEW t \in Threads, WorkerRetires(t)
    PROVE  IInv'
<1> USE DEF WorkerRetires, Pool!Retire
<1>1. /\ answered[t] /\ bytes < MaxBytes /\ bytes' = bytes + 1
      /\ job' = [job EXCEPT ![t] = None] /\ answered' = [answered EXCEPT ![t] = FALSE]
      /\ conn' = [conn EXCEPT ![job[t]] = NoConn]
      /\ UNCHANGED <<pending, reactorState, connState, clientState,
                     working, exitFlag, stopping>>
  OBVIOUS
<1>2. bytes \in Nat /\ bytes' \in 0..MaxBytes /\ bytes' > 0
  BY <1>1, ServerAssumption DEF IInv, TypeOK
<1>3. /\ job' \in [Threads -> Executors \cup {None}] /\ answered' \in [Threads -> BOOLEAN]
      /\ job'[t] = None /\ ~answered'[t]
      /\ \A u \in Threads \ {t} : job'[u] = job[u] /\ answered'[u] = answered[u]
      /\ conn' \in [Executors -> Conns \cup {NoConn}]
  BY <1>1 DEF IInv, TypeOK
<1>4. Unanswered' = Unanswered /\ job[t] \notin Unanswered
  BY <1>1, <1>3 DEF IInv, ExecutorsOwned, HeldOnce, HeldOrQueued, AnswersHeld, Unanswered
<1>5. \A e \in Unanswered : conn'[e] = conn[e]
  <2>1. Unanswered \subseteq Executors
    BY ServerAssumption DEF IInv, TypeOK, Unanswered, ToSet
  <2>2. \A e \in Executors \ {job[t]} : conn'[e] = conn[e]
    BY <1>1 DEF IInv, TypeOK
  <2> QED
    BY <1>4, <2>1, <2>2
<1>6. \A d \in Conns : Executing(d)' <=> Executing(d)
  BY <1>4, <1>5, ExecutingFacts, ExecutingFactsAfter
<1>7. OneRequestAtATime'
  BY <1>4, <1>5 DEF IInv, OneRequestAtATime
<1>8. ExecutorsOwned'
  <2>1. QueuedOnce' BY <1>1 DEF IInv, ExecutorsOwned, QueuedOnce
  <2>2. HeldOnce' BY <1>3 DEF IInv, ExecutorsOwned, HeldOnce
  <2>3. HeldOrQueued'
    <3>1. None \notin ToSet(pending)
      BY ServerAssumption DEF IInv, TypeOK, ToSet
    <3> QED
      BY <1>1, <1>3, <3>1 DEF IInv, ExecutorsOwned, HeldOrQueued
  <2>4. AnswersHeld' BY <1>3 DEF IInv, ExecutorsOwned, AnswersHeld
  <2>5. HasConnection' BY <1>4, <1>5 DEF IInv, ExecutorsOwned, HasConnection
  <2> QED
    BY <2>1, <2>2, <2>3, <2>4, <2>5 DEF ExecutorsOwned
<1>9. TypeOK'
  BY <1>1, <1>2, <1>3 DEF IInv, TypeOK, ReactorTypeOK, reactorState, connState, clientState
<1>10. ReactorOrExecutor' /\ OutputHasResponse'
  BY <1>1, <1>6 DEF IInv, ReactorOrExecutor, OutputHasResponse, reactorState, connState
<1>11. LoopInOrder' /\ EventsHaveHandlers'
  BY <1>1, <1>2 DEF IInv, LoopInOrder, EventsHaveHandlers, NoEvents, reactorState
<1>12. NoMissedResponse' /\ NoMissedExit'
  BY <1>2 DEF NoMissedResponse, NoMissedExit
<1> QED
  BY <1>7, <1>8, <1>9, <1>10, <1>11, <1>12 DEF IInv

\* Steps that leave reactor, pool and connections alone.
LEMMA OutsideStep ==
    ASSUME IInv, UNCHANGED <<reactorState, poolState, connState, working>>,
           exitFlag' \in BOOLEAN, stopping' \subseteq ExitCallers, bytes' \in 0..MaxBytes,
           bytes > 0 => bytes' > 0,
           NoMissedExit',
           backlog' \in BOOLEAN, unread' \in [Conns -> BOOLEAN],
           peer' \in [Conns -> {"closed", "open", "shut", "reset"}]
    PROVE  IInv'
<1>1. TypeOK'
  BY DEF IInv, TypeOK, ReactorTypeOK, reactorState, poolState, connState
<1>2. LoopInOrder' /\ EventsHaveHandlers'
  BY DEF IInv, LoopInOrder, EventsHaveHandlers, NoEvents, reactorState
<1>3. ReactorOrExecutor' /\ OutputHasResponse'
  BY PlaceUnchanged, OutputUnchanged DEF reactorState, connState
<1>4. NoMissedResponse'
  BY DEF IInv, NoMissedResponse, reactorState, poolState
<1> QED
  BY <1>1, <1>2, <1>3, <1>4, PoolUnchanged DEF IInv

LEMMA ExitCallerStep ==
    ASSUME IInv, NEW x \in ExitCallers, SetExitFlag(x) \/ InterruptForExit(x)
    PROVE  IInv'
<1>1. CASE SetExitFlag(x)
  <2>1. stopping' \subseteq ExitCallers /\ stopping' # {} /\ exitFlag' \in BOOLEAN
    BY <1>1 DEF SetExitFlag, IInv, TypeOK
  <2> QED
    BY <1>1, <2>1, OutsideStep DEF SetExitFlag, IInv, TypeOK, NoMissedExit, clientState
<1>2. CASE InterruptForExit(x)
  <2>1. bytes' \in 0..MaxBytes /\ bytes' > 0
    BY <1>2, ServerAssumption DEF InterruptForExit, IInv, TypeOK
  <2>2. stopping' \subseteq ExitCallers
    BY <1>2 DEF InterruptForExit, IInv, TypeOK
  <2> QED
    BY <1>2, <2>1, <2>2, OutsideStep DEF InterruptForExit, IInv, TypeOK, NoMissedExit, clientState
<1> QED
  BY <1>1, <1>2

LEMMA ClientStep ==
    ASSUME IInv, Client
    PROVE  IInv'
<1>1. UNCHANGED <<reactorState, poolState, serverState, connState>>
  BY DEF Client, ClientConnects, ClientSends, ClientShuts, ClientResets
<1>2. /\ backlog' \in BOOLEAN /\ unread' \in [Conns -> BOOLEAN]
      /\ peer' \in [Conns -> {"closed", "open", "shut", "reset"}]
  BY DEF Client, ClientConnects, ClientSends, ClientShuts, ClientResets, IInv, TypeOK
<1>3. NoMissedExit'
  BY <1>1 DEF IInv, NoMissedExit, reactorState, serverState
<1> QED
  BY <1>1, <1>2, <1>3, OutsideStep DEF serverState, IInv, TypeOK

-----------------------------------------------------------------------------
LEMMA InitInvariant == Init => IInv
<1> SUFFICES ASSUME Init PROVE IInv
  OBVIOUS
<1> USE DEF Init, ReactorInit, Pool!Init
<1>1. /\ mask = [NoEvents EXCEPT ![Stopper] = {"INPUT"}] /\ mask \in EventMap
      /\ \A c \in Conns : mask[c] = {}
  BY SocketFacts, EventFacts DEF NoEvents, EventMap, Sockets
<1>2. Unanswered = {} /\ ToSet(pending) = {} /\ \A c : ~Executing(c)
  BY DEF Unanswered, ToSet, Executing
<1>3. TypeOK
  <2>1. pending \in Seq(Executors) /\ NoResponse \in [kind : Kinds, left : 0..MaxParts]
    BY ServerAssumption DEF NoResponse, Kinds
  <2>2. bytes \in 0..MaxBytes
    BY ServerAssumption
  <2> QED
    BY <1>1, <2>1, <2>2, NoEventsFacts DEF TypeOK, ReactorTypeOK, Phases
<1>4. ExecutorsOwned /\ OneRequestAtATime
  BY <1>2, ServerAssumption
     DEF ExecutorsOwned, QueuedOnce, HeldOnce, HeldOrQueued, AnswersHeld, HasConnection,
         OneRequestAtATime
<1>5. LoopInOrder /\ EventsHaveHandlers
  BY NoEventsFacts, SocketFacts DEF LoopInOrder, EventsHaveHandlers, Sockets
<1>6. ReactorOrExecutor /\ OutputHasResponse
  BY <1>1, <1>2 DEF ReactorOrExecutor, OutputHasResponse
<1>7. NoMissedResponse /\ NoMissedExit
  BY DEF NoMissedResponse, NoMissedExit
<1> QED
  BY <1>3, <1>4, <1>5, <1>6, <1>7 DEF IInv

LEMMA StutterStep ==
    ASSUME IInv, UNCHANGED vars
    PROVE  IInv'
<1>1. UNCHANGED <<reactorState, poolState, serverState, connState, clientState>>
  BY DEF vars
<1>2. NoMissedExit'
  BY <1>1 DEF IInv, NoMissedExit, reactorState, serverState
<1> QED
  BY <1>1, <1>2, OutsideStep DEF serverState, clientState, IInv, TypeOK

THEOREM InvariantHolds == Spec => []IInv
<1>1. IInv /\ [Next]_vars => IInv'
  <2> SUFFICES ASSUME IInv, [Next]_vars PROVE IInv'
    OBVIOUS
  <2>1. CASE WorkStep
    <3>1. CASE LoopStep
      BY <3>1, CopyHandlersStep, PollReturnsStep DEF LoopStep
    <3> QED
      BY <2>1, <3>1, LoopGoesOnStep, LeaveLoopStep, WorkReturnsStep, StopperInputStep,
         DenyStep, AcceptThrowsStep, AcceptStep, ConnectionStepKeeps DEF WorkStep
  <2> QED
    BY <2>1, WorkBeginsStep, SignalStep, WorkerStartsStep, WorkerAnswersStep,
       WorkerRetiresStep, ExitCallerStep, ClientStep, StutterStep DEF Next
<1> QED
  BY <1>1, InitInvariant, PTL DEF Spec

\* Every variable keeps its type.
THEOREM ServerTypeCorrect == Spec => []TypeOK
<1>1. IInv => TypeOK BY DEF IInv
<1> QED BY <1>1, InvariantHolds, PTL

\* A connection is the reactor's or an executor's, never both, never neither
\* (http_server.cc:79-130, executor.cc:25-34, reactor_impl.h:128-163).
THEOREM ConnectionHasOnePlace == Spec => []ReactorOrExecutor
<1>1. IInv => ReactorOrExecutor BY DEF IInv
<1> QED BY <1>1, InvariantHolds, PTL

\* Two executors never write into the same connection (server.cc:172-244).
THEOREM RequestsOneAtATime == Spec => []OneRequestAtATime
<1>1. IInv => OneRequestAtATime BY DEF IInv
<1> QED BY <1>1, InvariantHolds, PTL

\* assert(handler) of invoke_event_handler() holds (reactor_impl.h:213).
THEOREM HandlersAreFound == Spec => []EventsHaveHandlers
<1>1. IInv => EventsHaveHandlers BY DEF IInv
<1> QED BY <1>1, InvariantHolds, PTL

\* handle_output() has something to send (http_server.cc:106-124).
THEOREM OutputIsThere == Spec => []OutputHasResponse
<1>1. IInv => OutputHasResponse BY DEF IInv
<1> QED BY <1>1, InvariantHolds, PTL

\* poll() does not block on a copy that misses a response (reactor_impl.h:253-265).
THEOREM ResponsesAreNotMissed == Spec => []NoMissedResponse
<1>1. IInv => NoMissedResponse BY DEF IInv
<1> QED BY <1>1, InvariantHolds, PTL

\* poll() does not block with exit_flag set and no interrupt coming
\* (server.cc:81-90, 259-265).
THEOREM ExitIsNotMissed == Spec => []NoMissedExit
<1>1. IInv => NoMissedExit BY DEF IInv
<1> QED BY <1>1, InvariantHolds, PTL

\* The two together: a connection has one owner at a time, and an executor owns
\* it alone (http_server.cc:79-130, server.cc:172-244).
THEOREM ConnectionsAreOwned == Spec => []ConnectionsOwned
<1>1. IInv => ConnectionsOwned BY DEF IInv, ConnectionsOwned
<1> QED BY <1>1, InvariantHolds, PTL

\* poll() blocks only while nothing since its copy of the handlers needs it awake
\* (reactor_impl.h:253-265, server.cc:81-90).
THEOREM NothingIsMissed == Spec => []NothingMissed
<1>1. IInv => NothingMissed BY DEF IInv, NothingMissed
<1> QED BY <1>1, InvariantHolds, PTL

-----------------------------------------------------------------------------
(* Responses are not cut off *)

\* Who is copied or reported for input is still registered for it: nothing but a
\* connection's own handler takes it off.
InputAsked == \A c \in Conns : "INPUT" \in polled[c] \cup batch[c] => "INPUT" \in mask[c]

\* While a result is in the buffer, the connection is registered for output only:
\* no input can be read that would put something else there.
ResultAlone == \A c \in Conns : response[c].kind = "result" => mask[c] = {"OUTPUT"}

ResponseInv == InputAsked /\ ResultAlone

\* What ResultNotCut says of one connection.
NotCut(c) ==
    response[c].kind = "result" =>
        \/ response'[c].kind = "result" /\ response'[c].left <= response[c].left
        \/ SendAllAndKeep(c) \/ SendAllAndClose(c)
        \/ peer[c] = "reset"

\* What a step does that is not about connection c.
LeavesAlone(c) ==
    /\ mask'[c] = mask[c] /\ response'[c] = response[c]
    /\ "INPUT" \in polled'[c] \cup batch'[c] => "INPUT" \in mask[c]

\* The invariant and the action property for one connection.
ResponseSafe(c) ==
    /\ "INPUT" \in polled'[c] \cup batch'[c] => "INPUT" \in mask'[c]
    /\ response'[c].kind = "result" => mask'[c] = {"OUTPUT"}
    /\ NotCut(c)

LEMMA LeftAlone ==
    ASSUME IInv, ResponseInv, NEW c \in Conns, LeavesAlone(c)
    PROVE  ResponseSafe(c)
<1>1. response[c].left \in Nat
  BY ServerAssumption DEF IInv, TypeOK
<1> QED
  BY <1>1 DEF LeavesAlone, ResponseInv, ResultAlone, ResponseSafe, NotCut

\* A step that changes no registration and no buffer, and reports no more than was
\* copied, nor copies more than is registered.
LEMMA AllLeftAlone ==
    ASSUME IInv, ResponseInv, UNCHANGED response,
           \A c \in Conns : mask'[c] = mask[c],
           \A c \in Conns : "INPUT" \in polled'[c] \cup batch'[c] =>
                               "INPUT" \in polled[c] \cup batch[c] \cup mask[c]
    PROVE  \A c \in Conns : ResponseSafe(c)
<1>1. ASSUME NEW c \in Conns PROVE LeavesAlone(c)
  BY DEF LeavesAlone, ResponseInv, InputAsked
<1> QED
  BY <1>1, LeftAlone

\* The handlers of c leave every other connection alone, and nothing of c is left
\* in the copy and the batch.
LEMMA OwnHandlersOnly ==
    ASSUME IInv, ResponseInv, NEW c \in Conns, ConnectionStep(c)
    PROVE  /\ \A d \in Conns \ {c} : LeavesAlone(d)
           /\ polled'[c] = {} /\ batch'[c] = {}
<1>1. Dispatch(c) /\ polled' = polled /\ c \in Sockets
  BY SocketFacts
     DEF ConnectionStep, ReadEnd, ReadPart, ReadExpectation, ReadError, ExecuteInPool,
         AnswerAtOnce, SendFails, SendPart, SendAllAndKeep, SendAllAndClose, ReadRequest,
         Receive, DispatchInput, DispatchOutput, Terminate
<1>2. polled'[c] = {} /\ batch'[c] = {} /\ \A d \in Conns \ {c} : batch'[d] = batch[d]
  BY <1>1, DispatchFacts, NoEventsFacts, SocketFacts
<1>3. ASSUME NEW d \in Conns \ {c} PROVE mask'[d] = mask[d]
  <2>1. /\ mask \in EventMap /\ d \in Sockets \ {c}
        /\ UnregisterIn(mask, c) \in EventMap /\ UnregisterIn(mask, c)[d] = mask[d]
    BY <1>1, UnregisterFacts, SocketFacts DEF IInv, TypeOK, ReactorTypeOK
  <2>2. \/ mask' = mask
        \/ mask' = UnregisterIn(mask, c)
        \/ \E ev \in Events : mask' = RegisterIn(mask, c, ev)
        \/ \E ev \in Events : mask' = RegisterIn(UnregisterIn(mask, c), c, ev)
    BY <1>1, <2>1, UnregisterFacts, EventFacts
       DEF ConnectionStep, ReadEnd, ReadPart, ReadExpectation, ReadError, ExecuteInPool,
           AnswerAtOnce, SendFails, SendPart, SendAllAndKeep, SendAllAndClose, Terminate
  <2> QED
    BY <1>1, <2>1, <2>2, RegisterFacts
<1>4. ASSUME NEW d \in Conns \ {c} PROVE response'[d] = response[d]
  BY DEF IInv, TypeOK, ConnectionStep, ReadEnd, ReadPart, ReadExpectation, ReadError,
         ExecuteInPool, AnswerAtOnce, SendFails, SendPart, SendAllAndKeep, SendAllAndClose,
         Terminate
<1>5. ASSUME NEW d \in Conns \ {c} PROVE LeavesAlone(d)
  BY <1>1, <1>2, <1>3, <1>4 DEF LeavesAlone, ResponseInv, InputAsked
<1> QED
  BY <1>2, <1>5

\* Input is read only while no result is in the buffer.
LEMMA InputWithoutResult ==
    ASSUME IInv, ResponseInv, NEW c \in Conns, DispatchInput(c)
    PROVE  response[c].kind # "result"
<1>1. "INPUT" \in mask[c]
  BY DEF DispatchInput, ResponseInv, InputAsked
<1> QED
  BY <1>1 DEF ResponseInv, ResultAlone

\* The handlers that read: what they put into the buffer is alone there.
LEMMA ReadingIsSafe ==
    ASSUME IInv, ResponseInv, NEW c \in Conns,
           \/ ReadEnd(c) \/ ReadPart(c) \/ ReadExpectation(c) \/ ReadError(c)
           \/ ExecuteInPool(c) \/ AnswerAtOnce(c)
    PROVE  ResponseSafe(c)
<1>1. DispatchInput(c) /\ c \in Sockets /\ mask \in EventMap
  BY SocketFacts
     DEF ReadEnd, ReadPart, ReadExpectation, ReadError, ExecuteInPool, AnswerAtOnce,
         ReadRequest, Receive, IInv, TypeOK, ReactorTypeOK
<1>2. response[c].kind # "result"
  BY <1>1, InputWithoutResult
<1>3. polled'[c] = {} /\ batch'[c] = {}
  BY OwnHandlersOnly DEF ConnectionStep
<1>4. CASE AnswerAtOnce(c)
  <2> DEFINE list == UnregisterIn(mask, c)
  <2>1. mask' = RegisterIn(list, c, "OUTPUT") /\ list \in EventMap /\ list[c] = {}
    BY <1>1, <1>4, UnregisterFacts DEF AnswerAtOnce
  <2> HIDE DEF list
  <2>2. mask'[c] = {} \cup {"OUTPUT"}
    BY <1>1, <2>1, RegisterFacts, EventFacts
  <2> QED
    BY <1>2, <1>3, <2>2 DEF ResponseSafe, NotCut
<1>5. CASE ~AnswerAtOnce(c)
  <2>1. response'[c].kind # "result"
    BY <1>2, <1>5
       DEF ReadEnd, ReadPart, ReadExpectation, ReadError, ExecuteInPool, Terminate, Full,
           NoResponse, IInv, TypeOK
  <2> QED
    BY <1>2, <1>3, <2>1 DEF ResponseSafe, NotCut
<1> QED
  BY <1>4, <1>5

\* The handlers that send.
LEMMA SendingIsSafe ==
    ASSUME IInv, ResponseInv, NEW c \in Conns,
           SendFails(c) \/ SendPart(c) \/ SendAllAndKeep(c) \/ SendAllAndClose(c)
    PROVE  ResponseSafe(c)
<1>1. polled'[c] = {} /\ batch'[c] = {}
  BY OwnHandlersOnly DEF ConnectionStep
<1>2. CASE SendPart(c)
  <2>1. PICK left \in 1..(response[c].left - 1) : response' = [response EXCEPT ![c].left = left]
    BY <1>2 DEF SendPart
  <2>2. response[c] \in [kind : Kinds, left : 0..MaxParts] /\ MaxParts \in Nat
    BY ServerAssumption DEF IInv, TypeOK
  <2>3. response'[c].kind = response[c].kind /\ response'[c].left = left
    BY <2>1, <2>2 DEF IInv, TypeOK
  <2>4. left <= response[c].left
    BY <2>1, <2>2
  <2>5. mask' = mask
    BY <1>2 DEF SendPart
  <2> QED
    BY <1>1, <2>3, <2>4, <2>5 DEF ResponseSafe, NotCut, ResponseInv, ResultAlone
<1>3. CASE ~SendPart(c)
  <2>1. response'[c].kind # "result"
    BY <1>3
       DEF SendFails, SendAllAndKeep, SendAllAndClose, Terminate, NoResponse, IInv, TypeOK
  <2>2. NotCut(c)
    BY <1>3 DEF SendFails, NotCut
  <2> QED
    BY <1>1, <2>1, <2>2 DEF ResponseSafe
<1> QED
  BY <1>2, <1>3

\* The executor's connection is not registered, so it has no result yet.
LEMMA AnsweringIsSafe ==
    ASSUME IInv, ResponseInv, NEW t \in Threads, WorkerAnswers(t)
    PROVE  \A c \in Conns : ResponseSafe(c)
<1> USE DEF WorkerAnswers, Pool!Answer
<1> DEFINE o == conn[job[t]]
<1>1. /\ UNCHANGED <<polled, batch>>
      /\ response' = [response EXCEPT ![o] = Full("result")]
      /\ mask' = RegisterIn(mask, o, "OUTPUT")
      /\ job[t] \in Unanswered
  BY DEF Unanswered
<1>2. o \in Conns /\ o \in Sockets /\ mask \in EventMap
  BY <1>1, SocketFacts DEF IInv, ExecutorsOwned, HasConnection, TypeOK, ReactorTypeOK
<1>3. Executing(o)
  BY <1>1, ExecutingFacts
<1> HIDE DEF o
<1>4. mask[o] = {}
  BY <1>2, <1>3 DEF IInv, ReactorOrExecutor
<1>5. mask'[o] = {"OUTPUT"}
  <2>1. mask'[o] = mask[o] \cup {"OUTPUT"}
    BY <1>1, <1>2, RegisterFacts, EventFacts
  <2> QED
    BY <1>4, <2>1
<1>6. ASSUME NEW d \in Conns \ {o} PROVE LeavesAlone(d)
  <2>1. \A h \in Sockets \ {o} : mask'[h] = mask[h]
    BY <1>1, <1>2, RegisterFacts, EventFacts
  <2>2. mask'[d] = mask[d]
    BY <2>1, SocketFacts
  <2>3. response'[d] = response[d]
    BY <1>1 DEF IInv, TypeOK
  <2> QED
    BY <1>1, <2>2, <2>3 DEF LeavesAlone, ResponseInv, InputAsked
<1>7. ResponseSafe(o)
  <2>1. "INPUT" \notin polled'[o] \cup batch'[o]
    BY <1>1, <1>2, <1>4 DEF ResponseInv, InputAsked
  <2>2. response[o].kind # "result"
    BY <1>2, <1>4 DEF ResponseInv, ResultAlone
  <2> QED
    BY <1>5, <2>1, <2>2 DEF ResponseSafe, NotCut
<1> QED
  BY <1>6, <1>7, LeftAlone

\* The descriptor of a new connection had no connection, and no result.
LEMMA AcceptingIsSafe ==
    ASSUME IInv, ResponseInv, NEW n \in Conns, Accept(n)
    PROVE  \A c \in Conns : ResponseSafe(c)
<1> USE DEF Accept
<1>1. /\ Dispatch(Acceptor) /\ Acceptor \in Sockets /\ n \in Sockets /\ n # Acceptor
      /\ mask \in EventMap /\ polled' = polled /\ response' = response
  BY SocketFacts DEF DispatchInput, IInv, TypeOK, ReactorTypeOK
<1>2. mask[n] = {}
  BY DEF IInv, ReactorOrExecutor
<1>3. \A d \in Conns : batch'[d] = batch[d]
  BY <1>1, DispatchFacts, SocketFacts
<1>4. \A d \in Conns \ {n} : LeavesAlone(d)
  <2>1. \A h \in Sockets \ {n} : mask'[h] = mask[h]
    <3>1. mask' = RegisterIn(mask, n, "INPUT") OBVIOUS
    <3>2. mask \in EventMap /\ n \in Sockets /\ "INPUT" \in Events
      BY <1>1, EventFacts
    <3>3. \A h \in Sockets \ {n} : RegisterIn(mask, n, "INPUT")[h] = mask[h]
      BY ONLY <3>2, RegisterFacts
    <3> QED
      BY ONLY <3>1, <3>3
  <2>2. \A d \in Conns \ {n} : mask'[d] = mask[d]
    BY <2>1, SocketFacts
  <2> QED
    BY <1>1, <1>3, <2>2 DEF LeavesAlone, ResponseInv, InputAsked
<1>5. ResponseSafe(n)
  BY <1>1, <1>2, <1>3 DEF ResponseInv, InputAsked, ResultAlone, ResponseSafe, NotCut
<1> QED
  BY <1>4, <1>5, LeftAlone

\* The other steps of work() change no connection's registration or buffer.
LEMMA LoopIsSafe ==
    ASSUME IInv, ResponseInv,
           \/ WorkBegins \/ LoopGoesOn \/ LoopStep \/ LeaveLoop \/ WorkReturns \/ Signal
           \/ StopperInput \/ Deny \/ AcceptThrows
    PROVE  \A c \in Conns : ResponseSafe(c)
<1>1. TypeOK /\ mask \in EventMap
  BY DEF IInv, TypeOK, ReactorTypeOK
<1>2. CASE WorkBegins \/ LeaveLoop
  <2>1. mask' = RegisterIn(mask, Acceptor, "INPUT") \/ mask' = UnregisterIn(mask, Acceptor)
    BY <1>2 DEF WorkBegins, LeaveLoop
  <2>2. \A h \in Sockets \ {Acceptor} : mask'[h] = mask[h]
    <3>1. Acceptor \in Sockets BY SocketFacts
    <3>2. CASE mask' = RegisterIn(mask, Acceptor, "INPUT")
      BY <1>1, <3>1, <3>2, RegisterFacts, EventFacts
    <3>3. CASE mask' = UnregisterIn(mask, Acceptor)
      BY <1>1, <3>1, <3>3, UnregisterFacts
    <3> QED
      BY <2>1, <3>2, <3>3
  <2>3. UNCHANGED <<response, polled, batch>>
    BY <1>2 DEF WorkBegins, LeaveLoop, connState
  <2> QED
    BY <2>2, <2>3, SocketFacts, AllLeftAlone
<1>3. CASE StopperInput \/ Deny
  <2>1. UNCHANGED <<response, mask, polled>> /\ (Dispatch(Stopper) \/ Dispatch(Acceptor))
    BY <1>3 DEF StopperInput, Deny, DispatchInput, connState
  <2>2. \A c \in Conns : batch'[c] = batch[c]
    BY <2>1, DispatchFacts, SocketFacts
  <2> QED
    BY <2>1, <2>2, AllLeftAlone
<1>4. CASE LoopGoesOn \/ WorkReturns \/ AcceptThrows \/ Signal
  <2>1. UNCHANGED <<response, mask>>
    BY <1>4 DEF LoopGoesOn, EnterHandleEvents, WorkReturns, AcceptThrows, Signal,
                PollInterrupted, reactorState, connState
  <2>2. /\ batch' = batch \/ batch' = NoEvents
        /\ polled' = polled \/ polled' = NoEvents
    BY <1>4 DEF LoopGoesOn, EnterHandleEvents, WorkReturns, AcceptThrows, Signal,
                PollInterrupted, reactorState, IInv, LoopInOrder
  <2>3. \A c \in Conns : NoEvents[c] = {}
    BY NoEventsFacts, SocketFacts
  <2> QED
    BY <2>1, <2>2, <2>3, AllLeftAlone
<1>5. CASE LoopStep
  <2>1. UNCHANGED <<response, mask>>
    BY <1>5 DEF LoopStep, CopyHandlers, PollReturns, connState
  <2>2. CASE CopyHandlers
    BY <2>1, <2>2, AllLeftAlone DEF CopyHandlers
  <2>3. CASE PollReturns(Ready)
    <3>1. \A c \in Conns : NoEvents[c] = {}
      BY NoEventsFacts, SocketFacts
    <3>2. ASSUME NEW c \in Conns, "INPUT" \in Ready[c] PROVE "INPUT" \in polled[c]
      <4>1. c \in Sockets /\ c # Stopper /\ c # Acceptor
        BY SocketFacts
      <4>2. polled[c] # {}
        BY <3>2, <4>1, ReadyFacts
      <4>3. Ready[c] = {ev \in polled[c] : ev = "INPUT" => unread[c] \/ peer[c] # "open"}
                       \cup (IF peer[c] = "reset" THEN {"OUTPUT"} ELSE {})
        BY <4>1, <4>2 DEF Ready, Sockets
      <4> QED
        BY <3>2, <4>3
    <3> QED
      BY <2>1, <2>3, <3>1, <3>2, AllLeftAlone DEF PollReturns
  <2> QED
    BY <1>5, <2>2, <2>3 DEF LoopStep
<1> QED
  BY <1>2, <1>3, <1>4, <1>5

LEMMA StepIsSafe ==
    ASSUME IInv, ResponseInv, [Next]_vars
    PROVE  \A c \in Conns : ResponseSafe(c)
<1>1. ASSUME NEW n \in Conns, ConnectionStep(n) PROVE \A c \in Conns : ResponseSafe(c)
  <2>1. ResponseSafe(n)
    BY <1>1, ReadingIsSafe, SendingIsSafe DEF ConnectionStep
  <2> QED
    BY <1>1, <2>1, OwnHandlersOnly, LeftAlone
<1>2. CASE WorkStep
  BY <1>1, <1>2, LoopIsSafe, AcceptingIsSafe DEF WorkStep
<1>3. ASSUME UNCHANGED <<mask, polled, batch, response>>
      PROVE  \A c \in Conns : ResponseSafe(c)
  BY <1>3, AllLeftAlone
<1>4. ASSUME NEW t \in Threads, WorkerStarts(t) \/ WorkerRetires(t)
      PROVE  \A c \in Conns : ResponseSafe(c)
  BY <1>3, <1>4 DEF WorkerStarts, WorkerRetires, reactorState, connState
<1>5. ASSUME NEW x \in ExitCallers, SetExitFlag(x) \/ InterruptForExit(x)
      PROVE  \A c \in Conns : ResponseSafe(c)
  BY <1>3, <1>5 DEF SetExitFlag, InterruptForExit, reactorState, connState
<1>6. CASE Client
  BY <1>3, <1>6 DEF Client, ClientConnects, ClientSends, ClientShuts, ClientResets,
                    reactorState, connState
<1>7. CASE UNCHANGED vars
  BY <1>3, <1>7 DEF vars, reactorState, connState
<1> QED
  BY <1>2, <1>4, <1>5, <1>6, <1>7, LoopIsSafe, AnsweringIsSafe DEF Next

\* A connection with a result in its buffer is registered for output and nothing
\* else (http_server.cc:79-130, reactor_impl.h:128-163).
THEOREM ResultsAreAlone == Spec => []ResponseInv
<1>1. Init => ResponseInv
  BY SocketFacts, NoEventsFacts
     DEF Init, ReactorInit, NoResponse, ResponseInv, InputAsked, ResultAlone
<1>2. IInv /\ ResponseInv /\ [Next]_vars => ResponseInv'
  <2> SUFFICES ASSUME IInv, ResponseInv, [Next]_vars PROVE ResponseInv'
    OBVIOUS
  <2>1. \A c \in Conns : ResponseSafe(c)
    BY StepIsSafe
  <2> QED
    BY <2>1 DEF ResponseSafe, ResponseInv, InputAsked, ResultAlone
<1> QED
  BY <1>1, <1>2, InvariantHolds, PTL DEF Spec

\* A result leaves completely unless the client has reset the connection: nothing
\* is put over it and nothing frees the connection before (http_server.cc:79-124).
THEOREM ResultsAreNotCut == Spec => ResultNotCut
<1>1. IInv /\ ResponseInv /\ [Next]_vars =>
         \A c \in Conns :
            response[c].kind = "result" =>
                \/ response'[c].kind = "result" /\ response'[c].left <= response[c].left
                \/ SendAllAndKeep(c) \/ SendAllAndClose(c)
                \/ peer[c] = "reset"
  BY StepIsSafe DEF ResponseSafe, NotCut
<1> QED
  BY <1>1, InvariantHolds, ResultsAreAlone, PTL DEF Spec, ResultNotCut
=============================================================================
