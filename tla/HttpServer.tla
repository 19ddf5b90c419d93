----------------------------- MODULE HttpServer -----------------------------
(***************************************************************************)
(* The HTTP server at work: the thread inside Server::work() with its      *)
(* reactor, acceptor, interrupter and connections (server.cc,              *)
(* server_conn.cc, http_server.cc, acceptor.cc, reactor_interrupter.cc),   *)
(* the pool that executes methods, the thread that asks the server to      *)
(* stop, and the clients.                                                  *)
(*                                                                         *)
(* The reactor is Reactor, the pool is what JobQueue promises (ExecutorPool *)
(* implements it).  A handler runs on the reactor's thread and works on    *)
(* its own connection, so one invocation is one step.  Pool threads touch  *)
(* the server twice per executor: they register the connection for output, *)
(* and later, in ~Pool_executor(), they interrupt the poll; anything may    *)
(* happen between the two.                                                 *)
(*                                                                         *)
(* A connection stands for a file descriptor: when it is freed, accept()   *)
(* may give the same one out again.                                        *)
(***************************************************************************)
EXTENDS Naturals, Sequences, FiniteSets, SequencesExt

CONSTANTS Conns,        \* the descriptors accept() may return
          Acceptor,     \* the listening socket
          Stopper,      \* the receiving end of the interrupter
          Threads,      \* the pool; {} is the Serial_executor_factory
          Executors,    \* the addresses of executors
          ExitCallers,  \* the threads that may call set_exit_flag()
          MayReset,     \* may clients reset a connection
          None,         \* no executor
          NoConn,       \* the connection of an executor that does not exist
          MaxBytes,     \* what the interrupter's socket buffer holds
          MaxParts      \* in how many pieces a response may leave

ASSUME ServerAssumption ==
    /\ Acceptor \notin Conns /\ Stopper \notin Conns /\ Acceptor # Stopper
    /\ None \notin Executors /\ NoConn \notin Conns
    /\ MayReset \in BOOLEAN
    /\ MaxBytes \in Nat \ {0} /\ MaxParts \in Nat \ {0}

VARIABLES
    mask, revents, phase, polled, batch,   \* the reactor
    pending, job, answered,                \* the pool
    conn,        \* the connection of each executor
    working,     \* is a thread inside work(): "no", "loop" or "leaving"
    exitFlag,    \* exit_flag
    stopping,    \* the threads inside set_exit_flag(), before interrupt()
    bytes,       \* bytes on their way through the interrupter
    backlog,     \* are there connections to accept
    alloc,       \* does the connection object exist
    keepAlive,   \* keep_alive
    response,    \* what is still to be sent of the buffer `response'
    continued,   \* continue_sent_ of the packet reader
    unread,      \* does the socket hold unread data
    peer         \* what the client did to its end

reactorState == <<mask, revents, phase, polled, batch>>
poolState    == <<pending, job, answered, conn>>
serverState  == <<working, exitFlag, stopping, bytes>>
connState    == <<alloc, keepAlive, response, continued>>
clientState  == <<backlog, unread, peer>>

vars == <<reactorState, poolState, serverState, connState, clientState>>

INSTANCE Reactor WITH Handlers <- Conns \cup {Acceptor, Stopper}

Pool == INSTANCE JobQueue WITH
           Jobs <- Executors, Workers <- Threads, NoJob <- None, closed <- FALSE

\* What is to be sent: nothing, the interim 100, an HTTP error, an XML-RPC
\* response (a fault is one).
Kinds == {"none", "100", "error", "result"}
NoResponse == [kind |-> "none", left |-> 0]
Full(kind) == [kind |-> kind, left |-> MaxParts]

\* The executor's method has not been answered yet.
Executing(c) ==
    \/ \E i \in DOMAIN pending : conn[pending[i]] = c
    \/ \E t \in Threads : job[t] # None /\ ~answered[t] /\ conn[job[t]] = c

-----------------------------------------------------------------------------
\* The server has been constructed: the interrupter is registered, nobody has
\* called work() yet.
Init ==
    /\ ReactorInit([NoEvents EXCEPT ![Stopper] = {"INPUT"}])
    /\ phase = "idle"
    /\ Pool!Init
    /\ conn = [e \in Executors |-> NoConn]
    /\ working = "no"
    /\ exitFlag = FALSE
    /\ stopping = {}
    /\ bytes = 0
    /\ backlog = FALSE
    /\ alloc = [c \in Conns |-> FALSE]
    /\ keepAlive = [c \in Conns |-> FALSE]
    /\ response = [c \in Conns |-> NoResponse]
    /\ continued = [c \in Conns |-> FALSE]
    /\ unread = [c \in Conns |-> FALSE]
    /\ peer = [c \in Conns |-> "closed"]

-----------------------------------------------------------------------------
(* Server::work() and the loop *)

\* work() is called: the acceptor is created unless a previous call left one.
WorkBegins ==
    /\ working = "no"
    /\ working' = "loop"
    /\ mask' = RegisterIn(mask, Acceptor, "INPUT")
    /\ UNCHANGED <<revents, phase, polled, batch, exitFlag, stopping, bytes>>
    /\ UNCHANGED <<poolState, connState, clientState>>

\* Mutant: exit_flag is not looked at before handle_events().
LoopBlindly ==
    /\ working = "loop"
    /\ EnterHandleEvents({Stopper})
    /\ UNCHANGED <<poolState, serverState, connState, clientState>>

\* exit_flag is not set: handle_events() is called.
LoopGoesOn ==
    /\ working = "loop"
    /\ ~exitFlag
    /\ EnterHandleEvents({Stopper})
    /\ UNCHANGED <<poolState, serverState, connState, clientState>>

\* exit_flag is set: the acceptor is destroyed ...
LeaveLoop ==
    /\ working = "loop"
    /\ phase = "idle"
    /\ exitFlag
    /\ working' = "leaving"
    /\ mask' = UnregisterIn(mask, Acceptor)
    /\ DropRevents(Acceptor)
    /\ backlog' = FALSE
    /\ UNCHANGED <<phase, polled, batch, exitFlag, stopping, bytes, unread, peer>>
    /\ UNCHANGED <<poolState, connState>>

\* ... and the flag is reset for the next work().
WorkReturns ==
    /\ working = "leaving"
    /\ working' = "no"
    /\ exitFlag' = FALSE
    /\ UNCHANGED <<reactorState, stopping, bytes>>
    /\ UNCHANGED <<poolState, connState, clientState>>

\* What poll() finds ready among the handlers it was given.
Ready ==
    [h \in Conns \cup {Acceptor, Stopper} |->
        IF polled[h] = {} THEN {}
        ELSE CASE h = Stopper  -> IF bytes > 0 THEN {"INPUT"} ELSE {}
               [] h = Acceptor -> IF backlog THEN {"INPUT"} ELSE {}
               [] OTHER        ->
                    {ev \in polled[h] : ev = "INPUT" => unread[h] \/ peer[h] # "open"}
                    \* POLLERR and POLLHUP are reported unasked, as OUTPUT
                    \cup (IF peer[h] = "reset" THEN {"OUTPUT"} ELSE {})]

\* The loop's steps that call no handler.
LoopStep ==
    /\ CopyHandlers \/ PollReturns(Ready)
    /\ UNCHANGED <<poolState, serverState, connState, clientState>>

\* A signal is delivered to the thread that is blocked in poll().
Signal ==
    /\ PollInterrupted(Ready)
    /\ UNCHANGED <<poolState, serverState, connState, clientState>>

-----------------------------------------------------------------------------
(* The interrupter and the acceptor *)

\* Mutant: two bytes are taken.
StopperInputTwice ==
    /\ DispatchInput(Stopper)
    /\ bytes' = bytes - 2
    /\ UNCHANGED <<mask, revents, polled, working, exitFlag, stopping>>
    /\ UNCHANGED <<poolState, connState, clientState>>

\* Interrupter_connection::handle_input() takes one byte.
StopperInput ==
    /\ DispatchInput(Stopper)
    /\ bytes' = bytes - 1
    /\ UNCHANGED <<mask, revents, polled, working, exitFlag, stopping>>
    /\ UNCHANGED <<poolState, connState, clientState>>

\* Acceptor::accept() and create_accepted(): a new connection object, on a
\* descriptor that is not in use, is registered for input.
Accept(c) ==
    /\ DispatchInput(Acceptor)
    /\ ~alloc[c]
    /\ alloc' = [alloc EXCEPT ![c] = TRUE]
    /\ mask' = RegisterIn(mask, c, "INPUT")
    /\ peer' = [peer EXCEPT ![c] = "open"]
    /\ backlog' \in BOOLEAN
    /\ UNCHANGED <<revents, polled, keepAlive, response, continued, unread>>
    /\ UNCHANGED <<poolState, serverState>>

\* The firewall does not grant the address: nothing is created.
Deny ==
    /\ DispatchInput(Acceptor)
    /\ backlog' \in BOOLEAN
    /\ UNCHANGED <<mask, revents, polled, unread, peer>>
    /\ UNCHANGED <<poolState, serverState, connState>>

\* accept() fails, for want of descriptors or else.  The reactor does not catch
\* what the acceptor throws: work() is left with the exception, the rest of the
\* batch is not dispatched, the acceptor stays registered.
AcceptThrows ==
    /\ phase = "system"
    /\ "INPUT" \in batch[Acceptor]
    /\ phase' = "idle"
    /\ batch' = NoEvents
    /\ working' = "no"
    /\ UNCHANGED <<mask, revents, polled, exitFlag, stopping, bytes>>
    /\ UNCHANGED <<poolState, connState, clientState>>

-----------------------------------------------------------------------------
(* Http_server_connection *)

\* The connection sets `terminate' (or throws, and the reactor sets it): the
\* reactor unregisters it, and finish() deletes the object, which closes the
\* socket.  The fields of a connection that does not exist have the values a new
\* one starts with.
Terminate(c) ==
    /\ mask' = UnregisterIn(mask, c)
    /\ DropRevents(c)
    /\ alloc' = [alloc EXCEPT ![c] = FALSE]
    /\ keepAlive' = [keepAlive EXCEPT ![c] = FALSE]
    /\ response' = [response EXCEPT ![c] = NoResponse]
    /\ continued' = [continued EXCEPT ![c] = FALSE]
    /\ peer' = [peer EXCEPT ![c] = "closed"]
    /\ unread' = [unread EXCEPT ![c] = FALSE]
    /\ UNCHANGED <<polled, backlog>>
    /\ UNCHANGED <<poolState, serverState>>

\* handle_input() reads the end of the stream, or recv() throws.
ReadEnd(c) ==
    /\ DispatchInput(c)
    /\ \/ peer[c] = "shut" /\ ~unread[c]
       \/ peer[c] = "reset"
    /\ Terminate(c)

\* recv() returns data: all there is, or read_buf_sz() of it.
Receive(c) ==
    /\ DispatchInput(c)
    /\ unread[c] /\ peer[c] # "reset"
    /\ \E more \in BOOLEAN : unread' = [unread EXCEPT ![c] = more]
    /\ UNCHANGED <<polled, alloc, backlog, peer>>
    /\ UNCHANGED serverState

\* The packet is not complete and needs no interim answer.
ReadPart(c) ==
    /\ Receive(c)
    /\ UNCHANGED <<mask, revents, keepAlive, response, continued>>
    /\ UNCHANGED poolState

\* The header asks for the interim "100", which is scheduled once.
ReadExpectation(c) ==
    /\ Receive(c)
    /\ ~continued[c]
    /\ continued' = [continued EXCEPT ![c] = TRUE]
    /\ keepAlive' = [keepAlive EXCEPT ![c] = TRUE]
    /\ response' = [response EXCEPT ![c] = Full("100")]
    /\ mask' = RegisterIn(mask, c, "OUTPUT")
    /\ UNCHANGED revents
    /\ UNCHANGED poolState

\* The packet reader throws: an HTTP error is scheduled, the connection shall be
\* closed after it, and it stays registered for input.
ReadError(c) ==
    /\ Receive(c)
    /\ keepAlive' = [keepAlive EXCEPT ![c] = FALSE]
    /\ response' = [response EXCEPT ![c] = Full("error")]
    /\ mask' = RegisterIn(mask, c, "OUTPUT")
    /\ UNCHANGED <<revents, continued>>
    /\ UNCHANGED poolState

\* The packet is complete: the header tells whether to keep the connection.
ReadRequest(c) ==
    /\ Receive(c)
    /\ \E keep \in BOOLEAN : keepAlive' = [keepAlive EXCEPT ![c] = keep]
    /\ DropRevents(c)
    /\ UNCHANGED continued

\* schedule_execute() hands an executor to the pool, the connection is not
\* registered meanwhile.
FreeExecutors == Executors \ Pool!LiveJobs
NewExecutor == CHOOSE e \in FreeExecutors : TRUE

ExecuteInPool(c) ==
    /\ Threads # {} /\ FreeExecutors # {}
    /\ ReadRequest(c)
    /\ mask' = UnregisterEventIn(mask, c, "INPUT")
    /\ Pool!Submit(NewExecutor)
    /\ conn' = [conn EXCEPT ![NewExecutor] = c]
    /\ UNCHANGED response

\* The response is scheduled before handle_input() returns: by the serial
\* executor, or because authentication ("error"), the parser, the dispatcher or
\* the preparation of the executor ("result", a fault) threw.
AnswerAtOnce(c) ==
    /\ ReadRequest(c)
    /\ mask' = RegisterIn(UnregisterEventIn(mask, c, "INPUT"), c, "OUTPUT")
    /\ \E kind \in {"error", "result"} :
          response' = [response EXCEPT ![c] = Full(kind)]
    /\ UNCHANGED poolState

\* handle_output(): send() throws.
SendFails(c) ==
    /\ DispatchOutput(c)
    /\ peer[c] = "reset"
    /\ Terminate(c)

\* send() takes a part of the buffer, the rest stays registered for output.
SendPart(c) ==
    /\ DispatchOutput(c)
    /\ peer[c] # "reset"
    /\ \E left \in 1..(response[c].left - 1) :
          response' = [response EXCEPT ![c].left = left]
    /\ UNCHANGED <<mask, revents, polled, alloc, keepAlive, continued>>
    /\ UNCHANGED <<poolState, serverState, clientState>>

\* send() takes all of it: wait for the next request, or close.
SendAllAndKeep(c) ==
    /\ DispatchOutput(c)
    /\ peer[c] # "reset"
    /\ keepAlive[c]
    /\ response' = [response EXCEPT ![c] = NoResponse]
    /\ mask' = RegisterIn(UnregisterEventIn(mask, c, "OUTPUT"), c, "INPUT")
    /\ DropRevents(c)
    /\ UNCHANGED <<polled, alloc, keepAlive, continued>>
    /\ UNCHANGED <<poolState, serverState, clientState>>

SendAllAndClose(c) ==
    /\ DispatchOutput(c)
    /\ peer[c] # "reset"
    /\ ~keepAlive[c]
    /\ Terminate(c)

-----------------------------------------------------------------------------
(* The other threads *)

\* A pool thread takes the oldest executor.
WorkerStarts(t) ==
    /\ Pool!Start(t)
    /\ UNCHANGED <<reactorState, serverState, connState, clientState, conn>>

\* Mutant: the connection is registered for input as well.
WorkerAnswersAndListens(t) ==
    /\ Pool!Answer(t)
    /\ LET c == conn[job[t]] IN
          /\ response' = [response EXCEPT ![c] = Full("result")]
          /\ mask' = RegisterIn(RegisterIn(mask, c, "OUTPUT"), c, "INPUT")
    /\ UNCHANGED <<revents, phase, polled, batch, conn, alloc, keepAlive, continued>>
    /\ UNCHANGED <<serverState, clientState>>

\* Server::schedule_response(): the response is put into the connection, which
\* is registered for output ...
WorkerAnswers(t) ==
    /\ Pool!Answer(t)
    /\ LET c == conn[job[t]] IN
          /\ response' = [response EXCEPT ![c] = Full("result")]
          /\ mask' = RegisterIn(mask, c, "OUTPUT")
    /\ UNCHANGED <<revents, phase, polled, batch, conn, alloc, keepAlive, continued>>
    /\ UNCHANGED <<serverState, clientState>>

\* Mutant: the destructor of the executor does not interrupt the server.
WorkerRetiresSilently(t) ==
    /\ Pool!Retire(t)
    /\ conn' = [conn EXCEPT ![job[t]] = NoConn]
    /\ UNCHANGED <<reactorState, connState, clientState, serverState>>

\* ... and the executor is deleted: ~Pool_executor() writes a byte into the
\* interrupter, and blocks while its socket is full.
WorkerRetires(t) ==
    /\ Pool!Retire(t)
    /\ bytes < MaxBytes
    /\ bytes' = bytes + 1
    /\ conn' = [conn EXCEPT ![job[t]] = NoConn]
    /\ UNCHANGED <<reactorState, connState, clientState>>
    /\ UNCHANGED <<working, exitFlag, stopping>>

\* Mutant: the flag is set without an interrupt.
SetExitFlagSilently(x) ==
    /\ exitFlag' = TRUE
    /\ UNCHANGED <<working, stopping, bytes>>
    /\ UNCHANGED <<reactorState, poolState, connState, clientState>>

\* Server::set_exit_flag(): the flag first, then the interrupt.
SetExitFlag(x) ==
    /\ x \notin stopping
    /\ exitFlag' = TRUE
    /\ stopping' = stopping \cup {x}
    /\ UNCHANGED <<working, bytes>>
    /\ UNCHANGED <<reactorState, poolState, connState, clientState>>

InterruptForExit(x) ==
    /\ x \in stopping
    /\ bytes < MaxBytes
    /\ bytes' = bytes + 1
    /\ stopping' = stopping \ {x}
    /\ UNCHANGED <<working, exitFlag>>
    /\ UNCHANGED <<reactorState, poolState, connState, clientState>>

-----------------------------------------------------------------------------
(* The clients *)

ClientConnects ==
    /\ mask[Acceptor] # {} /\ ~backlog
    /\ backlog' = TRUE
    /\ UNCHANGED <<unread, peer>>
    /\ UNCHANGED <<reactorState, poolState, serverState, connState>>

ClientSends(c) ==
    /\ peer[c] = "open" /\ ~unread[c]
    /\ unread' = [unread EXCEPT ![c] = TRUE]
    /\ UNCHANGED <<backlog, peer>>
    /\ UNCHANGED <<reactorState, poolState, serverState, connState>>

\* The client will send no more, but still reads.
ClientShuts(c) ==
    /\ peer[c] = "open"
    /\ peer' = [peer EXCEPT ![c] = "shut"]
    /\ UNCHANGED <<backlog, unread>>
    /\ UNCHANGED <<reactorState, poolState, serverState, connState>>

ClientResets(c) ==
    /\ MayReset
    /\ peer[c] \in {"open", "shut"}
    /\ peer' = [peer EXCEPT ![c] = "reset"]
    /\ unread' = [unread EXCEPT ![c] = FALSE]
    /\ UNCHANGED backlog
    /\ UNCHANGED <<reactorState, poolState, serverState, connState>>

-----------------------------------------------------------------------------
ConnectionStep(c) ==
    \/ ReadEnd(c) \/ ReadPart(c) \/ ReadExpectation(c) \/ ReadError(c)
    \/ ExecuteInPool(c) \/ AnswerAtOnce(c)
    \/ SendFails(c) \/ SendPart(c) \/ SendAllAndKeep(c) \/ SendAllAndClose(c)

\* What the thread inside work() does.
WorkStep ==
    \/ LoopGoesOn \/ LoopStep \/ LeaveLoop \/ WorkReturns
    \/ StopperInput \/ Deny \/ AcceptThrows
    \/ \E c \in Conns : Accept(c) \/ ConnectionStep(c)

Client ==
    \/ ClientConnects
    \/ \E c \in Conns : ClientSends(c) \/ ClientShuts(c) \/ ClientResets(c)

Next ==
    \/ WorkBegins \/ WorkStep \/ Signal
    \/ \E t \in Threads : WorkerStarts(t) \/ WorkerAnswers(t) \/ WorkerRetires(t)
    \/ \E x \in ExitCallers : SetExitFlag(x) \/ InterruptForExit(x)
    \/ Client

Spec == Init /\ [][Next]_vars

\* The thread inside work() runs, pool threads run and methods return, and who
\* has set the flag goes on to interrupt.  Clients, signals and the callers of
\* work() and set_exit_flag() owe nothing.
Fairness ==
    /\ WF_vars(WorkStep)
    /\ WF_vars(\E t \in Threads : WorkerStarts(t))
    /\ \A t \in Threads : WF_vars(WorkerAnswers(t)) /\ WF_vars(WorkerRetires(t))
    /\ \A x \in ExitCallers : WF_vars(InterruptForExit(x))

FairSpec == Spec /\ Fairness

-----------------------------------------------------------------------------
TypeOK ==
    /\ ReactorTypeOK /\ phase \in Phases
    /\ pending \in Seq(Executors)
    /\ job \in [Threads -> Executors \cup {None}]
    /\ answered \in [Threads -> BOOLEAN]
    /\ conn \in [Executors -> Conns \cup {NoConn}]
    /\ working \in {"no", "loop", "leaving"}
    /\ exitFlag \in BOOLEAN /\ stopping \subseteq ExitCallers
    /\ bytes \in 0..MaxBytes
    /\ backlog \in BOOLEAN
    /\ alloc \in [Conns -> BOOLEAN]
    /\ keepAlive \in [Conns -> BOOLEAN]
    /\ response \in [Conns -> [kind : Kinds, left : 0..MaxParts]]
    /\ continued \in [Conns -> BOOLEAN]
    /\ unread \in [Conns -> BOOLEAN]
    /\ peer \in [Conns -> {"closed", "open", "shut", "reset"}]

\* Executors that will still touch their connection.
Unanswered == ToSet(pending) \cup {job[t] : t \in {u \in Threads : job[u] # None /\ ~answered[u]}}

\* A connection is in the reactor's hands or in an executor's, never in both and
\* never in none: while a method runs nothing can free the connection the
\* response will be put into, and no connection is forgotten
\* (http_server.cc:79-130, executor.cc:25-34, reactor_impl.h:128-163).
ReactorOrExecutor ==
    \A c \in Conns :
        /\ alloc[c] <=> mask[c] # {} \/ Executing(c)
        /\ ~(mask[c] # {} /\ Executing(c))

\* Two executors never write into the same connection.
OneRequestAtATime ==
    \A e, f \in Unanswered : conn[e] = conn[f] => e = f

\* A connection has one owner at a time, and an executor that owns it owns it alone.
ConnectionsOwned == ReactorOrExecutor /\ OneRequestAtATime

\* invoke_event_handler() finds the handler of every event of the batch
\* (assert(handler), reactor_impl.h:213), though handlers unregister, free and
\* create connections while the batch is dispatched.
EventsHaveHandlers ==
    \A h \in Conns \cup {Acceptor, Stopper} : batch[h] # {} \/ polled[h] # {} => mask[h] # {}

\* handle_output() always has something to send (http_server.cc:106-124).
OutputHasResponse ==
    \A c \in Conns : "OUTPUT" \in mask[c] => response[c].left > 0

\* poll() never blocks on a copy of the handlers that misses a response, without
\* an interrupt that has been sent or is about to be sent: the executor registers
\* the connection first and interrupts afterwards (server.cc:237-244,
\* executor.cc:198-201, reactor_impl.h:253-265).
NoMissedResponse ==
    phase = "poll" =>
        \A c \in Conns :
            mask[c] # polled[c] => bytes > 0 \/ \E t \in Threads : answered[t] /\ conn[job[t]] = c

\* Nor does it block with exit_flag set and no interrupt on its way, whatever
\* number of interrupts the loop has taken before (server.cc:81-90, 259-265).
NoMissedExit ==
    exitFlag /\ phase \in {"user", "poll"} => bytes > 0 \/ stopping # {}

\* poll() blocks only while nothing that happened since its copy of the handlers
\* needs it awake (reactor_impl.h:253-265, server.cc:81-90).
NothingMissed == NoMissedResponse /\ NoMissedExit

\* A response to a request is sent completely before the connection is freed or
\* anything else is put into its buffer, unless the client has reset it: neither
\* the client's shutting down its end nor further input cuts it off
\* (http_server.cc:79-124).
ResultNotCut ==
    [][\A c \in Conns :
        response[c].kind = "result" =>
            \/ response'[c].kind = "result" /\ response'[c].left <= response[c].left
            \/ SendAllAndKeep(c) \/ SendAllAndClose(c)
            \/ peer[c] = "reset"]_vars

\* A request that was executed is answered as long as the server works.
RequestsAnswered ==
    \A c \in Conns :
        Executing(c) ~> \/ mask[c] = {"INPUT"} /\ response[c] = NoResponse
                        \/ ~alloc[c]
                        \/ peer[c] = "reset"
                        \/ working # "loop"

\* set_exit_flag() ends work(), however busy the server is and whichever thread
\* calls it.
StopHonoured == (exitFlag /\ working = "loop") ~> working = "no"

=============================================================================
