---------------------------- MODULE ClientSession ----------------------------
(***************************************************************************)
(* A client that makes one call after another (client.cc, client_conn.cc,  *)
(* http_client.cc, connector.cc, client_opts.h), with or without keep-alive *)
(* and timeout, and the server and network it talks to.                    *)
(*                                                                         *)
(* A client owns one connection object at most, in conn_cache or, without  *)
(* keep-alive, for the length of a call.  Every connection has its reactor, *)
(* whose only handler it is; nothing else runs, so a call of               *)
(* handle_events() waits until a registered event is ready, and dispatches  *)
(* it in one step, or until its time is over.  A signal ends it, too, with  *)
(* nothing to dispatch; the next call of it has all the time again.        *)
(*                                                                         *)
(* A request is RequestParts pieces of the number of its call; a response  *)
(* is ResponseParts pieces [call, part], or pieces without end.  Its code, *)
(* 200 or not, and its XML do not matter here: Error_response and Fault are *)
(* answers too.                                                            *)
(***************************************************************************)
EXTENDS Naturals, Sequences, FiniteSets, SequencesExt

CONSTANTS Timeouts,       \* the timeouts the user may set
          MayKeepAlive,   \* may the user set keep-alive
          MaxCalls,       \* how many calls are made
          RequestParts,   \* in how many pieces a request may leave
          ResponseParts,  \* in how many pieces a response may arrive
          BufferParts,    \* how many pieces fill read_buf
          PipeParts       \* how many pieces the way to the server takes

ASSUME ClientAssumption ==
    /\ Timeouts \subseteq {"none", "zero", "some"} /\ Timeouts # {}
    /\ MayKeepAlive \in BOOLEAN
    /\ MaxCalls \in Nat
    /\ RequestParts \in Nat \ {0} /\ ResponseParts \in Nat \ {0}
    /\ BufferParts \in Nat \ {0} /\ PipeParts \in Nat \ {0}

VARIABLES
    keepAlive, timeout,   \* the options: "none" is negative, "zero" is 0
    call,         \* the number of the current or last call
    stage,        \* where the current call is
    result,       \* how the last call ended
    waited,       \* has some of the time of handle_events() gone by
    conn,         \* does the connection object exist
    registered,   \* the events it is registered for
    outLeft,      \* how much of out_str is left
    cache,        \* what the packet reader has in its caches
    failed,       \* history: has a call on this connection ended without answer
    link,         \* the TCP connection
    toServer, inFlight, toClient,   \* what is on its way
    sockets,      \* how many sockets the client has open
    refused       \* how many connect() has refused at once

optionState == <<keepAlive, timeout>>
connState   == <<conn, registered, outLeft, cache, failed>>
wireState   == <<link, toServer, inFlight, toClient>>
socketState == <<sockets, refused>>

vars == <<optionState, call, stage, result, waited, connState, wireState, socketState>>

\* idle:       no call is running
\* connecting: inside handle_events() of Connector_base::connect()
\* session:    in the loop of do_process_session()
\* receiving:  in the loop of handle_input(), after a full buffer
Stages == {"idle", "connecting", "session", "receiving"}
Links  == {"none", "connecting", "open", "closed", "reset"}

Outcomes == {"none", "answer", "timeout", "network", "again", "malformed"}
Failure(kind) == [kind |-> kind, call |-> 0]
Answer(k)     == [kind |-> "answer", call |-> k]

Pieces == [call : 0..MaxCalls, part : 0..ResponseParts]
Response(k) == [i \in 1..ResponseParts |-> [call |-> k, part |-> i]]

\* A piece of a response that never ends.
Drop == [call |-> 0, part |-> 0]

-----------------------------------------------------------------------------
Init ==
    /\ keepAlive = FALSE /\ timeout \in Timeouts
    /\ call = 0 /\ stage = "idle" /\ result = Failure("none") /\ waited = FALSE
    /\ conn = FALSE /\ registered = {} /\ outLeft = 0 /\ cache = <<>> /\ failed = FALSE
    /\ link = "none" /\ toServer = <<>> /\ inFlight = <<>> /\ toClient = <<>>
    /\ sockets = 0 /\ refused = 0

-----------------------------------------------------------------------------
\* Mutant: the socket is closed twice.
CloseSocketTwice ==
    /\ link' = "none"
    /\ toServer' = <<>> /\ inFlight' = <<>> /\ toClient' = <<>>
    /\ sockets' = sockets - 2
    /\ UNCHANGED refused

\* The socket is closed, and with it all that is under way.
CloseSocket ==
    /\ link' = "none"
    /\ toServer' = <<>> /\ inFlight' = <<>> /\ toClient' = <<>>
    /\ sockets' = sockets - 1
    /\ UNCHANGED refused

\* The connection object is deleted.
DropConnection ==
    /\ conn' = FALSE /\ registered' = {} /\ outLeft' = 0 /\ cache' = <<>> /\ failed' = FALSE
    /\ CloseSocket

\* execute() ends on a connection: ~Auto_conn() deletes it unless it is kept.
EndCall(outcome, events, left, packets) ==
    /\ stage' = "idle"
    /\ result' = outcome
    /\ IF keepAlive
       THEN /\ registered' = events /\ outLeft' = left /\ cache' = packets
            /\ failed' = (failed \/ outcome.kind # "answer")
            /\ UNCHANGED <<conn, link, toServer, inFlight, socketState>>
       ELSE DropConnection
    /\ UNCHANGED <<optionState, call>>

\* An exception leaves execute(); what is registered stays registered.
Fail(kind) == EndCall(Failure(kind), registered, outLeft, cache)

\* do_process_session() starts: the request replaces what is left of another.
BeginSession ==
    /\ stage' = "session"
    /\ outLeft' = RequestParts
    /\ registered' = registered \cup {"OUTPUT"}

-----------------------------------------------------------------------------
(* The options, set between calls *)

SetKeepAlive(flag) ==
    /\ stage = "idle"
    /\ MayKeepAlive
    /\ keepAlive' = flag
    /\ IF conn /\ ~flag THEN DropConnection
       ELSE UNCHANGED <<connState, wireState, socketState>>
    /\ UNCHANGED <<timeout, call, stage, result>>

SetTimeout(t) ==
    /\ stage = "idle"
    /\ timeout' = t
    /\ UNCHANGED <<keepAlive, call, stage, result, connState, wireState, socketState>>

-----------------------------------------------------------------------------
(* execute() and the connector *)

Execute ==
    /\ stage = "idle"
    /\ call < MaxCalls
    /\ call' = call + 1
    /\ UNCHANGED optionState

\* There is a connection in conn_cache, in whatever state.
ExecuteOnKept ==
    /\ Execute
    /\ conn
    /\ BeginSession
    /\ result' = Failure("none")
    /\ UNCHANGED <<conn, cache, failed, wireState, socketState>>

\* A new socket; connect() is non-blocking.
ExecuteOnNew ==
    /\ Execute
    /\ ~conn
    /\ sockets' = sockets + 1
    /\ UNCHANGED <<cache, failed, toServer, inFlight, toClient>>

ConnectAtOnce ==
    /\ ExecuteOnNew
    /\ conn' = TRUE /\ link' = "open"
    /\ BeginSession
    /\ result' = Failure("none")
    /\ UNCHANGED refused

ConnectInProgress ==
    /\ ExecuteOnNew
    /\ link' = "connecting"
    /\ stage' = "connecting"
    /\ result' = Failure("none")
    /\ UNCHANGED <<conn, registered, outLeft, refused>>

\* Socket::connect() throws: nobody closes the socket.
ConnectRefused ==
    /\ ExecuteOnNew
    /\ refused' = refused + 1
    /\ result' = Failure("network")
    /\ UNCHANGED <<stage, link, conn, registered, outLeft>>

\* handle_events() returns true: the socket became writable, or a signal came
\* and the connection is not established yet.
ConnectSucceeds ==
    /\ stage = "connecting"
    /\ link \in {"open", "closed"}
    /\ conn' = TRUE
    /\ BeginSession
    /\ UNCHANGED <<optionState, call, result, cache, failed, wireState, socketState>>

ConnectInterrupted ==
    /\ stage = "connecting"
    /\ link = "connecting"
    /\ conn' = TRUE
    /\ BeginSession
    /\ UNCHANGED <<optionState, call, result, cache, failed, wireState, socketState>>

GiveUpConnecting(kind) ==
    /\ stage = "connecting"
    /\ stage' = "idle"
    /\ result' = Failure(kind)
    /\ CloseSocket
    /\ UNCHANGED <<optionState, call, connState>>

\* Connect_processor::handle_output() finds an error.
ConnectFails ==
    /\ link = "reset"
    /\ GiveUpConnecting("network")

\* Mutants: the socket is not closed; the timeout is used when it is zero.
ConnectTimesOutAndLeaks ==
    /\ stage = "connecting" /\ link = "connecting" /\ timeout = "some" /\ waited
    /\ stage' = "idle" /\ result' = Failure("timeout") /\ link' = "none"
    /\ UNCHANGED <<optionState, call, connState, toServer, inFlight, toClient, socketState>>

ConnectTimesOutAtZero ==
    /\ link = "connecting" /\ timeout = "zero"
    /\ GiveUpConnecting("timeout")

\* The time is over; only a positive timeout is used here.
ConnectTimesOut ==
    /\ link = "connecting"
    /\ timeout = "some" /\ waited
    /\ GiveUpConnecting("timeout")

-----------------------------------------------------------------------------
(* do_process_session() *)

InputReady  == "INPUT" \in registered /\ (toClient # <<>> \/ link \in {"closed", "reset"})
OutputReady ==
    \/ "OUTPUT" \in registered /\ link \in {"open", "closed"} /\ Len(toServer) < PipeParts
    \/ registered # {} /\ link = "reset"

\* Input hides output, see Reactor.
OutputDispatched == stage = "session" /\ OutputReady /\ ~InputReady

\* Mutant: register_handler(INPUT) is forgotten.
SentForgetsInput == registered' = {}

\* The whole request has left: wait for the response.
SentAll == registered' = {"INPUT"}

\* handle_output(): send() takes n pieces; a server that has closed its end
\* discards them.
Send(n) ==
    /\ OutputDispatched
    /\ link # "reset"
    /\ n <= outLeft
    /\ Len(toServer) + n <= PipeParts
    /\ outLeft' = outLeft - n
    /\ toServer' = IF link = "open" THEN toServer \o [i \in 1..n |-> call] ELSE toServer
    /\ IF outLeft' = 0 THEN SentAll ELSE UNCHANGED registered
    /\ UNCHANGED <<optionState, call, stage, result, conn, cache, failed>>
    /\ UNCHANGED <<link, inFlight, toClient, socketState>>

SendFails ==
    /\ OutputDispatched
    /\ link = "reset"
    /\ Fail("network")
    /\ toClient' = IF keepAlive THEN toClient ELSE <<>>

\* handle_input(): the first round of its loop, and the rounds after a full
\* buffer, which do not ask whether there is anything to read.
Receives == (stage = "session" /\ InputReady) \/ stage = "receiving"

Take == IF Len(toClient) < BufferParts THEN Len(toClient) ELSE BufferParts

Cached == cache \o SubSeq(toClient, 1, Take)
PacketComplete  == Cached[1] # Drop /\ Len(Cached) >= ResponseParts
PacketMalformed == Cached[1].part > 1

\* Mutant: the packet reader is not cleared for the next packet.
ReceiveAndKeepCache ==
    /\ Receives /\ link # "reset" /\ toClient # <<>>
    /\ ~PacketMalformed /\ PacketComplete
    /\ EndCall(Answer(Cached[1].call), {}, outLeft, Cached)
    /\ toClient' = IF keepAlive THEN SubSeq(toClient, Take + 1, Len(toClient)) ELSE <<>>

\* The response is complete: what was read beyond it is dropped.
ReceiveResponse ==
    /\ Receives
    /\ link # "reset" /\ toClient # <<>>
    /\ ~PacketMalformed /\ PacketComplete
    /\ EndCall(Answer(Cached[1].call), {}, outLeft, <<>>)
    /\ toClient' = IF keepAlive THEN SubSeq(toClient, Take + 1, Len(toClient)) ELSE <<>>

\* It is not: the loop goes on if the buffer was filled.  How much has come of a
\* response without end is forgotten: it grows for ever.
ReceivePart ==
    /\ Receives
    /\ link # "reset" /\ toClient # <<>>
    /\ ~PacketMalformed /\ ~PacketComplete
    /\ cache' = IF Cached[1] = Drop THEN <<Drop>> ELSE Cached
    /\ toClient' = SubSeq(toClient, Take + 1, Len(toClient))
    /\ stage' = IF Take = BufferParts THEN "receiving" ELSE "session"
    /\ UNCHANGED <<optionState, call, result, conn, registered, outLeft, failed>>
    /\ UNCHANGED <<link, toServer, inFlight, socketState>>

\* What arrives is not the beginning of a response.
ReceiveMalformed ==
    /\ Receives
    /\ link # "reset" /\ toClient # <<>>
    /\ PacketMalformed
    /\ EndCall(Failure("malformed"), registered, outLeft, Cached)
    /\ toClient' = IF keepAlive THEN SubSeq(toClient, Take + 1, Len(toClient)) ELSE <<>>

\* "Connection closed by peer.", or recv() throws.
ReceiveEnd ==
    /\ Receives
    /\ \/ toClient = <<>> /\ link = "closed"
       \/ link = "reset"
    /\ Fail("network")
    /\ toClient' = IF keepAlive THEN toClient ELSE <<>>

\* recv() on the non-blocking socket has nothing to return and throws.
ReceiveWouldBlock ==
    /\ stage = "receiving"
    /\ toClient = <<>> /\ link = "open"
    /\ Fail("again")
    /\ toClient' = IF keepAlive THEN toClient ELSE <<>>

\* Nothing is ready: poll() sleeps.
Asleep ==
    \/ (stage = "connecting" /\ link = "connecting")
    \/ (stage = "session" /\ ~InputReady /\ ~OutputReady)

\* handle_events() returns false: the time is over, or nothing is registered.
SessionTimesOut ==
    /\ stage = "session"
    /\ \/ registered = {}
       \/ Asleep /\ (timeout = "zero" \/ (timeout = "some" /\ waited))
    /\ Fail("timeout")
    /\ toClient' = IF keepAlive THEN toClient ELSE <<>>

\* A signal comes: handle_events() returns true, and the loop calls it again with
\* the whole of the timeout.
SessionInterrupted ==
    /\ stage = "session" /\ Asleep
    /\ waited
    /\ waited' = FALSE
    /\ UNCHANGED <<optionState, call, stage, result, connState, wireState, socketState>>

\* Some of the timeout goes by.
TimePasses ==
    /\ Asleep /\ timeout = "some"
    /\ waited' = TRUE
    /\ UNCHANGED <<optionState, call, stage, result, connState, wireState, socketState>>

-----------------------------------------------------------------------------
(* The network and the server *)

LinkEstablished ==
    /\ link = "connecting"
    /\ link' \in {"open", "reset"}
    /\ UNCHANGED <<optionState, call, stage, result, connState, socketState>>
    /\ UNCHANGED <<toServer, inFlight, toClient>>

\* The server reads a request and answers it.  Pieces of two requests are not a
\* request: the answer is none to any call.
ServerAnswers ==
    /\ link = "open"
    /\ Len(toServer) >= RequestParts
    /\ LET request == SubSeq(toServer, 1, RequestParts)
           k == IF \A i \in DOMAIN request : request[i] = request[1] THEN request[1] ELSE 0
       IN  inFlight' = inFlight \o Response(k)
    /\ toServer' = SubSeq(toServer, RequestParts + 1, Len(toServer))
    /\ UNCHANGED <<optionState, call, stage, result, connState, socketState, link, toClient>>

\* Its response to a request has no end: another piece of it.
ServerDrips ==
    /\ link = "open"
    /\ Len(toServer) >= RequestParts
    /\ inFlight = <<>> /\ toClient = <<>>
    /\ inFlight' = <<Drop>>
    /\ UNCHANGED <<optionState, call, stage, result, connState, socketState>>
    /\ UNCHANGED <<link, toServer, toClient>>

Deliver ==
    /\ link = "open"
    /\ inFlight # <<>>
    /\ toClient' = Append(toClient, Head(inFlight))
    /\ inFlight' = Tail(inFlight)
    /\ UNCHANGED <<optionState, call, stage, result, connState, socketState, link, toServer>>

ServerCloses ==
    /\ link = "open"
    /\ link' = "closed"
    /\ toServer' = <<>> /\ inFlight' = <<>>
    /\ UNCHANGED <<optionState, call, stage, result, connState, socketState, toClient>>

LinkResets ==
    /\ link \in {"open", "closed"}
    /\ link' = "reset"
    /\ toServer' = <<>> /\ inFlight' = <<>> /\ toClient' = <<>>
    /\ UNCHANGED <<optionState, call, stage, result, connState, socketState>>

-----------------------------------------------------------------------------
\* What a call does by itself.  After each step handle_events() starts anew.
CallStep ==
    /\ \/ ConnectSucceeds \/ ConnectFails \/ ConnectTimesOut
       \/ \E n \in 1..RequestParts : Send(n)
       \/ SendFails
       \/ ReceiveResponse \/ ReceivePart \/ ReceiveMalformed \/ ReceiveEnd
       \/ ReceiveWouldBlock
       \/ SessionTimesOut
    /\ waited' = FALSE

User ==
    /\ \/ \E flag \in BOOLEAN : SetKeepAlive(flag)
       \/ \E t \in Timeouts : SetTimeout(t)
       \/ ExecuteOnKept \/ ConnectAtOnce \/ ConnectInProgress \/ ConnectRefused
    /\ waited' = FALSE

Signal == \/ ConnectInterrupted /\ waited' = FALSE
          \/ SessionInterrupted

Environment ==
    /\ \/ LinkEstablished \/ ServerAnswers \/ ServerDrips \/ Deliver
       \/ ServerCloses \/ LinkResets
    /\ UNCHANGED waited

Next == User \/ CallStep \/ TimePasses \/ Signal \/ Environment

Spec == Init /\ [][Next]_vars

\* The thread that makes the call runs, and time goes on.  The server, the
\* network and signals owe nothing.
FairSpec == Spec /\ WF_vars(CallStep) /\ WF_vars(TimePasses)

-----------------------------------------------------------------------------
TypeOK ==
    /\ keepAlive \in BOOLEAN /\ timeout \in Timeouts
    /\ call \in 0..MaxCalls /\ stage \in Stages
    /\ result \in [kind : Outcomes, call : 0..MaxCalls]
    /\ waited \in BOOLEAN /\ conn \in BOOLEAN /\ failed \in BOOLEAN
    /\ registered \subseteq {"INPUT", "OUTPUT"}
    /\ outLeft \in 0..RequestParts
    /\ cache \in Seq(Pieces)
    /\ link \in Links
    /\ toServer \in Seq(1..MaxCalls)
    /\ inFlight \in Seq(Pieces) /\ toClient \in Seq(Pieces)
    /\ sockets \in Nat /\ refused \in Nat

\* A call returns the answer to its own request, on a new connection and on a
\* kept one, unless an earlier call on the kept connection has failed
\* (http_client.cc:25-67, http.cc:408-492).
AnswerBelongsToCall ==
    [][result' # result /\ result'.kind = "answer" /\ ~failed => result'.call = call]_vars

\* Whichever way a call ends, keep-alive is switched and connecting is given up,
\* no socket stays open but those that connect() has refused at once: these
\* nobody closes (connector.cc:51-70, client.cc:49-53, 114-120).  "Fix socket
\* leakage in client when connection process is timed out" (NEWS:22) is kept; what
\* NEWS:119 promises is not, see EverySocketCloses.
OnlyRefusedSocketsLeak ==
    sockets = refused + (IF conn \/ stage = "connecting" THEN 1 ELSE 0)

\* The loop never waits for something that cannot concern the call: it waits for
\* output while a part of the request is left and for input from then on, whatever
\* earlier calls have left registered on a kept connection (http_client.cc:29-52).
WaitsForItsOwn ==
    stage = "session" => IF outLeft > 0 THEN "OUTPUT" \in registered
                                        ELSE registered = {"INPUT"}

\* The timeout limits each wait, not the call: do_process_session() starts it anew
\* after every event and every signal.  So a call with a positive timeout returns,
\* whatever the server and the network do or fail to do, unless it is kept alive by
\* a response that never ends or by signals that never stop
\* (http_client.cc:31-36, connector.cc:63-67, reactor_poll_impl.cc:47-61).
KeptAlive == []<><<ServerDrips \/ SessionInterrupted>>_vars
CallReturns == ~KeptAlive => ((stage # "idle" /\ timeout = "some") ~> stage = "idle")

-----------------------------------------------------------------------------
\* "Perform Remote Procedure Call" (client.h:35): a call returns the answer to its
\* request.  After a Client_timeout on a kept connection, the next call returns
\* the late answer to the earlier one.
AnswerMatchesCall == result.kind = "answer" => result.call = call

\* "Fix socket resource leak in case of error occured during connection process"
\* (NEWS:119): a client has no socket open but that of its connection, or of the one
\* it is making.  When connect() fails at once, its socket stays open.
EverySocketCloses ==
    sockets = IF conn \/ stage = "connecting" THEN 1 ELSE 0

=============================================================================
