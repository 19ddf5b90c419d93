---------------------------- MODULE HttpsSession ----------------------------
(***************************************************************************)
(* An HTTPS client and an HTTPS server at the two ends of one connection:  *)
(* the reaction machine of ssl_connection.cc, which both use, the client's *)
(* calls (https_client.cc, client.cc), the server's requests               *)
(* (https_server.cc, server_conn.cc), and OpenSSL and TCP between them.    *)
(*                                                                         *)
(* An end is registered with its reactor for the direction OpenSSL asked   *)
(* for, and whatever event comes, handle_input() and handle_output() first *)
(* remove the whole entry (see Reactor) and then do the operation `state'  *)
(* names.  So an event is one step, and its direction does not matter.     *)
(*                                                                         *)
(* OpenSSL: the handshake is a number of flights in turn, beginning with   *)
(* the client's; a message is Parts records, and SSL_read() returns one    *)
(* (the 64 KB of read_buf hold any record, so SSL_pending() is 0 and       *)
(* fake_event() is never called); a record is written when there is room   *)
(* for it; close_notify is a record.  OpenSSL remembers a message it could *)
(* not write completely.                                                   *)
(***************************************************************************)
EXTENDS Naturals, Sequences, SequencesExt

CONSTANTS Flights,    \* of the handshake
          Parts,      \* records of a request or response
          WireSizes,  \* how many records may be under way in one direction
          MaxCalls    \* how many calls are made

ASSUME SessionAssumption ==
    /\ Flights \in Nat \ {0} /\ Parts \in Nat \ {0} /\ WireSizes \subseteq Nat \ {0}
    /\ MaxCalls \in Nat \ {0}

VARIABLES
    state, registered,   \* of each end
    open,          \* does the connection object exist
    toWrite,       \* records that send_buf still has for OpenSSL
    unfinished,    \* does OpenSSL remember a write: "none", one from send_buf
                   \* ("same"), or from another buffer ("moved")
    cache,         \* what the packet reader has of a message
    flight,        \* how many flights an end has sent or taken
    sent, received,      \* the shutdown flags
    wire, reset,   \* the records under way from each end; has TCP given up
    wireSize,      \* how many fit
    keep, timed,   \* the client's options: keep-alive, a timeout
    stage, call, result, established,   \* the client
    executing, keepAlive,               \* the server: what a pool thread works on
    failed,        \* history: has a call ended without its answer
    disturbed,     \* history: has something happened that excuses that
    refused        \* history: has the server refused a request

machine == <<state, registered, toWrite, unfinished, cache>>
tls     == <<flight, sent, received>>
net     == <<open, wire, reset, wireSize>>
client  == <<keep, timed, stage, call, result, established, failed>>
server  == <<executing, keepAlive, refused>>
vars    == <<machine, tls, net, client, server, disturbed>>

Ends     == {"client", "server"}
Other(e) == IF e = "client" THEN "server" ELSE "client"
States   == {"EMPTY", "ACCEPTING", "CONNECTING", "READING", "WRITING", "SHUTDOWN"}
Handshaking(e) == state[e] \in {"ACCEPTING", "CONNECTING"}

Piece(k, i)  == [kind |-> "piece", call |-> k, part |-> i]
Flight       == [kind |-> "flight", call |-> 0, part |-> 0]
CloseNotify  == [kind |-> "notify", call |-> 0, part |-> 0]
Message(k)   == [i \in 1..Parts |-> Piece(k, i)]
Pieces       == {Piece(k, i) : k \in 0..MaxCalls, i \in 1..Parts}
Records      == Pieces \cup {Flight, CloseNotify}

Answer(k)     == [kind |-> "answer", call |-> k]
Failure(kind) == [kind |-> kind, call |-> 0]
Outcomes      == {"none", "answer", "timeout", "error"}

Both(x)      == [e \in Ends |-> x]

-----------------------------------------------------------------------------
\* The connection is established; both ends have called reg_connect() or
\* reg_accept(), and the first call has begun.
Init ==
    /\ state = [e \in Ends |-> IF e = "client" THEN "CONNECTING" ELSE "ACCEPTING"]
    /\ registered = [e \in Ends |-> IF e = "client" THEN {"OUTPUT"} ELSE {"INPUT"}]
    /\ open = Both(TRUE)
    /\ toWrite = Both(<<>>) /\ unfinished = Both("none") /\ cache = Both(<<>>)
    /\ flight = Both(0) /\ sent = Both(FALSE) /\ received = Both(FALSE)
    /\ wire = Both(<<>>) /\ reset = FALSE /\ wireSize \in WireSizes
    /\ keep \in BOOLEAN /\ timed \in BOOLEAN
    /\ stage = "calling" /\ call = 1 /\ result = Failure("none")
    /\ established = FALSE
    /\ executing = {} /\ keepAlive = FALSE /\ refused = FALSE
    /\ failed = FALSE /\ disturbed = FALSE

-----------------------------------------------------------------------------
(* What poll() and OpenSSL find *)

Room(e)        == Len(wire[e]) < wireSize
Incoming(e)    == wire[Other(e)]
EndOfStream(e) == ~open[Other(e)] /\ Incoming(e) = <<>>

\* poll() has an event for this end.  A reset is an event for any entry.
Ready(e) ==
    \/ "INPUT" \in registered[e] /\ (Incoming(e) # <<>> \/ EndOfStream(e))
    \/ "OUTPUT" \in registered[e] /\ Room(e)
    \/ registered[e] # {} /\ reset

\* The reactor calls an end's handler, which calls switch_state().  A client's
\* reactor runs inside calls only.
Reacts(e) == Ready(e) /\ (e = "client" => stage = "calling")

\* The number of the flight that follows, and whose it is.
Turn(n) == IF n % 2 = 0 THEN "client" ELSE "server"

-----------------------------------------------------------------------------
(* The operations of Reaction_connection *)

\* A handler leaves its end with one operation and one direction to wait for.
Reg(e, st, ev) ==
    /\ state' = [state EXCEPT ![e] = st]
    /\ registered' = [registered EXCEPT ![e] = {ev}]

\* It leaves it with nothing: not registered.
RegNothing(e, st) ==
    /\ state' = [state EXCEPT ![e] = st]
    /\ registered' = [registered EXCEPT ![e] = {}]

RegRecv(e) == Reg(e, "READING", "INPUT")

\* reg_send().  When OpenSSL remembers an unfinished write, it refuses a write
\* from another buffer, and of the same buffer writes what it has prepared and
\* goes on behind it.
Prepare(e, message) ==
    IF unfinished[e] = "none"
    THEN /\ toWrite' = [toWrite EXCEPT ![e] = message]
         /\ UNCHANGED unfinished
    ELSE \/ /\ unfinished' = [unfinished EXCEPT ![e] = "moved"]
            /\ UNCHANGED toWrite
         \/ /\ toWrite' = [toWrite EXCEPT
                   ![e] = <<Head(@)>> \o SubSeq(message, Parts - Len(@) + 2, Parts)]
            /\ UNCHANGED unfinished

RegSend(e, message) == Reg(e, "WRITING", "OUTPUT") /\ Prepare(e, message)

-----------------------------------------------------------------------------
(* The ends of a connection and of a call *)

\* What is under way after a step of e that leaves `out' from it and `in' to it.
UnderWay(e, out, in) ==
    /\ wire' = [x \in Ends |-> IF x = e THEN out ELSE in]
    /\ UNCHANGED wireSize

\* The object is deleted and the socket closed.  With data unread in it, TCP
\* resets the connection.
Close(e, out, in) ==
    /\ open' = [open EXCEPT ![e] = FALSE]
    /\ IF in # <<>> THEN reset' = TRUE /\ UnderWay(e, <<>>, <<>>)
                    ELSE UNCHANGED reset /\ UnderWay(e, out, in)

\* Server: the handler has set `terminate' or thrown; the reactor unregisters
\* the connection and finish() deletes it.
FreeServer(out) ==
    /\ Close("server", out, Incoming("server"))
    /\ RegNothing("server", "EMPTY")
    /\ UNCHANGED <<toWrite, unfinished, cache, client, server, disturbed>>

\* Client: execute() returns or throws; ~Auto_conn() deletes the connection
\* unless it is kept.
EndCall(outcome, in) ==
    /\ result' = outcome
    /\ failed' = (failed \/ outcome.kind # "answer")
    /\ stage' = IF keep THEN "idle" ELSE "over"
    /\ IF keep THEN UnderWay("client", wire["client"], in) /\ UNCHANGED <<open, reset>>
               ELSE Close("client", wire["client"], in)
    /\ UNCHANGED <<keep, timed, call, established, server>>

\* Mutant: `terminate' is not set.
ThrowsAndStays(e) ==
    /\ RegNothing(e, state[e])
    /\ UNCHANGED <<toWrite, unfinished, cache, tls, net, client, server, disturbed>>

\* An operation throws something else than a wish of OpenSSL's: the reactor
\* terminates a server connection, a client's caller gets the exception.
Throws(e) ==
    /\ UNCHANGED tls
    /\ \/ e = "server" /\ FreeServer(wire["server"])
       \/ /\ e = "client"
          /\ EndCall(Failure("error"), Incoming("client"))
          /\ RegNothing("client", state["client"])
          /\ UNCHANGED <<toWrite, unfinished, cache, disturbed>>

\* `terminate' is set; finish() does nothing to a client connection.
Terminates(e, out) ==
    \/ e = "server" /\ FreeServer(out)
    \/ /\ e = "client"
       /\ RegNothing("client", state["client"])
       /\ UnderWay("client", out, Incoming("client"))
       /\ UNCHANGED <<open, reset, toWrite, unfinished, cache, client, server, disturbed>>

-----------------------------------------------------------------------------
(* switch_state(): ACCEPTING and CONNECTING *)

\* SSL_accept() or SSL_connect() takes the flight that has come and sends its own.
Takes(e)   == Turn(flight[e]) # e /\ Incoming(e) # <<>>
Taken(e)   == flight[e] + (IF Takes(e) THEN 1 ELSE 0)
Owes(e)    == Taken(e) < Flights /\ Turn(Taken(e)) = e
Reached(e) == Taken(e) + (IF Owes(e) /\ Room(e) THEN 1 ELSE 0)

Handshake(e) ==
    /\ Reacts(e)
    /\ Handshaking(e)
    /\ ~reset
    /\ Turn(flight[e]) = e \/ ~EndOfStream(e)
    /\ flight' = [flight EXCEPT ![e] = Reached(e)]
    /\ UnderWay(e, IF Owes(e) /\ Room(e) THEN Append(wire[e], Flight) ELSE wire[e],
                   IF Takes(e) THEN Tail(Incoming(e)) ELSE Incoming(e))
    /\ UNCHANGED <<open, reset, sent, received, cache, server, disturbed>>

\* need_read or need_write.
HandshakeWaits(e) ==
    /\ Handshake(e)
    /\ Reached(e) < Flights
    /\ Reg(e, state[e], IF Owes(e) /\ ~Room(e) THEN "OUTPUT" ELSE "INPUT")
    /\ UNCHANGED <<toWrite, unfinished, client>>

\* accept_succeed(), connect_succeed().
Accepted ==
    /\ Handshake("server")
    /\ Reached("server") = Flights
    /\ RegRecv("server")
    /\ UNCHANGED <<toWrite, unfinished, client>>

Connected ==
    /\ Handshake("client")
    /\ Reached("client") = Flights
    /\ established' = TRUE
    /\ RegSend("client", Message(call))
    /\ UNCHANGED <<keep, timed, stage, call, result, failed>>

-----------------------------------------------------------------------------
(* switch_state(): READING *)

\* recv() returns the record that has come, or throws need_read.
Receives(e) ==
    /\ Reacts(e)
    /\ state[e] = "READING"
    /\ ~reset /\ ~received[e]
    /\ Incoming(e) # <<>>
    /\ Head(Incoming(e)) \in Pieces
    /\ UNCHANGED tls

Rest(e)     == Tail(Incoming(e))
Cached(e)   == Append(cache[e], Head(Incoming(e)))
Complete(e) == Len(Cached(e)) = Parts

Keeps(e, packets) == cache' = [cache EXCEPT ![e] = packets]

\* Server: the request goes on.
ReadRequestPart ==
    /\ Receives("server")
    /\ ~Complete("server")
    /\ Keeps("server", Cached("server"))
    /\ RegRecv("server")
    /\ UnderWay("server", wire["server"], Rest("server"))
    /\ UNCHANGED <<toWrite, unfinished, open, reset, client, server, disturbed>>

\* What the pieces of a request amount to: a mixture of two is a request of its own.
Asks(pieces) == IF \A i \in DOMAIN pieces : pieces[i].call = pieces[1].call
                THEN pieces[1].call ELSE 0

\* Server: read_request() throws, with the request complete or not; the
\* connection shall be closed after the error.
RefuseRequest ==
    /\ Receives("server")
    /\ Keeps("server", Cached("server"))
    /\ keepAlive' = FALSE /\ refused' = TRUE
    /\ RegSend("server", Message(Cached("server")[1].call))
    /\ UnderWay("server", wire["server"], Rest("server"))
    /\ disturbed' = (disturbed \/ ~Complete("server"))
    /\ UNCHANGED <<open, reset, client, executing>>

\* Mutant: keep_alive is not taken from the header.
ReadRequestToClose ==
    /\ Receives("server")
    /\ Complete("server")
    /\ Keeps("server", <<>>)
    /\ keepAlive' = FALSE
    /\ UnderWay("server", wire["server"], Rest("server"))
    /\ UNCHANGED <<open, reset, client, refused, disturbed>>

\* Server: the request is complete and its header tells whether to keep the
\* connection.
ReadRequest ==
    /\ Receives("server")
    /\ Complete("server")
    /\ Keeps("server", <<>>)
    /\ keepAlive' = keep
    /\ UnderWay("server", wire["server"], Rest("server"))
    /\ UNCHANGED <<open, reset, client, refused, disturbed>>

\* schedule_execute(): the pool answers later, or the answer is there at once.
ExecuteRequest ==
    /\ ReadRequest
    /\ executing' = {Asks(Cached("server"))}
    /\ RegNothing("server", "EMPTY")
    /\ UNCHANGED <<toWrite, unfinished>>

AnswerAtOnce ==
    /\ ReadRequest
    /\ RegSend("server", Message(Asks(Cached("server"))))
    /\ UNCHANGED executing

\* The response is put into the connection by a pool thread.
PoolAnswers ==
    \E k \in executing :
        /\ executing' = {}
        /\ RegSend("server", Message(k))
        /\ UNCHANGED <<cache, tls, net, client, keepAlive, refused, disturbed>>

\* Client: the response goes on.
ReadResponsePart ==
    /\ Receives("client")
    /\ ~Complete("client")
    /\ Keeps("client", Cached("client"))
    /\ RegRecv("client")
    /\ UnderWay("client", wire["client"], Rest("client"))
    /\ UNCHANGED <<toWrite, unfinished, open, reset, client, server, disturbed>>

\* Mutant: the packet reader is not cleared.
ReadResponseAndKeep ==
    /\ Receives("client")
    /\ Len(Cached("client")) >= Parts
    /\ Keeps("client", Cached("client"))
    /\ RegNothing("client", "EMPTY")
    /\ EndCall(Answer(Cached("client")[1].call), Rest("client"))
    /\ UNCHANGED <<toWrite, unfinished, disturbed>>

\* Client: the response is complete, do_process_session() returns it.
ReadResponse ==
    /\ Receives("client")
    /\ Complete("client")
    /\ Keeps("client", <<>>)
    /\ RegNothing("client", "EMPTY")
    /\ EndCall(Answer(Cached("client")[1].call), Rest("client"))
    /\ UNCHANGED <<toWrite, unfinished, disturbed>>

-----------------------------------------------------------------------------
(* switch_state(): the connection is closed, and SHUTDOWN *)

\* Mutant: the directions are mixed up.
RegShutdownSwapped(e, s, r) ==
    IF ~s THEN Reg(e, "SHUTDOWN", "INPUT")
    ELSE IF ~r THEN Reg(e, "SHUTDOWN", "OUTPUT")
    ELSE RegNothing(e, "EMPTY")

\* reg_shutdown(), once the flags are `s' and `r'.
RegShutdown(e, s, r) ==
    IF ~s THEN Reg(e, "SHUTDOWN", "OUTPUT")
    ELSE IF ~r THEN Reg(e, "SHUTDOWN", "INPUT")
    ELSE RegNothing(e, "EMPTY")

\* OpenSSL finds a close_notify, finds the end of the stream, or has received a
\* close_notify before: connection_close is thrown and caught.
ConnectionCloses(e) ==
    /\ Reacts(e)
    /\ state[e] = "READING" \/ (Handshaking(e) /\ Turn(flight[e]) # e)
    /\ LET notified == ~reset /\ Incoming(e) # <<>> /\ Head(Incoming(e)) = CloseNotify IN
          /\ notified \/ received[e] \/ (~reset /\ EndOfStream(e))
          /\ received' = [received EXCEPT ![e] = @ \/ notified]
          /\ UnderWay(e, wire[e], IF notified THEN Rest(e) ELSE Incoming(e))
    /\ RegShutdown(e, sent[e], received'[e])
    /\ UNCHANGED <<toWrite, unfinished, cache, flight, sent, open, reset>>
    /\ UNCHANGED <<client, server, disturbed>>

\* SSL_shutdown() sends a close_notify.  It returns 1 when the peer's has come;
\* otherwise SSL_set_shutdown() replaces the flags.
Shutdown(e) ==
    /\ Reacts(e)
    /\ state[e] = "SHUTDOWN"
    /\ ~reset /\ Room(e)
    /\ sent' = [sent EXCEPT ![e] = received[e]]
    /\ received' = [received EXCEPT ![e] = TRUE]
    /\ Terminates(e, Append(wire[e], CloseNotify))
    /\ UNCHANGED flight

\* SSL_shutdown() fails though the peer's close_notify has come: OpenSSL may tell
\* of the close_notify instead of the failure.  With both flags set
\* reg_shutdown() registers nothing, and nobody looks at what it returns.
ShutdownForgotten(e) ==
    /\ Reacts(e)
    /\ state[e] = "SHUTDOWN"
    /\ reset /\ received[e]
    /\ sent' = [sent EXCEPT ![e] = TRUE]
    /\ RegShutdown(e, TRUE, TRUE)
    /\ UNCHANGED <<toWrite, unfinished, cache, flight, received, net, client, server, disturbed>>

-----------------------------------------------------------------------------
(* switch_state(): WRITING *)

Writes(e) ==
    /\ Reacts(e)
    /\ state[e] = "WRITING"
    /\ ~reset /\ ~sent[e] /\ unfinished[e] # "moved"
    /\ UNCHANGED <<open, reset, tls, cache, client, server, disturbed>>

Free(e) == wireSize - Len(wire[e])

\* Mutant: need_write is taken for need_read.
WriteWaitsForInput(e) ==
    /\ Writes(e)
    /\ Free(e) < Len(toWrite[e])
    /\ UnderWay(e, wire[e] \o SubSeq(toWrite[e], 1, Free(e)), Incoming(e))
    /\ toWrite' = [toWrite EXCEPT ![e] = SubSeq(@, Free(e) + 1, Len(@))]
    /\ unfinished' = [unfinished EXCEPT ![e] = "same"]
    /\ Reg(e, "WRITING", "INPUT")

\* There is no room for all records: need_write.
WriteWaits(e) ==
    /\ Writes(e)
    /\ Free(e) < Len(toWrite[e])
    /\ UnderWay(e, wire[e] \o SubSeq(toWrite[e], 1, Free(e)), Incoming(e))
    /\ toWrite' = [toWrite EXCEPT ![e] = SubSeq(@, Free(e) + 1, Len(@))]
    /\ unfinished' = [unfinished EXCEPT ![e] = "same"]
    /\ Reg(e, "WRITING", "OUTPUT")

\* send_succeed(): wait for what follows, or close.
WriteSucceeds(e) ==
    /\ Writes(e)
    /\ Free(e) >= Len(toWrite[e])
    /\ UnderWay(e, wire[e] \o toWrite[e], Incoming(e))
    /\ toWrite' = [toWrite EXCEPT ![e] = <<>>]
    /\ unfinished' = [unfinished EXCEPT ![e] = "none"]
    /\ IF e = "client" \/ keepAlive THEN RegRecv(e) ELSE RegShutdown(e, sent[e], received[e])

\* An operation fails: the connection is reset, ends in the handshake, has no
\* session to shut down, has been shut down, or OpenSSL is given another buffer
\* than before.
Fails(e) ==
    /\ Reacts(e)
    /\ \/ reset /\ ~(state[e] = "READING" /\ received[e])
       \/ Handshaking(e) /\ Turn(flight[e]) # e /\ EndOfStream(e)
       \/ state[e] = "SHUTDOWN" /\ flight[e] < Flights
       \/ state[e] = "WRITING" /\ (sent[e] \/ unfinished[e] = "moved")
    /\ Throws(e)

-----------------------------------------------------------------------------
(* The client's calls *)

\* execute() on the kept connection.  Before the handshake is over it goes on,
\* and the request follows.
BeginCall ==
    /\ stage = "idle"
    /\ call < MaxCalls
    /\ stage' = "calling" /\ call' = call + 1 /\ result' = Failure("none")
    /\ IF established
       THEN /\ state' = [state EXCEPT !["client"] = "WRITING"]
            /\ registered' = [registered EXCEPT !["client"] = @ \cup {"OUTPUT"}]
            /\ Prepare("client", Message(call'))
       ELSE UNCHANGED <<state, registered, toWrite, unfinished>>
    /\ disturbed' = (disturbed \/ refused)
    /\ UNCHANGED <<cache, tls, net, server, keep, timed, established, failed>>

\* handle_events() returns false: the time is over ...
TimesOut ==
    /\ stage = "calling"
    /\ timed
    /\ registered["client"] # {} /\ ~Ready("client")
    /\ EndCall(Failure("timeout"), Incoming("client"))
    /\ disturbed' = TRUE
    /\ registered' = [registered EXCEPT !["client"] = IF keep THEN @ ELSE {}]
    /\ UNCHANGED <<state, toWrite, unfinished, cache, tls>>

\* ... or nothing is registered.
NothingRegistered ==
    /\ stage = "calling"
    /\ registered["client"] = {}
    /\ EndCall(Failure("timeout"), Incoming("client"))
    /\ UNCHANGED <<machine, tls, disturbed>>

\* The client closes the kept connection, with `out' under way to the server.
GoAway(out) ==
    /\ stage = "idle"
    /\ stage' = "over"
    /\ Close("client", out, Incoming("client"))
    /\ RegNothing("client", state["client"])
    /\ UNCHANGED <<toWrite, unfinished, cache, tls, server, disturbed>>
    /\ UNCHANGED <<keep, timed, call, result, established, failed>>

\* set_keep_alive(false), or the client is destroyed.
Drop == GoAway(wire["client"])

\* A client of another make shuts its session down before it closes.
Leave ==
    /\ established /\ ~sent["client"] /\ unfinished["client"] = "none" /\ ~reset
    /\ Room("client")
    /\ GoAway(Append(wire["client"], CloseNotify))

-----------------------------------------------------------------------------
(* TCP *)

Resets ==
    /\ ~reset
    /\ reset' = TRUE
    /\ wire' = Both(<<>>)
    /\ UNCHANGED <<machine, tls, open, wireSize, client, server>>

\* Data arrives at an end that is closed.
ClosedEndResets ==
    /\ \E e \in Ends : ~open[e] /\ Incoming(e) # <<>>
    /\ Resets
    /\ UNCHANGED disturbed

NetworkFails ==
    /\ \A e \in Ends : open[e]
    /\ Resets
    /\ disturbed' = TRUE

-----------------------------------------------------------------------------
EndStep(e) ==
    \/ HandshakeWaits(e) \/ ConnectionCloses(e) \/ Shutdown(e) \/ ShutdownForgotten(e)
    \/ WriteWaits(e) \/ WriteSucceeds(e) \/ Fails(e)

ClientStep ==
    \/ EndStep("client")
    \/ Connected \/ ReadResponsePart \/ ReadResponse
    \/ TimesOut \/ NothingRegistered

ServerStep ==
    \/ EndStep("server")
    \/ Accepted \/ ReadRequestPart \/ RefuseRequest \/ ExecuteRequest \/ AnswerAtOnce

Next ==
    \/ ClientStep \/ ServerStep \/ PoolAnswers
    \/ BeginCall \/ Drop \/ Leave
    \/ ClosedEndResets \/ NetworkFails

Spec == Init /\ [][Next]_vars

\* Both reactors and the pool run, methods return, and TCP answers what arrives
\* at a closed end.  The user of the client and the network owe nothing.
FairSpec ==
    /\ Spec
    /\ WF_vars(ClientStep) /\ WF_vars(ServerStep)
    /\ WF_vars(PoolAnswers) /\ WF_vars(ClosedEndResets)

-----------------------------------------------------------------------------
TypeOK ==
    /\ state \in [Ends -> States]
    /\ registered \in [Ends -> SUBSET {"INPUT", "OUTPUT"}]
    /\ open \in [Ends -> BOOLEAN]
    /\ toWrite \in [Ends -> Seq(Pieces)]
    /\ unfinished \in [Ends -> {"none", "same", "moved"}]
    /\ cache \in [Ends -> Seq(Pieces)] /\ \A e \in Ends : Len(cache[e]) <= Parts
    /\ flight \in [Ends -> 0..Flights]
    /\ sent \in [Ends -> BOOLEAN] /\ received \in [Ends -> BOOLEAN]
    /\ wire \in [Ends -> Seq(Records)] /\ reset \in BOOLEAN /\ wireSize \in WireSizes
    /\ keep \in BOOLEAN /\ timed \in BOOLEAN
    /\ stage \in {"calling", "idle", "over"} /\ call \in 1..MaxCalls
    /\ result \in [kind : Outcomes, call : 0..MaxCalls]
    /\ established \in BOOLEAN /\ keepAlive \in BOOLEAN
    /\ executing \subseteq 0..MaxCalls
    /\ failed \in BOOLEAN /\ disturbed \in BOOLEAN /\ refused \in BOOLEAN

\* The server's connection is the reactor's or an executor's, never both, and is
\* forgotten by both only when its session has been closed in both directions
\* (ssl_connection.cc:200-204, 238-257).
ServerHasOnePlace ==
    /\ registered["server"] # {} => executing = {} /\ open["server"]
    /\ open["server"] => \/ registered["server"] # {} \/ executing # {}
                         \/ sent["server"] /\ received["server"]

\* The operation of this end would not have to wait.
CanGoOn(e) ==
    \/ reset
    \/ Handshaking(e) /\ IF Turn(flight[e]) = e THEN Room(e)
                         ELSE Incoming(e) # <<>> \/ EndOfStream(e)
    \/ state[e] = "READING" /\ (Incoming(e) # <<>> \/ EndOfStream(e) \/ received[e])
    \/ state[e] \in {"WRITING", "SHUTDOWN"} /\ Room(e)

\* An end that waits is woken as soon as its operation can go on: it is registered
\* for the direction that operation needs, whichever way it got there, and has an
\* operation (switch_state(), ssl_connection.cc:155-205).
WokenToWork ==
    \A e \in Ends : registered[e] # {} => state[e] # "EMPTY" /\ (CanGoOn(e) => Ready(e))

\* No connection is left alone: somebody has it, and is woken to go on with it.
Attended == ServerHasOnePlace /\ WokenToWork

\* On a connection on which no call has failed a call returns the answer to its own
\* request (https_client.cc:134-178).
AnswerBelongsToCall ==
    [][result' # result /\ result'.kind = "answer" /\ ~failed => result'.call = call]_vars

\* Nothing the two ends do to each other keeps an answer from its call, be it an
\* error, the last one on a connection the server closes after it, or one that
\* follows others: only the network, a time limit, a server that refuses a request
\* before it has read it all, or, for a call after a refused request, that the server
\* closes the connection then (https_server.cc:75-97).  And Client_timeout
\* means that the time was over, or that the connection has been closed or had
\* failed before (https_client.cc:142-148, reactor_impl.h:283-284).
FailuresExplained ==
    [][result' # result =>
          /\ result'.kind \in {"timeout", "error"} => disturbed'
          /\ result'.kind = "timeout" => timed \/ failed \/ received["client"]]_vars

\* No two ends wait for each other: every call returns, also without a time limit.
CallReturns == stage = "calling" ~> stage # "calling"

\* The server's connection does not outlive its client's, unless it is forgotten.
ServerFollows ==
    ~open["client"] ~> ~open["server"] \/ (sent["server"] /\ received["server"])

=============================================================================
