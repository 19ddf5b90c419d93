------------------------- MODULE ClientSessionProofs -------------------------
(***************************************************************************)
(* Proofs about ClientSession for any number of calls, and any number of   *)
(* pieces a request, a response, the buffer and the way to the server hold. *)
(*                                                                         *)
(* That an answer belongs to its call is not inductive: it needs to know   *)
(* what is in the packet reader's caches, on its way from the server and on *)
(* its way to it (OwnPieces), on every connection no call has failed on.   *)
(***************************************************************************)
EXTENDS ClientSession, SequenceTheorems, TLAPS

Running == stage \in {"session", "receiving"}

\* A call that runs has a number and a connection; where there is none there is
\* nothing.
ConnectionInOrder ==
    /\ stage # "idle" => call > 0
    /\ Running => conn
    /\ stage = "connecting" => ~conn
    /\ link = "none" <=> ~conn /\ stage # "connecting"
    /\ ~conn => /\ registered = {} /\ outLeft = 0 /\ cache = <<>> /\ failed = FALSE
                /\ toServer = <<>> /\ inFlight = <<>> /\ toClient = <<>>

\* WaitsForItsOwn, in the loop of handle_input() too.
WaitsThroughout ==
    Running => IF outLeft > 0 THEN "OUTPUT" \in registered ELSE registered = {"INPUT"}

\* How much there is of a response: read, to be read, and on its way.
Arriving == Len(cache) + Len(toClient) + Len(inFlight)

\* What there is of a response is the beginning of the response to the call.
Piece(i) == [call |-> call, part |-> i]

ResponseOwn ==
    /\ Arriving <= ResponseParts
    /\ \A i \in 1..Len(cache) : cache[i] = Piece(i)
    /\ \A i \in 1..Len(toClient) : toClient[i] = Piece(Len(cache) + i)
    /\ \A i \in 1..Len(inFlight) : inFlight[i] = Piece(Len(cache) + Len(toClient) + i)

\* What there is of a request is the call's, and not more than one request.
RequestOwn ==
    /\ \A i \in 1..Len(toServer) : toServer[i] = call
    /\ outLeft + Len(toServer) <= RequestParts

\* Nothing is left of a request once there is a response, nothing at all between
\* two calls.
OneAfterAnother ==
    /\ Arriving > 0 => outLeft = 0 /\ toServer = <<>>
    /\ ~Running => Arriving = 0 /\ outLeft = 0 /\ toServer = <<>>

\* What there is of a response begins with a piece of one without end.  The call
\* waits for it, or fails.
BeginsEndless ==
    \/ cache # <<>> /\ cache[1] = Drop
    \/ cache = <<>> /\ toClient # <<>> /\ toClient[1] = Drop
    \/ cache = <<>> /\ toClient = <<>> /\ inFlight # <<>> /\ inFlight[1] = Drop

Endless == Running /\ outLeft = 0 /\ BeginsEndless

OwnPieces ==
    ~failed => RequestOwn /\ (Endless \/ (ResponseOwn /\ OneAfterAnother))

IInv ==
    /\ TypeOK
    /\ ConnectionInOrder
    /\ OnlyRefusedSocketsLeak
    /\ WaitsThroughout
    /\ OwnPieces

-----------------------------------------------------------------------------
(* Sequences *)

\* What is left of a sequence when a part is taken.
LEMMA RestFacts ==
    ASSUME NEW S, NEW t \in Seq(S), NEW n \in 0..Len(t)
    PROVE  /\ SubSeq(t, n + 1, Len(t)) \in Seq(S)
           /\ Len(SubSeq(t, n + 1, Len(t))) = Len(t) - n
           /\ \A i \in 1..(Len(t) - n) : SubSeq(t, n + 1, Len(t))[i] = t[i + n]
<1>1. Len(t) \in Nat /\ n \in Nat
  OBVIOUS
<1>2. /\ SubSeq(t, n + 1, Len(t)) \in Seq(S)
      /\ Len(SubSeq(t, n + 1, Len(t))) = Len(t) - n
  BY <1>1
<1>3. \A i \in 1..(Len(t) - n) : SubSeq(t, n + 1, Len(t))[i] = t[i + n]
  BY <1>1
<1> QED
  BY <1>2, <1>3

\* A part of one sequence goes to the end of another.
LEMMA TakenFacts ==
    ASSUME NEW S, NEW s \in Seq(S), NEW t \in Seq(S), NEW n \in 0..Len(t)
    PROVE  /\ s \o SubSeq(t, 1, n) \in Seq(S)
           /\ Len(s \o SubSeq(t, 1, n)) = Len(s) + n
           /\ \A i \in 1..(Len(s) + n) :
                 (s \o SubSeq(t, 1, n))[i] = IF i <= Len(s) THEN s[i] ELSE t[i - Len(s)]
           /\ SubSeq(t, n + 1, Len(t)) \in Seq(S)
           /\ Len(SubSeq(t, n + 1, Len(t))) = Len(t) - n
           /\ \A i \in 1..(Len(t) - n) : SubSeq(t, n + 1, Len(t))[i] = t[i + n]
<1>1. Len(t) \in Nat /\ n \in Nat
  OBVIOUS
<1>2. PICK u : u = SubSeq(t, 1, n)
  OBVIOUS
<1>3. u \in Seq(S) /\ Len(u) = n /\ \A i \in 1..n : u[i] = t[i]
  BY <1>1, <1>2
<1>4. /\ s \o u \in Seq(S) /\ Len(s \o u) = Len(s) + n
      /\ \A i \in 1..(Len(s) + n) : (s \o u)[i] = IF i <= Len(s) THEN s[i] ELSE u[i - Len(s)]
  BY <1>1, <1>3, ConcatProperties
<1>5. ASSUME NEW i \in 1..(Len(s) + n)
      PROVE  (s \o u)[i] = IF i <= Len(s) THEN s[i] ELSE t[i - Len(s)]
  <2>1. CASE i <= Len(s)
    BY <1>4, <2>1
  <2>2. CASE ~(i <= Len(s))
    <3>1. i - Len(s) \in 1..n
      BY <1>1, <2>2
    <3> QED
      BY <1>3, <1>4, <2>2, <3>1
  <2> QED
    BY <2>1, <2>2
<1> QED
  BY <1>2, <1>4, <1>5, RestFacts

\* The first element of a sequence goes to the end of another.
LEMMA MoveFacts ==
    ASSUME NEW S, NEW s \in Seq(S), NEW t \in Seq(S), t # <<>>
    PROVE  /\ Append(s, Head(t)) \in Seq(S) /\ Tail(t) \in Seq(S)
           /\ Len(Append(s, Head(t))) = Len(s) + 1 /\ Len(Tail(t)) = Len(t) - 1
           /\ \A i \in 1..Len(s) : Append(s, Head(t))[i] = s[i]
           /\ Append(s, Head(t))[Len(s) + 1] = t[1]
           /\ \A i \in 1..Len(Tail(t)) : Tail(t)[i] = t[i + 1]
  OBVIOUS

LEMMA EmptyFacts == <<>> \in Seq(Pieces) /\ <<>> \in Seq(1..MaxCalls)
  OBVIOUS

LEMMA DropFacts ==
    /\ Drop \in Pieces /\ <<Drop>> \in Seq(Pieces) /\ <<Drop>> # <<>>
    /\ <<Drop>>[1] = Drop /\ Len(<<Drop>>) = 1
<1>1. Drop \in Pieces
  BY ClientAssumption DEF Drop, Pieces
<1> QED
  BY <1>1

LEMMA ArrivingFacts ==
    ASSUME TypeOK
    PROVE  /\ Len(cache) \in Nat /\ Len(toClient) \in Nat /\ Len(inFlight) \in Nat
           /\ Arriving \in Nat
           /\ Arriving = 0 <=> cache = <<>> /\ toClient = <<>> /\ inFlight = <<>>
  BY DEF TypeOK, Arriving

\* The invariant says nothing of the pieces on a connection a call has failed on.
LEMMA FailedStep == ASSUME failed' PROVE OwnPieces'
  BY DEF OwnPieces

-----------------------------------------------------------------------------
LEMMA InitInvariant == Init => IInv
<1> SUFFICES ASSUME Init PROVE IInv
  OBVIOUS
<1>1. TypeOK
  <2>1. call \in 0..MaxCalls /\ outLeft \in 0..RequestParts
    BY ClientAssumption DEF Init
  <2>2. result \in [kind : Outcomes, call : 0..MaxCalls]
    BY ClientAssumption DEF Init, Failure, Outcomes
  <2>3. /\ cache \in Seq(Pieces) /\ inFlight \in Seq(Pieces) /\ toClient \in Seq(Pieces)
        /\ toServer \in Seq(1..MaxCalls)
    BY EmptyFacts DEF Init
  <2> QED
    BY <2>1, <2>2, <2>3 DEF Init, TypeOK, Stages, Links
<1>2. Arriving = 0
  BY DEF Init, Arriving
<1>3. OwnPieces
  BY <1>2, ClientAssumption DEF Init, OwnPieces, ResponseOwn, RequestOwn, OneAfterAnother,
                                Running
<1> QED
  BY <1>1, <1>3 DEF Init, IInv, ConnectionInOrder, OnlyRefusedSocketsLeak, WaitsThroughout,
                    Running

\* A step that leaves the pieces, the call and its stage alone.
LEMMA PiecesUnchanged ==
    ASSUME IInv, UNCHANGED <<call, outLeft, cache, toServer, inFlight, toClient>>,
           failed => failed', Running' <=> Running
    PROVE  OwnPieces'
  BY DEF IInv, OwnPieces, ResponseOwn, RequestOwn, OneAfterAnother, Arriving, Piece, Endless,
         BeginsEndless

\* Where there is nothing, nothing is wrong.
LEMMA NothingThere ==
    ASSUME outLeft' = 0, cache' = <<>>, toServer' = <<>>, inFlight' = <<>>,
           toClient' = <<>>
    PROVE  OwnPieces'
<1>1. Arriving' = 0 /\ Len(toServer') = 0
  BY DEF Arriving
<1> QED
  BY <1>1, ClientAssumption DEF OwnPieces, ResponseOwn, RequestOwn, OneAfterAnother

-----------------------------------------------------------------------------
(* A call ends *)

\* The connection is deleted between calls, or with the call.
LEMMA DropStep ==
    ASSUME IInv, waited' \in BOOLEAN, conn, DropConnection, stage' = "idle",
           keepAlive' \in BOOLEAN, UNCHANGED <<timeout, call>>,
           result' \in [kind : Outcomes, call : 0..MaxCalls]
    PROVE  IInv'
<1>1. sockets \in Nat /\ refused \in Nat /\ sockets = refused + 1
  BY DEF IInv, TypeOK, OnlyRefusedSocketsLeak
<1>2. TypeOK'
  <2>1. outLeft' \in 0..RequestParts /\ sockets' \in Nat /\ refused' \in Nat
    BY <1>1, ClientAssumption DEF DropConnection, CloseSocket
  <2>2. /\ cache' \in Seq(Pieces) /\ inFlight' \in Seq(Pieces) /\ toClient' \in Seq(Pieces)
        /\ toServer' \in Seq(1..MaxCalls)
    BY EmptyFacts DEF DropConnection, CloseSocket
  <2> QED
    BY <2>1, <2>2 DEF IInv, TypeOK, DropConnection, CloseSocket, Stages, Links
<1>3. OwnPieces'
  BY NothingThere DEF DropConnection, CloseSocket
<1>4. OnlyRefusedSocketsLeak'
  BY <1>1 DEF DropConnection, CloseSocket, OnlyRefusedSocketsLeak
<1> QED
  BY <1>2, <1>3, <1>4
     DEF IInv, DropConnection, CloseSocket, ConnectionInOrder, WaitsThroughout, Running

\* The call ends without an answer, and what is left is left.
LEMMA EndWithoutAnswer ==
    ASSUME IInv, waited' \in BOOLEAN, Running,
           NEW kind \in Outcomes \ {"answer"},
           NEW packets \in Seq(Pieces), NEW rest \in Seq(Pieces),
           EndCall(Failure(kind), registered, outLeft, packets),
           toClient' = IF keepAlive THEN rest ELSE <<>>
    PROVE  IInv'
<1>1. Failure(kind) \in [kind : Outcomes, call : 0..MaxCalls] /\ Failure(kind).kind # "answer"
  BY ClientAssumption DEF Failure
<1>2. conn
  BY DEF IInv, ConnectionInOrder
<1>3. CASE ~keepAlive
  BY <1>1, <1>2, <1>3, DropStep DEF EndCall, optionState, IInv, TypeOK
<1>4. CASE keepAlive
  <2>1. /\ stage' = "idle" /\ result' = Failure(kind) /\ failed' = TRUE
        /\ registered' = registered /\ outLeft' = outLeft /\ cache' = packets
        /\ toClient' = rest
        /\ UNCHANGED <<keepAlive, timeout, call, conn, link, toServer, inFlight,
                       sockets, refused>>
    BY <1>1, <1>4 DEF EndCall, optionState, socketState
  <2>2. TypeOK'
    BY <1>1, <2>1 DEF IInv, TypeOK, Stages
  <2>3. OwnPieces'
    BY <2>1, FailedStep
  <2>4. ~Running' /\ stage # "connecting"
    BY <2>1 DEF Running
  <2> QED
    BY <1>2, <2>1, <2>2, <2>3, <2>4
       DEF IInv, ConnectionInOrder, OnlyRefusedSocketsLeak, WaitsThroughout
<1> QED
  BY <1>3, <1>4

LEMMA FailStep ==
    ASSUME IInv, waited' \in BOOLEAN, Running, NEW kind \in Outcomes \ {"answer"}, Fail(kind),
           toClient' = IF keepAlive THEN toClient ELSE <<>>
    PROVE  IInv'
<1>1. cache \in Seq(Pieces) /\ toClient \in Seq(Pieces)
  BY DEF IInv, TypeOK
<1> QED
  BY <1>1, EndWithoutAnswer DEF Fail

-----------------------------------------------------------------------------
(* The user's steps *)

LEMMA SetKeepAliveStep ==
    ASSUME IInv, waited' \in BOOLEAN, NEW flag \in BOOLEAN, SetKeepAlive(flag)
    PROVE  IInv'
<1>1. CASE conn /\ ~flag
  BY <1>1, DropStep DEF SetKeepAlive, IInv, TypeOK
<1>2. CASE ~(conn /\ ~flag)
  <2>1. UNCHANGED <<timeout, call, stage, result, connState, wireState, socketState>>
        /\ keepAlive' \in BOOLEAN
    BY <1>2 DEF SetKeepAlive
  <2>2. OwnPieces'
    BY <2>1, PiecesUnchanged DEF connState, wireState, Running
  <2> QED
    BY <2>1, <2>2 DEF connState, wireState, socketState, IInv, TypeOK, ConnectionInOrder,
                      OnlyRefusedSocketsLeak, WaitsThroughout, Running
<1> QED
  BY <1>1, <1>2

LEMMA SetTimeoutStep ==
    ASSUME IInv, waited' \in BOOLEAN, NEW t \in Timeouts, SetTimeout(t)
    PROVE  IInv'
<1>1. OwnPieces'
  BY PiecesUnchanged DEF SetTimeout, connState, wireState, Running
<1> QED
  BY <1>1 DEF SetTimeout, connState, wireState, socketState, IInv, TypeOK, ConnectionInOrder,
              OnlyRefusedSocketsLeak, WaitsThroughout, Running

\* A session begins with nothing of a response and the whole request to send,
\* unless a call has failed on the connection.
LEMMA BeginPieces ==
    ASSUME IInv, ~Running, BeginSession, UNCHANGED <<cache, failed>>,
           UNCHANGED <<toServer, inFlight, toClient>>
    PROVE  OwnPieces'
<1>1. CASE failed
  BY <1>1, FailedStep
<1>2. CASE ~failed
  <2>1. toServer = <<>> /\ cache = <<>> /\ toClient = <<>> /\ inFlight = <<>>
    BY <1>2, ArrivingFacts DEF IInv, OwnPieces, OneAfterAnother, Endless
  <2>2. Arriving' = 0 /\ Len(toServer') = 0
    BY <2>1 DEF Arriving
  <2>3. Running' /\ outLeft' = RequestParts
    BY DEF BeginSession, Running
  <2> QED
    BY <2>1, <2>2, <2>3, ClientAssumption
       DEF OwnPieces, ResponseOwn, RequestOwn, OneAfterAnother
<1> QED
  BY <1>1, <1>2

LEMMA BeginFacts ==
    ASSUME IInv, BeginSession
    PROVE  /\ Running' /\ stage' \in Stages /\ stage' # "connecting"
           /\ outLeft' \in 0..RequestParts
           /\ registered' \subseteq {"INPUT", "OUTPUT"} /\ WaitsThroughout'
  BY ClientAssumption DEF BeginSession, Running, Stages, IInv, TypeOK, WaitsThroughout

LEMMA ExecuteFacts ==
    ASSUME IInv, Execute
    PROVE  /\ call' \in 0..MaxCalls /\ call' > 0 /\ ~Running /\ stage = "idle"
           /\ UNCHANGED <<keepAlive, timeout>>
           /\ Failure("none") \in [kind : Outcomes, call : 0..MaxCalls]
           /\ Failure("network") \in [kind : Outcomes, call : 0..MaxCalls]
<1>1. call' \in 0..MaxCalls /\ call' > 0
  BY ClientAssumption DEF IInv, TypeOK, Execute
<1> QED
  BY <1>1, ClientAssumption DEF Execute, optionState, Running, Failure, Outcomes

LEMMA ExecuteOnKeptStep == ASSUME IInv, waited' \in BOOLEAN, ExecuteOnKept PROVE IInv'
<1>1. OwnPieces'
  BY ExecuteFacts, BeginPieces DEF ExecuteOnKept, wireState
<1>2. TypeOK'
  BY ExecuteFacts, BeginFacts DEF ExecuteOnKept, wireState, socketState, IInv, TypeOK
<1> QED
  BY <1>1, <1>2, ExecuteFacts, BeginFacts
     DEF ExecuteOnKept, wireState, socketState, IInv, ConnectionInOrder, OnlyRefusedSocketsLeak

LEMMA ConnectAtOnceStep == ASSUME IInv, waited' \in BOOLEAN, ConnectAtOnce PROVE IInv'
<1>1. OwnPieces'
  BY ExecuteFacts, BeginPieces DEF ConnectAtOnce, ExecuteOnNew
<1>2. TypeOK'
  BY ExecuteFacts, BeginFacts DEF ConnectAtOnce, ExecuteOnNew, IInv, TypeOK, Links
<1>3. OnlyRefusedSocketsLeak'
  BY ExecuteFacts DEF ConnectAtOnce, ExecuteOnNew, IInv, TypeOK, OnlyRefusedSocketsLeak
<1>4. ConnectionInOrder'
  BY ExecuteFacts, BeginFacts DEF ConnectAtOnce, ExecuteOnNew, ConnectionInOrder
<1> QED
  BY <1>1, <1>2, <1>3, <1>4, BeginFacts DEF IInv, ConnectAtOnce

LEMMA ConnectInProgressStep == ASSUME IInv, waited' \in BOOLEAN, ConnectInProgress PROVE IInv'
<1>1. OwnPieces'
  BY NothingThere DEF ConnectInProgress, ExecuteOnNew, IInv, ConnectionInOrder
<1>2. TypeOK'
  BY ExecuteFacts DEF ConnectInProgress, ExecuteOnNew, IInv, TypeOK, Links, Stages
<1>3. OnlyRefusedSocketsLeak'
  BY ExecuteFacts DEF ConnectInProgress, ExecuteOnNew, IInv, TypeOK, OnlyRefusedSocketsLeak
<1> QED
  BY <1>1, <1>2, <1>3, ExecuteFacts
     DEF ConnectInProgress, ExecuteOnNew, IInv, ConnectionInOrder, WaitsThroughout, Running

LEMMA ConnectRefusedStep == ASSUME IInv, waited' \in BOOLEAN, ConnectRefused PROVE IInv'
<1>1. OwnPieces'
  BY NothingThere DEF ConnectRefused, ExecuteOnNew, IInv, ConnectionInOrder
<1>2. TypeOK'
  BY ExecuteFacts DEF ConnectRefused, ExecuteOnNew, IInv, TypeOK
<1>3. OnlyRefusedSocketsLeak'
  BY ExecuteFacts DEF ConnectRefused, ExecuteOnNew, IInv, TypeOK, OnlyRefusedSocketsLeak
<1> QED
  BY <1>1, <1>2, <1>3, ExecuteFacts
     DEF ConnectRefused, ExecuteOnNew, IInv, ConnectionInOrder, WaitsThroughout, Running

-----------------------------------------------------------------------------
(* The connector's steps *)

\* The connection object is made of the connected socket.
LEMMA ConnectedStep ==
    ASSUME IInv, waited' \in BOOLEAN, stage = "connecting", conn' = TRUE, BeginSession,
           UNCHANGED <<optionState, call, result, cache, failed, wireState, socketState>>
    PROVE  IInv'
<1>1. OwnPieces'
  BY BeginPieces DEF wireState, Running
<1>2. TypeOK'
  BY BeginFacts DEF optionState, wireState, socketState, IInv, TypeOK
<1> QED
  BY <1>1, <1>2, BeginFacts
     DEF wireState, socketState, IInv, ConnectionInOrder, OnlyRefusedSocketsLeak

LEMMA GiveUpStep ==
    ASSUME IInv, waited' \in BOOLEAN, NEW kind \in Outcomes, GiveUpConnecting(kind)
    PROVE  IInv'
<1>1. Failure(kind) \in [kind : Outcomes, call : 0..MaxCalls]
  BY ClientAssumption DEF Failure
<1>2. sockets \in Nat /\ refused \in Nat /\ sockets = refused + 1 /\ ~conn
  BY DEF IInv, TypeOK, OnlyRefusedSocketsLeak, GiveUpConnecting, ConnectionInOrder
<1>3. TypeOK'
  <2>1. sockets' \in Nat /\ refused' \in Nat
    BY <1>2 DEF GiveUpConnecting, CloseSocket
  <2> QED
    BY <1>1, <2>1, EmptyFacts
       DEF GiveUpConnecting, CloseSocket, optionState, connState, IInv, TypeOK, Stages, Links
<1>4. OwnPieces'
  BY <1>2, NothingThere DEF GiveUpConnecting, CloseSocket, connState, IInv, ConnectionInOrder
<1> QED
  BY <1>2, <1>3, <1>4
     DEF GiveUpConnecting, CloseSocket, connState, IInv, ConnectionInOrder,
         OnlyRefusedSocketsLeak, WaitsThroughout, Running

LEMMA ConnectorStep ==
    ASSUME IInv, waited' \in BOOLEAN, ConnectSucceeds \/ ConnectInterrupted \/ ConnectFails \/ ConnectTimesOut
    PROVE  IInv'
<1>1. "network" \in Outcomes /\ "timeout" \in Outcomes
  BY DEF Outcomes
<1> QED
  BY <1>1, ConnectedStep, GiveUpStep
     DEF ConnectSucceeds, ConnectInterrupted, ConnectFails, ConnectTimesOut

-----------------------------------------------------------------------------
(* The session's steps *)

LEMMA SendStep ==
    ASSUME IInv, waited' \in BOOLEAN, NEW n \in 1..RequestParts, Send(n)
    PROVE  IInv'
<1>1. /\ outLeft \in 0..RequestParts /\ outLeft' = outLeft - n /\ n <= outLeft
      /\ outLeft' \in 0..RequestParts /\ outLeft > 0 /\ n \in Nat \ {0}
  BY ClientAssumption DEF Send, IInv, TypeOK
<1>2. /\ stage = "session" /\ Running /\ conn /\ link \in {"open", "closed", "connecting"}
      /\ "OUTPUT" \in registered
      /\ UNCHANGED <<keepAlive, timeout, call, stage, result, conn, cache, failed, link,
                     inFlight, toClient, sockets, refused>>
  BY <1>1 DEF Send, OutputDispatched, Running, optionState, socketState, IInv, TypeOK,
              ConnectionInOrder, Links, WaitsThroughout
<1>3. registered' = IF outLeft' = 0 THEN {"INPUT"} ELSE registered
  BY DEF Send, SentAll
<1>4. PICK sent \in Seq(1..MaxCalls) :
          /\ toServer' = toServer \o sent
          /\ Len(sent) <= n
          /\ \A i \in 1..Len(sent) : sent[i] = call
  <2>1. call \in 1..MaxCalls
    BY <1>2, ClientAssumption DEF IInv, TypeOK, ConnectionInOrder
  <2>2. CASE link = "open"
    <3> DEFINE sent == [i \in 1..n |-> call]
    <3>1. sent \in Seq(1..MaxCalls) /\ Len(sent) = n /\ \A i \in 1..n : sent[i] = call
      BY <1>1, <2>1
    <3>2. toServer' = toServer \o sent
      BY <2>2 DEF Send
    <3> HIDE DEF sent
    <3> QED
      BY <1>1, <3>1, <3>2
  <2>3. CASE link # "open"
    <3>1. toServer' = toServer \o <<>>
      BY <2>3 DEF Send, IInv, TypeOK
    <3>2. /\ <<>> \in Seq(1..MaxCalls) /\ Len(<<>>) <= n
          /\ \A i \in 1..Len(<<>>) : <<>>[i] = call
      BY <1>1, EmptyFacts
    <3> QED
      BY <3>1, <3>2
  <2> QED
    BY <2>2, <2>3
<1>5. /\ toServer' \in Seq(1..MaxCalls)
      /\ Len(toServer') = Len(toServer) + Len(sent)
      /\ Len(toServer) \in Nat /\ Len(sent) \in Nat
      /\ \A i \in 1..Len(toServer') :
            toServer'[i] = IF i <= Len(toServer) THEN toServer[i] ELSE sent[i - Len(toServer)]
  BY <1>4 DEF IInv, TypeOK
<1>6. TypeOK'
  BY <1>1, <1>2, <1>3, <1>5 DEF IInv, TypeOK
<1>7. WaitsThroughout'
  BY <1>1, <1>2, <1>3 DEF WaitsThroughout
<1>8. OwnPieces'
  <2> SUFFICES ASSUME ~failed PROVE ResponseOwn' /\ RequestOwn' /\ OneAfterAnother'
    BY <1>2 DEF OwnPieces
  <2>1. ResponseOwn /\ RequestOwn /\ OneAfterAnother
    BY <1>1 DEF IInv, OwnPieces, Endless
  <2>2. Arriving = 0 /\ Arriving' = Arriving
    BY <1>1, <1>2, <2>1, ArrivingFacts DEF OneAfterAnother, Arriving, IInv
  <2>3. ResponseOwn'
    BY <1>2, <2>1, <2>2 DEF ResponseOwn, Piece
  <2>4. RequestOwn'
    <3>1. ASSUME NEW i \in 1..Len(toServer') PROVE toServer'[i] = call'
      <4>1. i <= Len(toServer) \/ i - Len(toServer) \in 1..Len(sent)
        BY <1>5
      <4> QED
        BY <1>2, <1>4, <1>5, <2>1, <4>1 DEF RequestOwn
    <3>2. outLeft' + Len(toServer') <= RequestParts
      BY <1>1, <1>4, <1>5, <2>1, ClientAssumption DEF RequestOwn
    <3> QED
      BY <3>1, <3>2 DEF RequestOwn
  <2> QED
    BY <1>2, <2>2, <2>3, <2>4 DEF OneAfterAnother, Running
<1> QED
  BY <1>2, <1>6, <1>7, <1>8 DEF IInv, ConnectionInOrder, OnlyRefusedSocketsLeak, Running

\* What one round of handle_input() takes goes to the end of the cache.
LEMMA TakeFacts ==
    ASSUME IInv, Receives, toClient # <<>>
    PROVE  /\ Running
           /\ Take \in 1..Len(toClient)
           /\ Cached \in Seq(Pieces)
           /\ Len(Cached) = Len(cache) + Take /\ Len(Cached) > 0
           /\ \A i \in 1..Len(Cached) :
                 Cached[i] = IF i <= Len(cache) THEN cache[i] ELSE toClient[i - Len(cache)]
           /\ SubSeq(toClient, Take + 1, Len(toClient)) \in Seq(Pieces)
           /\ Len(SubSeq(toClient, Take + 1, Len(toClient))) = Len(toClient) - Take
           /\ \A i \in 1..(Len(toClient) - Take) :
                 SubSeq(toClient, Take + 1, Len(toClient))[i] = toClient[i + Take]
<1>1. /\ cache \in Seq(Pieces) /\ toClient \in Seq(Pieces)
      /\ Len(toClient) \in Nat \ {0} /\ Len(cache) \in Nat
  BY DEF IInv, TypeOK
<1>2. Take \in 1..Len(toClient) /\ Take \in 0..Len(toClient)
  BY <1>1, ClientAssumption DEF Take
<1>3. Running
  BY DEF Receives, Running
<1>4. Len(cache) + Take > 0
  BY <1>1, <1>2
<1>5. PICK n \in 0..Len(toClient) : n = Take
  BY <1>2
<1>6. PICK r : r = cache \o SubSeq(toClient, 1, n)
  OBVIOUS
<1>7. /\ r \in Seq(Pieces) /\ Len(r) = Len(cache) + n
      /\ \A i \in 1..Len(r) : r[i] = IF i <= Len(cache) THEN cache[i] ELSE toClient[i - Len(cache)]
      /\ SubSeq(toClient, n + 1, Len(toClient)) \in Seq(Pieces)
      /\ Len(SubSeq(toClient, n + 1, Len(toClient))) = Len(toClient) - n
      /\ \A i \in 1..(Len(toClient) - n) :
            SubSeq(toClient, n + 1, Len(toClient))[i] = toClient[i + n]
  BY <1>1, <1>5, <1>6, TakenFacts
<1>8. r = Cached
  BY <1>5, <1>6 DEF Cached
<1> QED
  BY <1>2, <1>3, <1>4, <1>5, <1>7, <1>8

\* Such a piece exists.
LEMMA FirstPiece ==
    ASSUME IInv, Receives, toClient # <<>>
    PROVE  Cached[1] \in Pieces
<1>1. Cached \in Seq(Pieces) /\ Len(Cached) > 0
  BY TakeFacts
<1> QED
  BY <1>1

\* The first piece of all is the first of what is read.
LEMMA NotEndless ==
    ASSUME IInv, Receives, toClient # <<>>
    PROVE  Cached[1] # Drop => ~BeginsEndless
<1>1. /\ cache \in Seq(Pieces) /\ Len(cache) \in Nat
      /\ Take \in 1..Len(toClient) /\ Len(Cached) = Len(cache) + Take /\ Len(Cached) > 0
  BY TakeFacts DEF IInv, TypeOK
<1>2. Cached[1] = IF 1 <= Len(cache) THEN cache[1] ELSE toClient[1 - Len(cache)]
  BY <1>1, TakeFacts
<1>3. CASE cache # <<>>
  <2>1. 1 <= Len(cache)
    BY <1>1, <1>3
  <2> QED
    BY <1>2, <1>3, <2>1 DEF BeginsEndless
<1>4. CASE cache = <<>>
  <2>1. Len(cache) = 0 /\ 1 - Len(cache) = 1
    BY <1>4
  <2> QED
    BY <1>2, <1>4, <2>1 DEF BeginsEndless
<1> QED
  BY <1>3, <1>4

\* The response is complete.  On a connection no call has failed on it is all
\* there is, and the call's.
LEMMA ResponseFacts ==
    ASSUME IInv, ReceiveResponse, ~failed
    PROVE  /\ Cached[1].call = call
           /\ outLeft = 0 /\ toServer = <<>> /\ inFlight = <<>>
           /\ SubSeq(toClient, Take + 1, Len(toClient)) = <<>>
<1>1. PICK rest : rest = SubSeq(toClient, Take + 1, Len(toClient))
  OBVIOUS
<1>2. /\ rest \in Seq(Pieces) /\ Len(rest) = Len(toClient) - Take
      /\ Take \in 1..Len(toClient) /\ Len(Cached) = Len(cache) + Take
  BY <1>1, TakeFacts DEF ReceiveResponse
<1>3. /\ Len(cache) \in Nat /\ Len(toClient) \in Nat /\ Len(inFlight) \in Nat
      /\ inFlight \in Seq(Pieces)
  BY ArrivingFacts DEF IInv, TypeOK
<1>4. ResponseOwn /\ OneAfterAnother
  <2>1. ~BeginsEndless
    BY NotEndless DEF ReceiveResponse, PacketComplete
  <2> QED
    BY <2>1 DEF IInv, OwnPieces, Endless
<1>5. Len(Cached) >= ResponseParts
  BY DEF ReceiveResponse, PacketComplete
<1>6. Len(rest) = 0 /\ Len(inFlight) = 0 /\ Arriving > 0
  BY <1>2, <1>3, <1>4, <1>5, ClientAssumption DEF ResponseOwn, Arriving
<1>7. Cached[1] = Piece(1)
  <2>1. Cached[1] = IF 1 <= Len(cache) THEN cache[1] ELSE toClient[1 - Len(cache)]
    BY <1>2, <1>3, TakeFacts DEF ReceiveResponse
  <2>2. CASE 1 <= Len(cache)
    BY <1>3, <1>4, <2>1, <2>2 DEF ResponseOwn
  <2>3. CASE Len(cache) = 0
    <3>1. 1 \in 1..Len(toClient) /\ 1 - Len(cache) = 1 /\ Len(cache) + 1 = 1
      BY <1>2, <1>3, <2>3
    <3> QED
      BY <1>4, <2>1, <2>3, <3>1 DEF ResponseOwn
  <2> QED
    BY <1>3, <2>2, <2>3
<1> QED
  BY <1>1, <1>2, <1>3, <1>4, <1>6, <1>7 DEF OneAfterAnother, Piece

LEMMA ReceiveResponseStep == ASSUME IInv, waited' \in BOOLEAN, ReceiveResponse PROVE IInv'
<1> DEFINE outcome == Answer(Cached[1].call)
<1>1. /\ Running /\ conn /\ stage # "connecting" /\ Cached[1] \in Pieces
      /\ SubSeq(toClient, Take + 1, Len(toClient)) \in Seq(Pieces)
  BY TakeFacts, FirstPiece DEF ReceiveResponse, IInv, ConnectionInOrder, Running
<1>2. outcome \in [kind : Outcomes, call : 0..MaxCalls]
  BY <1>1 DEF Answer, Outcomes, Pieces
<1>3. CASE ~keepAlive
  BY <1>1, <1>2, <1>3, DropStep DEF ReceiveResponse, EndCall, optionState, IInv, TypeOK
<1>4. CASE keepAlive
  <2>1. /\ stage' = "idle" /\ result' = outcome /\ registered' = {} /\ outLeft' = outLeft
        /\ cache' = <<>> /\ failed' = failed
        /\ toClient' = SubSeq(toClient, Take + 1, Len(toClient))
        /\ UNCHANGED <<keepAlive, timeout, call, conn, link, toServer, inFlight,
                       sockets, refused>>
    BY <1>4 DEF ReceiveResponse, EndCall, optionState, socketState, Answer, IInv, TypeOK
  <2>2. TypeOK'
    BY <1>1, <1>2, <2>1, EmptyFacts DEF IInv, TypeOK, Stages
  <2>3. OwnPieces'
    <3>1. CASE failed
      BY <2>1, <3>1, FailedStep
    <3>2. CASE ~failed
      BY <2>1, <3>2, ResponseFacts, NothingThere
    <3> QED
      BY <3>1, <3>2
  <2> QED
    BY <1>1, <2>1, <2>2, <2>3
       DEF IInv, ConnectionInOrder, OnlyRefusedSocketsLeak, WaitsThroughout, Running
<1> QED
  BY <1>3, <1>4

LEMMA ReceivePartStep == ASSUME IInv, waited' \in BOOLEAN, ReceivePart PROVE IInv'
<1>1. /\ Running /\ conn /\ Running' /\ stage # "connecting" /\ stage # "idle"
      /\ stage' \in Stages /\ stage' # "connecting" /\ Receives /\ toClient # <<>>
  BY TakeFacts DEF ReceivePart, IInv, ConnectionInOrder, Running, Stages
<1>2. /\ cache' = IF Cached[1] = Drop THEN <<Drop>> ELSE Cached
      /\ toClient' = SubSeq(toClient, Take + 1, Len(toClient))
      /\ UNCHANGED <<keepAlive, timeout, call, result, conn, registered, outLeft, failed,
                     link, toServer, inFlight, sockets, refused>>
  BY DEF ReceivePart, optionState, socketState
<1>3. /\ Cached \in Seq(Pieces) /\ toClient' \in Seq(Pieces)
      /\ Take \in 1..Len(toClient)
      /\ Len(Cached) = Len(cache) + Take /\ Len(toClient') = Len(toClient) - Take
      /\ \A i \in 1..Len(Cached) :
            Cached[i] = IF i <= Len(cache) THEN cache[i] ELSE toClient[i - Len(cache)]
      /\ \A i \in 1..Len(toClient') : toClient'[i] = toClient[i + Take]
  BY <1>1, <1>2, TakeFacts
<1>4. /\ Len(cache) \in Nat /\ Len(toClient) \in Nat /\ Len(inFlight) \in Nat
      /\ Take \in Nat
  BY <1>3, ArrivingFacts DEF IInv
<1>5. CASE Cached[1] = Drop
  <2>1. cache' = <<Drop>>
    BY <1>2, <1>5
  <2>2. cache' \in Seq(Pieces) /\ cache' # <<>> /\ cache'[1] = Drop
    BY <2>1, DropFacts
  <2>3. OwnPieces'
    <3> SUFFICES ASSUME ~failed PROVE RequestOwn' /\ Endless'
      BY <1>2 DEF OwnPieces
    <3>1. RequestOwn /\ Running /\ outLeft = 0
      <4>1. CASE Endless
        BY <4>1 DEF IInv, OwnPieces, Endless
      <4>2. CASE ~Endless
        <5>1. RequestOwn /\ ResponseOwn /\ OneAfterAnother
          BY <4>2 DEF IInv, OwnPieces
        <5>2. Arriving > 0
          BY <1>3, <1>4 DEF Arriving
        <5> QED
          BY <1>1, <5>1, <5>2 DEF OneAfterAnother
      <4> QED
        BY <4>1, <4>2
    <3> QED
      BY <1>1, <1>2, <2>2, <3>1 DEF RequestOwn, Endless, BeginsEndless
  <2>4. TypeOK'
    BY <1>1, <1>2, <1>3, <2>2 DEF IInv, TypeOK
  <2> QED
    BY <1>1, <1>2, <2>3, <2>4
       DEF IInv, ConnectionInOrder, OnlyRefusedSocketsLeak, WaitsThroughout, Running
<1>6. CASE Cached[1] # Drop
  <2>1. cache' = Cached
    BY <1>2, <1>6
  <2>2. Len(cache') = Len(cache) + Take /\ Len(toClient') = Len(toClient) - Take
    BY <1>3, <2>1
  <2>3. Arriving' = Arriving
    <3>1. Arriving' = Len(cache') + Len(toClient') + Len(inFlight)
      BY <1>2 DEF Arriving
    <3> QED
      BY <1>4, <2>2, <3>1 DEF Arriving
  <2>4. OwnPieces'
    <3> SUFFICES ASSUME ~failed PROVE ResponseOwn' /\ RequestOwn' /\ OneAfterAnother'
      BY <1>2 DEF OwnPieces
    <3>1. ResponseOwn /\ RequestOwn /\ OneAfterAnother
      BY <1>1, <1>6, NotEndless DEF IInv, OwnPieces, Endless
    <3>2. \A i : Piece(i)' = Piece(i)
      BY <1>2 DEF Piece
    <3>3. ASSUME NEW i \in 1..Len(cache') PROVE cache'[i] = Piece(i)
      <4>1. CASE i <= Len(cache)
        <5>1. i \in 1..Len(cache)
          BY <1>4, <4>1
        <5> QED
          BY <1>3, <2>1, <3>1, <4>1, <5>1 DEF ResponseOwn
      <4>2. CASE ~(i <= Len(cache))
        <5>1. i - Len(cache) \in 1..Len(toClient) /\ Len(cache) + (i - Len(cache)) = i
          BY <1>3, <1>4, <2>1, <4>2
        <5> QED
          BY <1>3, <2>1, <3>1, <4>2, <5>1 DEF ResponseOwn
      <4> QED
        BY <4>1, <4>2
    <3>4. ASSUME NEW i \in 1..Len(toClient') PROVE toClient'[i] = Piece(Len(cache') + i)
      <4>1. i + Take \in 1..Len(toClient) /\ Len(cache) + (i + Take) = Len(cache') + i
        BY <1>3, <1>4, <2>2
      <4> QED
        BY <1>3, <3>1, <4>1 DEF ResponseOwn
    <3>5. Len(cache') + Len(toClient') = Len(cache) + Len(toClient)
      BY <1>3, <1>4, <2>2
    <3>6. ResponseOwn'
      BY <1>2, <2>3, <3>1, <3>2, <3>3, <3>4, <3>5 DEF ResponseOwn
    <3> QED
      BY <1>1, <1>2, <2>3, <3>1, <3>6 DEF RequestOwn, OneAfterAnother
  <2>5. TypeOK'
    BY <1>1, <1>2, <1>3, <2>1 DEF IInv, TypeOK
  <2> QED
    BY <1>1, <1>2, <2>4, <2>5
       DEF IInv, ConnectionInOrder, OnlyRefusedSocketsLeak, WaitsThroughout, Running
<1> QED
  BY <1>5, <1>6

\* The other ways a call ends.
LEMMA FailingStep ==
    ASSUME IInv, waited' \in BOOLEAN, SendFails \/ ReceiveMalformed \/ ReceiveEnd \/ ReceiveWouldBlock
                 \/ SessionTimesOut
    PROVE  IInv'
<1>1. {"network", "again", "timeout", "malformed"} \subseteq Outcomes \ {"answer"}
  BY DEF Outcomes
<1>2. CASE ReceiveMalformed
  BY <1>1, <1>2, TakeFacts, EndWithoutAnswer DEF ReceiveMalformed
<1>3. CASE SendFails
  BY <1>1, <1>3, FailStep DEF SendFails, OutputDispatched, Running
<1>4. CASE ReceiveEnd
  BY <1>1, <1>4, FailStep DEF ReceiveEnd, Receives, Running
<1>5. CASE ReceiveWouldBlock
  BY <1>1, <1>5, FailStep DEF ReceiveWouldBlock, Running
<1>6. CASE SessionTimesOut
  BY <1>1, <1>6, FailStep DEF SessionTimesOut, Running
<1> QED
  BY <1>2, <1>3, <1>4, <1>5, <1>6

-----------------------------------------------------------------------------
(* The network and the server *)

\* A step of theirs that puts nothing on its way to the client.
LEMMA LossStep ==
    ASSUME IInv, waited' \in BOOLEAN, link # "none",
           link' \in Links \ {"none"},
           toServer' \in {toServer, <<>>}, inFlight' \in {inFlight, <<>>},
           toClient' \in {toClient, <<>>},
           toClient' # toClient => inFlight' = <<>>,
           inFlight' # inFlight \/ toClient' # toClient => toServer' = <<>>,
           UNCHANGED <<optionState, call, stage, result, connState, socketState>>
    PROVE  IInv'
<1>1. UNCHANGED <<keepAlive, timeout, call, stage, result, conn, registered, outLeft, cache,
                  failed, sockets, refused>>
  BY DEF optionState, connState, socketState
<1>2. TypeOK'
  BY <1>1, EmptyFacts DEF IInv, TypeOK
<1>3. Len(<<>>) = 0
  OBVIOUS
<1>4. ASSUME failed PROVE OwnPieces'
  BY <1>1, <1>4 DEF OwnPieces
<1>5. ASSUME ~failed, Endless PROVE OwnPieces'
  <2>1. RequestOwn'
    BY <1>1, <1>3, <1>5, ClientAssumption DEF IInv, TypeOK, OwnPieces, RequestOwn
  <2>2. CASE BeginsEndless'
    BY <1>1, <1>5, <2>1, <2>2 DEF OwnPieces, Endless, Running
  <2>3. CASE ~BeginsEndless'
    <3>1. cache = <<>> /\ inFlight' = <<>> /\ toClient' = <<>>
      BY <1>1, <1>5, <2>3 DEF Endless, BeginsEndless
    <3>2. toServer' = <<>>
      BY <1>5, <3>1 DEF Endless, BeginsEndless
    <3> QED
      BY <1>1, <1>5, <3>1, <3>2, NothingThere DEF Endless
  <2> QED
    BY <2>2, <2>3
<1>6. ASSUME ~failed, ~Endless PROVE OwnPieces'
  <2> SUFFICES ResponseOwn' /\ RequestOwn' /\ OneAfterAnother'
    BY <1>1 DEF OwnPieces
  <2>1. ResponseOwn /\ RequestOwn /\ OneAfterAnother
    BY <1>6 DEF IInv, OwnPieces
  <2>2. /\ Len(cache) \in Nat /\ Len(toClient) \in Nat /\ Len(inFlight) \in Nat
        /\ Len(toServer) \in Nat /\ outLeft \in Nat /\ Arriving \in Nat
    BY ArrivingFacts, ClientAssumption DEF IInv, TypeOK
  <2>3. Arriving' <= Arriving /\ Arriving' \in Nat
    BY <1>1, <1>3, <2>2 DEF Arriving
  <2>4. ResponseOwn'
    <3>1. Arriving' <= ResponseParts
      BY <2>1, <2>2, <2>3, ClientAssumption DEF ResponseOwn
    <3>2. \A i : Piece(i)' = Piece(i)
      BY <1>1 DEF Piece
    <3>3. \A i \in 1..Len(toClient') : toClient'[i] = Piece(Len(cache) + i)
      BY <1>3, <2>1 DEF ResponseOwn
    <3>4. ASSUME NEW i \in 1..Len(inFlight')
          PROVE  inFlight'[i] = Piece(Len(cache) + Len(toClient') + i)
      <4>1. inFlight' = inFlight /\ toClient' = toClient
        BY <1>3, <3>4
      <4> QED
        BY <2>1, <3>4, <4>1 DEF ResponseOwn
    <3> QED
      BY <1>1, <2>1, <3>1, <3>2, <3>3, <3>4 DEF ResponseOwn
  <2>5. RequestOwn'
    BY <1>1, <1>3, <2>1, <2>2, ClientAssumption DEF RequestOwn
  <2> QED
    BY <1>1, <2>1, <2>2, <2>3, <2>4, <2>5 DEF OneAfterAnother, Running
<1>7. OwnPieces'
  BY <1>4, <1>5, <1>6
<1> QED
  BY <1>1, <1>2, <1>7
     DEF IInv, ConnectionInOrder, OnlyRefusedSocketsLeak, WaitsThroughout, Running

LEMMA DeliverStep == ASSUME IInv, waited' \in BOOLEAN, Deliver PROVE IInv'
<1>1. UNCHANGED <<keepAlive, timeout, call, stage, result, conn, registered, outLeft, cache,
                  failed, link, toServer, sockets, refused>>
  BY DEF Deliver, optionState, connState, socketState
<1>2. /\ toClient' \in Seq(Pieces) /\ inFlight' \in Seq(Pieces)
      /\ Len(toClient') = Len(toClient) + 1 /\ Len(inFlight') = Len(inFlight) - 1
      /\ \A i \in 1..Len(toClient) : toClient'[i] = toClient[i]
      /\ toClient'[Len(toClient) + 1] = inFlight[1]
      /\ \A i \in 1..Len(inFlight') : inFlight'[i] = inFlight[i + 1]
  BY MoveFacts DEF Deliver, IInv, TypeOK
<1>3. /\ Len(cache) \in Nat /\ Len(toClient) \in Nat /\ Len(inFlight) \in Nat \ {0}
      /\ link = "open"
  BY ArrivingFacts DEF IInv, Deliver, TypeOK
<1>4. Arriving' = Arriving
  <2>1. Arriving' = Len(cache) + Len(toClient') + Len(inFlight')
    BY <1>1 DEF Arriving
  <2>2. Len(toClient') = Len(toClient) + 1 /\ Len(inFlight') = Len(inFlight) - 1
    BY <1>2
  <2> QED
    BY <1>3, <2>1, <2>2 DEF Arriving
<1>5. ASSUME ~failed, ~Endless PROVE OwnPieces'
  <2> SUFFICES ResponseOwn' /\ RequestOwn' /\ OneAfterAnother'
    BY <1>1 DEF OwnPieces
  <2>1. ResponseOwn /\ RequestOwn /\ OneAfterAnother
    BY <1>5 DEF IInv, OwnPieces
  <2>2. \A i : Piece(i)' = Piece(i)
    BY <1>1 DEF Piece
  <2>3. ASSUME NEW i \in 1..Len(toClient') PROVE toClient'[i] = Piece(Len(cache) + i)
    <3>1. CASE i \in 1..Len(toClient)
      BY <1>2, <2>1, <3>1 DEF ResponseOwn
    <3>2. CASE i = Len(toClient) + 1
      <4>1. 1 \in 1..Len(inFlight) /\ Len(cache) + Len(toClient) + 1 = Len(cache) + i
        BY <1>3, <3>2
      <4> QED
        BY <1>2, <2>1, <3>2, <4>1 DEF ResponseOwn
    <3> QED
      BY <1>2, <1>3, <3>1, <3>2
  <2>4. ASSUME NEW i \in 1..Len(inFlight')
        PROVE  inFlight'[i] = Piece(Len(cache) + Len(toClient') + i)
    <3>1. /\ i + 1 \in 1..Len(inFlight)
          /\ Len(cache) + Len(toClient) + (i + 1) = Len(cache) + Len(toClient') + i
      BY <1>2, <1>3
    <3> QED
      BY <1>2, <2>1, <3>1 DEF ResponseOwn
  <2>5. ResponseOwn'
    BY <1>1, <1>4, <2>1, <2>2, <2>3, <2>4 DEF ResponseOwn
  <2> QED
    BY <1>1, <1>4, <2>1, <2>5 DEF RequestOwn, OneAfterAnother, Running
<1>6. ASSUME ~failed, Endless PROVE OwnPieces'
  <2>1. BeginsEndless'
    <3>1. CASE cache # <<>> \/ toClient # <<>>
      <4>1. toClient # <<>> => toClient' # <<>> /\ toClient'[1] = toClient[1]
        BY <1>2, <1>3 DEF IInv, TypeOK
      <4> QED
        BY <1>1, <1>6, <3>1, <4>1 DEF Endless, BeginsEndless
    <3>2. CASE cache = <<>> /\ toClient = <<>>
      <4>1. Len(toClient) = 0
        BY <3>2
      <4>2. toClient' # <<>> /\ toClient'[1] = inFlight[1]
        <5>1. Len(toClient') = 1 /\ toClient'[0 + 1] = inFlight[1]
          BY <1>2, <4>1
        <5> QED
          BY <1>2, <5>1, EmptyFacts
      <4> QED
        BY <1>1, <1>6, <3>2, <4>2 DEF Endless, BeginsEndless
    <3> QED
      BY <3>1, <3>2
  <2> QED
    BY <1>1, <1>6, <2>1 DEF IInv, OwnPieces, RequestOwn, Endless, Running
<1>7. OwnPieces'
  BY <1>1, <1>5, <1>6 DEF OwnPieces
<1>8. TypeOK'
  BY <1>1, <1>2 DEF IInv, TypeOK
<1> QED
  BY <1>1, <1>3, <1>7, <1>8
     DEF IInv, ConnectionInOrder, OnlyRefusedSocketsLeak, WaitsThroughout, Running

LEMMA ServerAnswersStep == ASSUME IInv, waited' \in BOOLEAN, ServerAnswers PROVE IInv'
<1>1. UNCHANGED <<keepAlive, timeout, call, stage, result, conn, registered, outLeft, cache,
                  failed, link, toClient, sockets, refused>>
  BY DEF ServerAnswers, optionState, connState, socketState
<1>2. PICK request : request = SubSeq(toServer, 1, RequestParts)
  OBVIOUS
<1>3. PICK k : /\ k = IF \A i \in DOMAIN request : request[i] = request[1]
                      THEN request[1] ELSE 0
               /\ inFlight' = inFlight \o Response(k)
  BY <1>2 DEF ServerAnswers
<1>4. /\ toServer \in Seq(1..MaxCalls) /\ Len(toServer) \in Nat
      /\ RequestParts \in 1..Len(toServer) /\ Len(toServer) > 0 /\ link = "open"
      /\ inFlight \in Seq(Pieces)
  BY ClientAssumption DEF ServerAnswers, IInv, TypeOK
<1>5. /\ DOMAIN request = 1..RequestParts
      /\ \A i \in 1..RequestParts : request[i] = toServer[i]
  BY <1>2, <1>4
<1>6. k \in 0..MaxCalls
  <2>1. request[1] = toServer[1] /\ 1 \in 1..Len(toServer)
    BY <1>4, <1>5, ClientAssumption
  <2>2. request[1] \in 1..MaxCalls
    BY <1>4, <2>1, ElementOfSeq
  <2> QED
    BY <1>3, <2>2, ClientAssumption
<1>7. /\ Response(k) \in Seq(Pieces) /\ Len(Response(k)) = ResponseParts
      /\ \A i \in 1..ResponseParts : Response(k)[i] = [call |-> k, part |-> i]
  <2>1. \A i \in 1..ResponseParts : [call |-> k, part |-> i] \in Pieces
    BY <1>6 DEF Pieces
  <2> QED
    BY <2>1, ClientAssumption DEF Response
<1>8. inFlight' \in Seq(Pieces)
  BY <1>3, <1>4, <1>7, ConcatProperties
<1>9. /\ toServer' = SubSeq(toServer, RequestParts + 1, Len(toServer))
      /\ toServer' \in Seq(1..MaxCalls) /\ Len(toServer') = Len(toServer) - RequestParts
  <2>1. toServer' = SubSeq(toServer, RequestParts + 1, Len(toServer))
    BY DEF ServerAnswers
  <2>2. PICK n \in 1..Len(toServer) : n = RequestParts
    BY <1>4
  <2>3. /\ SubSeq(toServer, n + 1, Len(toServer)) \in Seq(1..MaxCalls)
        /\ Len(SubSeq(toServer, n + 1, Len(toServer))) = Len(toServer) - n
    <3>1. toServer \in Seq(1..MaxCalls) /\ n \in 0..Len(toServer)
      BY <1>4
    <3> QED
      BY <3>1, RestFacts
  <2> QED
    BY <2>1, <2>2, <2>3
<1>10. ASSUME ~failed, ~Endless PROVE OwnPieces'
  <2> SUFFICES ResponseOwn' /\ RequestOwn' /\ OneAfterAnother'
    BY <1>1 DEF OwnPieces
  <2>1. ResponseOwn /\ RequestOwn /\ OneAfterAnother
    BY <1>10 DEF IInv, OwnPieces
  <2>2. outLeft = 0 /\ Len(toServer) = RequestParts /\ toServer' = <<>> /\ Running
    BY <1>4, <1>9, <2>1, ClientAssumption DEF RequestOwn, OneAfterAnother, IInv, TypeOK
  <2>3. cache = <<>> /\ toClient = <<>> /\ inFlight = <<>>
    BY <1>4, <2>1, ArrivingFacts DEF OneAfterAnother, IInv
  <2>4. k = call
    <3>1. \A i \in 1..RequestParts : request[i] = call
      BY <1>5, <2>1, <2>2 DEF RequestOwn
    <3>2. 1 \in 1..RequestParts
      BY ClientAssumption
    <3> QED
      BY <1>3, <1>5, <3>1, <3>2
  <2>5. inFlight' = Response(call)
    BY <1>3, <1>7, <2>3, <2>4, ConcatEmptySeq
  <2>6. Len(cache') = 0 /\ Len(toClient') = 0 /\ Len(inFlight') = ResponseParts
    BY <1>1, <1>7, <2>3, <2>4, <2>5
  <2>7. Arriving' = ResponseParts /\ Len(toServer') = 0
    BY <2>2, <2>6, ClientAssumption DEF Arriving
  <2>8. ResponseOwn'
    BY <1>1, <1>7, <2>4, <2>5, <2>6, <2>7, ClientAssumption DEF ResponseOwn, Piece
  <2> QED
    BY <1>1, <2>2, <2>7, <2>8, ClientAssumption DEF RequestOwn, OneAfterAnother, Running
<1>11. ASSUME ~failed, Endless PROVE OwnPieces'
  <2>1. BeginsEndless'
    <3>1. inFlight # <<>> => inFlight' # <<>> /\ inFlight'[1] = inFlight[1]
      BY <1>3, <1>4, <1>7, ConcatProperties
    <3> QED
      BY <1>1, <1>11, <3>1 DEF Endless, BeginsEndless
  <2>2. RequestOwn'
    <3>1. \A i \in 1..Len(toServer') : toServer'[i] = toServer[i + RequestParts]
      <4>1. PICK n \in 0..Len(toServer) : n = RequestParts
        BY <1>4
      <4> QED
        BY <1>4, <1>9, <4>1, RestFacts
    <3>2. ASSUME NEW i \in 1..Len(toServer') PROVE toServer'[i] = call
      <4>1. i + RequestParts \in 1..Len(toServer)
        BY <1>4, <1>9, ClientAssumption
      <4> QED
        BY <1>11, <3>1, <4>1 DEF IInv, OwnPieces, RequestOwn
    <3>3. outLeft' + Len(toServer') <= RequestParts
      BY <1>1, <1>4, <1>9, <1>11, ClientAssumption DEF IInv, TypeOK, OwnPieces, RequestOwn
    <3> QED
      BY <1>1, <3>2, <3>3 DEF RequestOwn
  <2> QED
    BY <1>1, <1>11, <2>1, <2>2 DEF OwnPieces, Endless, Running
<1>12. OwnPieces'
  BY <1>1, <1>10, <1>11 DEF OwnPieces
<1>13. TypeOK'
  BY <1>1, <1>8, <1>9 DEF IInv, TypeOK
<1> QED
  BY <1>1, <1>4, <1>12, <1>13
     DEF IInv, ConnectionInOrder, OnlyRefusedSocketsLeak, WaitsThroughout, Running

LEMMA ServerDripsStep == ASSUME IInv, waited' \in BOOLEAN, ServerDrips PROVE IInv'
<1>1. UNCHANGED <<keepAlive, timeout, call, stage, result, conn, registered, outLeft, cache,
                  failed, link, toServer, toClient, sockets, refused>>
  BY DEF ServerDrips, optionState, connState, socketState
<1>2. /\ inFlight' = <<Drop>> /\ inFlight' \in Seq(Pieces)
      /\ inFlight' # <<>> /\ inFlight'[1] = Drop
      /\ inFlight = <<>> /\ toClient = <<>> /\ link = "open"
  BY DropFacts DEF ServerDrips
<1>3. toServer # <<>>
  BY ClientAssumption DEF ServerDrips, IInv, TypeOK
<1>4. OwnPieces'
  <2> SUFFICES ASSUME ~failed PROVE RequestOwn' /\ Endless'
    BY <1>1 DEF OwnPieces
  <2>1. RequestOwn'
    BY <1>1 DEF IInv, OwnPieces, RequestOwn
  <2>2. ASSUME Endless PROVE Endless'
    BY <1>1, <1>2, <2>2 DEF Endless, BeginsEndless, Running
  <2>3. ASSUME ~Endless PROVE Endless'
    <3>1. RequestOwn /\ OneAfterAnother
      BY <2>3 DEF IInv, OwnPieces
    <3>2. outLeft = 0
      <4>1. Len(toServer) >= RequestParts
        BY DEF ServerDrips
      <4> QED
        BY <3>1, <4>1, ClientAssumption DEF RequestOwn, IInv, TypeOK
    <3>3. Running /\ cache = <<>>
      BY <1>3, <3>1, ArrivingFacts DEF OneAfterAnother, IInv
    <3> QED
      BY <1>1, <1>2, <3>2, <3>3 DEF Endless, BeginsEndless, Running
  <2> QED
    BY <2>1, <2>2, <2>3
<1>5. TypeOK'
  BY <1>1, <1>2 DEF IInv, TypeOK
<1> QED
  BY <1>1, <1>2, <1>3, <1>4, <1>5
     DEF IInv, ConnectionInOrder, OnlyRefusedSocketsLeak, WaitsThroughout, Running

LEMMA EnvironmentStep == ASSUME IInv, Environment PROVE IInv'
<1>1. waited' \in BOOLEAN
  BY DEF Environment, IInv, TypeOK
<1>2. CASE LinkEstablished
  BY <1>1, <1>2, LossStep DEF LinkEstablished, Links
<1>3. CASE ServerCloses
  BY <1>1, <1>3, LossStep DEF ServerCloses, Links
<1>4. CASE LinkResets
  BY <1>1, <1>4, LossStep DEF LinkResets, Links
<1> QED
  BY <1>1, <1>2, <1>3, <1>4, DeliverStep, ServerAnswersStep, ServerDripsStep DEF Environment

-----------------------------------------------------------------------------
\* Time goes by, or nothing happens.
LEMMA StutterStep ==
    ASSUME IInv, waited' \in BOOLEAN,
           UNCHANGED <<optionState, call, stage, result, connState, wireState, socketState>>
    PROVE  IInv'
<1>1. UNCHANGED <<keepAlive, timeout, call, stage, result, conn, registered, outLeft, cache,
                  failed, link, toServer, inFlight, toClient, sockets, refused>>
  BY DEF optionState, connState, wireState, socketState
<1>2. OwnPieces'
  BY <1>1, PiecesUnchanged DEF Running
<1> QED
  BY <1>1, <1>2 DEF IInv, TypeOK, ConnectionInOrder, OnlyRefusedSocketsLeak, WaitsThroughout,
                    Running

LEMMA NextStep == ASSUME IInv, [Next]_vars PROVE IInv'
<1>1. CASE User
  <2>1. waited' \in BOOLEAN
    BY <1>1 DEF User
  <2> QED
    BY <1>1, <2>1, SetKeepAliveStep, SetTimeoutStep, ExecuteOnKeptStep, ConnectAtOnceStep,
       ConnectInProgressStep, ConnectRefusedStep DEF User
<1>2. CASE CallStep
  <2>1. waited' \in BOOLEAN
    BY <1>2 DEF CallStep
  <2> QED
    BY <1>2, <2>1, ConnectorStep, SendStep, ReceiveResponseStep, ReceivePartStep, FailingStep
       DEF CallStep
<1>3. CASE TimePasses
  BY <1>3, StutterStep DEF TimePasses
<1>4. CASE Signal
  <2>1. CASE ConnectInterrupted /\ waited' = FALSE
    BY <2>1, ConnectorStep
  <2>2. CASE SessionInterrupted
    BY <2>2, StutterStep DEF SessionInterrupted
  <2> QED
    BY <1>4, <2>1, <2>2 DEF Signal
<1>5. CASE UNCHANGED vars
  <2>1. waited' \in BOOLEAN
    BY <1>5 DEF vars, IInv, TypeOK
  <2> QED
    BY <1>5, <2>1, StutterStep DEF vars
<1> QED
  BY <1>1, <1>2, <1>3, <1>4, <1>5, EnvironmentStep DEF Next

\* An answer is the call's unless a call has failed on the connection.
LEMMA AnswerStep ==
    ASSUME IInv, [Next]_vars
    PROVE  result' # result /\ result'.kind = "answer" /\ ~failed => result'.call = call
<1> SUFFICES ASSUME result' # result, result'.kind = "answer", ~failed
             PROVE  result'.call = call
  OBVIOUS
<1>1. \A kind : Failure(kind).kind = kind
  BY DEF Failure
<1>2. ReceiveResponse
  <2>1. ~(UNCHANGED vars)
    BY DEF vars
  <2>2. ~(\E n \in 1..RequestParts : Send(n)) /\ ~ReceivePart
    BY DEF Send, ReceivePart
  <2>3. ~ConnectSucceeds /\ ~ConnectInterrupted /\ ~ConnectFails /\ ~ConnectTimesOut
    BY <1>1 DEF ConnectSucceeds, ConnectInterrupted, ConnectFails, ConnectTimesOut,
                GiveUpConnecting
  <2>4. /\ ~SendFails /\ ~ReceiveMalformed /\ ~ReceiveEnd /\ ~ReceiveWouldBlock
        /\ ~SessionTimesOut
    BY <1>1 DEF SendFails, ReceiveMalformed, ReceiveEnd, ReceiveWouldBlock, SessionTimesOut,
                Fail, EndCall
  <2>5. ~User
    BY <1>1 DEF User, SetKeepAlive, SetTimeout, ExecuteOnKept, ConnectAtOnce,
                ConnectInProgress, ConnectRefused
  <2>6. ~Environment /\ ~TimePasses /\ ~SessionInterrupted
    BY DEF Environment, LinkEstablished, ServerAnswers, ServerDrips, Deliver, ServerCloses,
           LinkResets, TimePasses, SessionInterrupted
  <2> QED
    BY <2>1, <2>2, <2>3, <2>4, <2>5, <2>6 DEF Next, CallStep, Signal
<1>3. result' = Answer(Cached[1].call)
  BY <1>2 DEF ReceiveResponse, EndCall
<1> QED
  BY <1>2, <1>3, ResponseFacts DEF Answer

THEOREM InvariantHolds == Spec => []IInv
<1>1. IInv /\ [Next]_vars => IInv'
  BY NextStep
<1> QED
  BY <1>1, InitInvariant, PTL DEF Spec

\* Every variable keeps its type.
THEOREM ClientTypeCorrect == Spec => []TypeOK
<1>1. IInv => TypeOK
  BY DEF IInv
<1> QED
  BY <1>1, InvariantHolds, PTL

\* Whatever happens to a call, its socket is closed, except where connect() itself
\* throws (connector.cc:51-70, client.cc:49-53, 114-120).
THEOREM NoOtherSocketLeaks == Spec => []OnlyRefusedSocketsLeak
<1>1. IInv => OnlyRefusedSocketsLeak
  BY DEF IInv
<1> QED
  BY <1>1, InvariantHolds, PTL

\* The session's loop waits for what concerns its call (http_client.cc:29-52).
THEOREM SessionWaitsForItsOwn == Spec => []WaitsForItsOwn
<1>1. IInv => WaitsForItsOwn
  BY DEF IInv, WaitsThroughout, WaitsForItsOwn, Running
<1> QED
  BY <1>1, InvariantHolds, PTL

\* A call returns the answer to its own request, whatever calls the connection has
\* carried before, unless one of them has failed on it (http_client.cc:25-67,
\* http.cc:408-492).
THEOREM AnswersBelongToCalls == Spec => AnswerBelongsToCall
<1>1. IInv /\ [Next]_vars =>
          [result' # result /\ result'.kind = "answer" /\ ~failed => result'.call = call]_vars
  BY AnswerStep
<1> QED
  BY <1>1, InvariantHolds, PTL DEF Spec, AnswerBelongsToCall

\* On a connection no call has failed on, all there is of a response belongs to the
\* call, or begins with a response that never ends; between two calls there is
\* nothing (http_client.cc:25-67,
\* http.cc:408-492).
THEOREM PiecesBelongToCall == Spec => []OwnPieces
<1>1. IInv => OwnPieces
  BY DEF IInv
<1> QED
  BY <1>1, InvariantHolds, PTL
=============================================================================
