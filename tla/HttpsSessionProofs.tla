------------------------ MODULE HttpsSessionProofs ------------------------
(***************************************************************************)
(* Proofs about HttpsSession: its types, Attended, AnswerBelongsToCall and *)
(* FailuresExplained, for any number of flights, records, calls, and of    *)
(* records that may be under way.                                          *)
(*                                                                         *)
(* The inductive invariant has two layers.  Structure says who has the     *)
(* connection, for what an end is registered and how a session is closed;  *)
(* it is inductive by itself.  Orderly says of the messages under way that *)
(* they are the call's and in order, and of a connection to which nothing  *)
(* has happened where it is; its steps use Structure.                      *)
(***************************************************************************)
EXTENDS HttpsSession, SequenceTheorems, TLAPS

\* What there is fits: on the wire, of a message to be written, and of one read.
Sizes ==
    /\ \A e \in Ends :
          /\ Len(wire[e]) <= wireSize /\ Len(toWrite[e]) <= Parts
          /\ unfinished[e] # "none" => toWrite[e] # <<>>
          /\ Handshaking(e) => flight[e] < Flights
    /\ Len(cache["client"]) < Parts
    /\ keepAlive \/ Handshaking("server") \/ state["server"] = "READING" =>
          Len(cache["server"]) < Parts

\* Who has the connection.  An end that has closed it waits for nothing.
Placement ==
    /\ ServerHasOnePlace
    /\ executing # {} => open["server"]
    /\ stage = "over" <=> ~open["client"]
    /\ ~open["client"] => registered["client"] = {}

\* An end is registered for the direction its operation needs.
Directions ==
    \A e \in Ends : registered[e] # {} =>
        /\ state[e] # "EMPTY"
        /\ Handshaking(e) => (IF Turn(flight[e]) = e THEN "OUTPUT" ELSE "INPUT") \in registered[e]
        /\ state[e] = "READING" => "INPUT" \in registered[e]
        /\ state[e] \in {"WRITING", "SHUTDOWN"} => "OUTPUT" \in registered[e]

\* All that the server sent has arrived, and there will be no more.
ServerGone == reset \/ (~open["server"] /\ wire["server"] = <<>>)

NoNotify(way)   == \A i \in DOMAIN way : way[i] # CloseNotify
NotifyLast(way) == \A i \in DOMAIN way : way[i] = CloseNotify => i = Len(way)

\* A session is closed by the last record of an end.
Closing ==
    /\ \A e \in Ends : sent[e] => received[e]
    /\ open["server"] /\ received["server"] =>
          executing = {} /\ state["server"] \in {"SHUTDOWN", "EMPTY"}
    /\ received["client"] \/ state["client"] = "SHUTDOWN" => ServerGone
    /\ NotifyLast(wire["server"])
    /\ open["server"] => NoNotify(wire["server"])

\* There is something to write while an end writes, and nothing before it does.
Nothing(e) == unfinished[e] = "none" /\ toWrite[e] = <<>>
Buffers ==
    /\ \A e \in Ends : Handshaking(e) \/ state[e] = "READING" => Nothing(e)
    /\ executing # {} => Nothing("server") /\ ~Handshaking("server")
    /\ ~failed /\ stage = "idle" => Nothing("client")
    /\ refused => /\ executing = {} /\ ~keepAlive
                  /\ ~Handshaking("server") /\ state["server"] # "READING"

\* Call k's message on its way: what is read of it, under way, and to be written
\* is of that call and in order.
Ordered(held, way, left, k) ==
    /\ Len(held) + Len(left) <= Parts
    /\ \A i \in DOMAIN held : held[i].call = k
    /\ \A i \in DOMAIN way : way[i] \in Pieces =>
          way[i].call = k /\ way[i].part \in (Len(held) + 1)..(Parts - Len(left))
    /\ \A i, j \in DOMAIN way : way[i] \in Pieces /\ way[j] \in Pieces /\ i < j =>
          way[i].part < way[j].part
    /\ \A i \in DOMAIN left : left[i].call = k /\ left[i].part = Parts - Len(left) + i

\* There is no message on its way.
Absent(held, way, left) ==
    /\ held = <<>> /\ left = <<>>
    /\ \A i \in DOMAIN way : way[i] \notin Pieces

\* What is neither read nor to be written is under way.
Covered(held, way, left) ==
    \A p \in (Len(held) + 1)..(Parts - Len(left)) :
        \E i \in DOMAIN way : way[i] \in Pieces /\ way[i].part = p

InOrder(e)   == Ordered(cache[e], wire[Other(e)], toWrite[Other(e)], call)
NoMessage(e) == Absent(cache[e], wire[Other(e)], toWrite[Other(e)])
Covers(e)    == Covered(cache[e], wire[Other(e)], toWrite[Other(e)])

OwnResponse ==
    /\ InOrder("client")
    /\ executing \subseteq {call}
    /\ executing # {} => NoMessage("client")

OwnRequest ==
    /\ InOrder("server")
    /\ NoMessage("server") \/ (executing = {} /\ NoMessage("client"))

OneAfterAnother ==
    /\ stage = "idle" \/ ~established => executing = {} /\ NoMessage("client")
    /\ (stage = "idle" /\ ~refused) \/ ~established => NoMessage("server")

\* Unless a call has failed the only message there is is the call's, and once the
\* server has refused a request it reads no other.
OwnPieces == ~failed => OwnResponse /\ (~refused => OwnRequest) /\ OneAfterAnother

\* A call whose client waits for nothing has lost its connection before.
LostBefore ==
    /\ state["client"] \in {"READING", "WRITING"} => established
    /\ established => ~Handshaking("client")
    /\ stage = "idle" /\ ~established => failed
    /\ stage = "calling" /\ registered["client"] = {} => failed \/ received["client"]

NoFlight(way)    == \A i \in DOMAIN way : way[i] # Flight
FlightFirst(way) ==
    way # <<>> /\ way[1] = Flight /\ \A i \in DOMAIN way : way[i] = Flight => i = 1

\* The handshake: no flight is under way, or one that the other end takes next.
Level == flight["client"] = flight["server"] /\ \A e \in Ends : NoFlight(wire[e])
AheadBy(e) ==
    /\ flight[e] = flight[Other(e)] + 1 /\ Turn(flight[Other(e)]) = e
    /\ FlightFirst(wire[e]) /\ NoFlight(wire[Other(e)])
InTurn ==
    /\ Level \/ AheadBy("client") \/ AheadBy("server")
    /\ \A e \in Ends : Handshaking(e) \/ flight[e] = Flights

\* Nothing has happened to the connection.
Healthy ==
    /\ ~reset /\ open["client"] /\ ~received["client"] /\ unfinished["client"] # "moved"
    /\ open["server"] => ~received["server"] /\ unfinished["server"] # "moved"
    /\ NoNotify(wire["client"])
    /\ InTurn

\* The client writes until it has nothing to write, and then reads.
ClientAtWork ==
    /\ registered["client"] # {}
    /\ state["client"] = IF toWrite["client"] # <<>> THEN "WRITING" ELSE "READING"
ServerReads == open["server"] /\ (Handshaking("server") \/ state["server"] = "READING")
Quiet       == toWrite["client"] = <<>> /\ wire["client"] = <<>>

\* How far an undisturbed call is: the handshake, the request, the method, the response.
Greeting ==
    ~established /\ registered["client"] # {} /\ state["client"] = "CONNECTING" /\ ServerReads /\ ~refused
Asking  == established /\ ClientAtWork /\ ServerReads /\ Covers("server") /\ ~refused
Working == established /\ ClientAtWork /\ Quiet /\ executing # {} /\ keepAlive = keep /\ ~refused
Answering ==
    /\ established /\ ClientAtWork /\ Quiet
    /\ Covers("client")
    /\ ~refused => keepAlive = keep
    /\ IF toWrite["server"] # <<>> THEN open["server"] /\ state["server"] = "WRITING"
       ELSE IF keepAlive THEN open["server"] /\ state["server"] = "READING"
       ELSE open["server"] => state["server"] = "SHUTDOWN"
Calling == Greeting \/ Asking \/ Working \/ Answering

\* And between two calls.
Resting ==
    /\ established /\ keep /\ Quiet /\ wire["server"] = <<>>
    /\ open["server"] /\ state["server"] = "READING"

Undisturbed ==
    ~disturbed =>
       /\ ~failed
       /\ stage = "calling" => Healthy /\ Calling
       /\ stage = "idle" /\ ~refused => Healthy /\ Resting

-----------------------------------------------------------------------------
(* Records *)

\* The kinds of record are told apart.
LEMMA RecordFacts ==
    /\ \A p \in Pieces : p \in Records /\ p.call \in 0..MaxCalls /\ p.part \in 1..Parts
    /\ Flight \in Records /\ CloseNotify \in Records
    /\ Flight \notin Pieces /\ CloseNotify \notin Pieces /\ Flight # CloseNotify
<1>1. \A p \in Pieces : p.kind = "piece" /\ p.call \in 0..MaxCalls /\ p.part \in 1..Parts
  BY DEF Pieces, Piece
<1>2. Flight.kind = "flight" /\ CloseNotify.kind = "notify"
  BY DEF Flight, CloseNotify
<1>3. Flight \in Records /\ CloseNotify \in Records /\ \A p \in Pieces : p \in Records
  BY DEF Records
<1> QED
  BY <1>1, <1>2, <1>3

\* A message is Parts pieces of its call, in order.
LEMMA MessageFacts ==
    ASSUME NEW k \in 0..MaxCalls
    PROVE  /\ Message(k) \in Seq(Pieces) /\ Len(Message(k)) = Parts
           /\ Message(k) # <<>>
           /\ \A i \in 1..Parts : Message(k)[i].call = k /\ Message(k)[i].part = i
<1>1. Parts \in Nat \ {0}
  BY SessionAssumption
<1>2. \A i \in 1..Parts : Piece(k, i) \in Pieces /\ Piece(k, i).call = k /\ Piece(k, i).part = i
  BY DEF Pieces, Piece
<1> QED
  BY <1>1, <1>2 DEF Message

\* A sequence of pieces is one of records.
LEMMA PiecesAreRecords == ASSUME NEW s \in Seq(Pieces) PROVE s \in Seq(Records)
<1>1. Len(s) \in Nat /\ s \in [1..Len(s) -> Pieces]
  OBVIOUS
<1>2. s \in [1..Len(s) -> Records]
  BY <1>1, RecordFacts
<1> QED
  BY <1>1, <1>2

\* The first n elements of a sequence ...
LEMMA FrontFacts ==
    ASSUME NEW S, NEW s \in Seq(S), NEW n \in 0..Len(s)
    PROVE  /\ SubSeq(s, 1, n) \in Seq(S) /\ Len(SubSeq(s, 1, n)) = n
           /\ \A i \in 1..n : SubSeq(s, 1, n)[i] = s[i]
  OBVIOUS

\* ... and what follows them.
LEMMA RestFacts ==
    ASSUME NEW S, NEW s \in Seq(S), NEW n \in 0..Len(s)
    PROVE  /\ SubSeq(s, n + 1, Len(s)) \in Seq(S)
           /\ Len(SubSeq(s, n + 1, Len(s))) = Len(s) - n
           /\ \A i \in 1..(Len(s) - n) : SubSeq(s, n + 1, Len(s))[i] = s[i + n]
<1>1. Len(s) \in Nat /\ n \in Nat
  OBVIOUS
<1> QED
  BY <1>1

\* What OpenSSL has prepared is followed by the rest of the message.
LEMMA SpliceFacts ==
    ASSUME NEW t \in Seq(Pieces), t # <<>>, Len(t) <= Parts, NEW k \in 0..MaxCalls
    PROVE  LET u == <<Head(t)>> \o SubSeq(Message(k), Parts - Len(t) + 2, Parts)
           IN  u \in Seq(Pieces) /\ Len(u) = Len(t) /\ u # <<>>
<1> DEFINE m == Parts - Len(t) + 2
<1>1. /\ Len(t) \in Nat \ {0} /\ Head(t) \in Pieces /\ Parts \in Nat \ {0}
      /\ m \in 2..(Parts + 1)
  BY SessionAssumption
<1> HIDE DEF m
<1>2. Message(k) \in Seq(Pieces) /\ Len(Message(k)) = Parts
  BY MessageFacts
<1>3. /\ SubSeq(Message(k), m, Parts) \in Seq(Pieces)
      /\ Len(SubSeq(Message(k), m, Parts)) = Parts - m + 1
  BY <1>1, <1>2
<1>4. /\ <<Head(t)>> \o SubSeq(Message(k), m, Parts) \in Seq(Pieces)
      /\ Len(<<Head(t)>> \o SubSeq(Message(k), m, Parts)) = 1 + (Parts - m + 1)
  BY <1>1, <1>3
<1>5. 1 + (Parts - m + 1) = Len(t)
  BY <1>1 DEF m
<1> QED
  BY <1>1, <1>4, <1>5 DEF m

\* Where a close_notify is when records are taken and put.
LEMMA NotifyFacts ==
    /\ NoNotify(<<>>) /\ NotifyLast(<<>>)
    /\ \A s \in Seq(Records) : NoNotify(s) => NotifyLast(s) /\ NotifyLast(Append(s, CloseNotify))
    /\ \A s \in Seq(Records), r \in Records \ {CloseNotify} : NoNotify(s) => NoNotify(Append(s, r))
    /\ \A s \in Seq(Records) : s # <<>> /\ NoNotify(s) => NoNotify(Tail(s))
    /\ \A s \in Seq(Records) : s # <<>> /\ NotifyLast(s) => NotifyLast(Tail(s))
<1>1. NoNotify(<<>>) /\ NotifyLast(<<>>)
  BY DEF NoNotify, NotifyLast
<1>2. ASSUME NEW s \in Seq(Records), NoNotify(s)
      PROVE  NotifyLast(s) /\ NotifyLast(Append(s, CloseNotify))
  <2>1. /\ DOMAIN Append(s, CloseNotify) = 1..(Len(s) + 1) /\ Len(Append(s, CloseNotify)) = Len(s) + 1
        /\ DOMAIN s = 1..Len(s) /\ Len(s) \in Nat
        /\ \A i \in 1..Len(s) : Append(s, CloseNotify)[i] = s[i]
    BY RecordFacts
  <2> QED
    BY <1>2, <2>1 DEF NoNotify, NotifyLast
<1>3. ASSUME NEW s \in Seq(Records), NEW r \in Records \ {CloseNotify}, NoNotify(s)
      PROVE  NoNotify(Append(s, r))
  <2>1. /\ DOMAIN Append(s, r) = 1..(Len(s) + 1)
        /\ DOMAIN s = 1..Len(s) /\ Len(s) \in Nat
        /\ \A i \in 1..Len(s) : Append(s, r)[i] = s[i]
        /\ Append(s, r)[Len(s) + 1] = r
    OBVIOUS
  <2> QED
    BY <1>3, <2>1 DEF NoNotify
<1>4. ASSUME NEW s \in Seq(Records), s # <<>>
      PROVE  (NoNotify(s) => NoNotify(Tail(s))) /\ (NotifyLast(s) => NotifyLast(Tail(s)))
  <2>1. /\ Len(s) \in Nat \ {0} /\ DOMAIN s = 1..Len(s)
        /\ DOMAIN Tail(s) = 1..(Len(s) - 1) /\ Len(Tail(s)) = Len(s) - 1
        /\ \A i \in 1..(Len(s) - 1) : Tail(s)[i] = s[i + 1] /\ i + 1 \in 1..Len(s)
    BY <1>4
  <2>2. NoNotify(s) => NoNotify(Tail(s))
    BY <2>1 DEF NoNotify
  <2>3. ASSUME NotifyLast(s), NEW i \in 1..(Len(s) - 1), Tail(s)[i] = CloseNotify
        PROVE  i = Len(s) - 1
    <3>1. i + 1 = Len(s)
      BY <2>1, <2>3 DEF NotifyLast
    <3> QED
      BY <3>1, <2>1
  <2> QED
    BY <2>1, <2>2, <2>3 DEF NotifyLast
<1> QED
  BY <1>1, <1>2, <1>3, <1>4

\* Pieces are put behind what is under way.
LEMMA JoinFacts ==
    ASSUME NEW s \in Seq(Records), NEW t \in Seq(Pieces)
    PROVE  /\ s \o t \in Seq(Records) /\ Len(s \o t) = Len(s) + Len(t)
           /\ \A i \in 1..Len(s) : (s \o t)[i] = s[i]
           /\ \A i \in 1..Len(t) : (s \o t)[Len(s) + i] = t[i]
           /\ DOMAIN (s \o t) = 1..(Len(s) + Len(t))
           /\ NoNotify(s) => NoNotify(s \o t)
<1>1. t \in Seq(Records) /\ Len(s) \in Nat /\ Len(t) \in Nat /\ DOMAIN t = 1..Len(t) /\ DOMAIN s = 1..Len(s)
  BY PiecesAreRecords
<1>2. /\ s \o t \in Seq(Records) /\ Len(s \o t) = Len(s) + Len(t)
      /\ DOMAIN (s \o t) = 1..(Len(s) + Len(t))
  BY <1>1
<1>3. /\ \A i \in 1..Len(s) : (s \o t)[i] = s[i]
      /\ \A i \in 1..Len(t) : (s \o t)[Len(s) + i] = t[i]
  BY <1>1
<1>4. ASSUME NoNotify(s), NEW i \in 1..(Len(s) + Len(t)) PROVE (s \o t)[i] # CloseNotify
  <2>1. CASE i <= Len(s)
    BY <1>1, <1>3, <1>4, <2>1 DEF NoNotify
  <2>2. CASE i > Len(s)
    <3>1. PICK j \in 1..Len(t) : i = Len(s) + j
      <4>1. i - Len(s) \in 1..Len(t) /\ i = Len(s) + (i - Len(s))
        BY <1>1, <2>2
      <4> QED
        BY <4>1
    <3>2. t[j] \in Pieces
      BY <1>1
    <3> QED
      BY <1>3, <3>1, <3>2, RecordFacts
  <2> QED
    BY <1>1, <2>1, <2>2
<1> QED
  BY <1>2, <1>3, <1>4 DEF NoNotify

-----------------------------------------------------------------------------
(* What the operations do to an end and to the network *)

\* There are two ends, and each has the other.
LEMMA EndFacts ==
    /\ "client" \in Ends /\ "server" \in Ends
    /\ Other("client") = "server" /\ Other("server") = "client"
    /\ \A e \in Ends : Other(e) \in Ends /\ Other(e) # e /\ Other(Other(e)) = e
  BY DEF Ends, Other

\* An operation waits for one direction (reg_recv(), reg_send(), ssl_connection.cc:274-292).
LEMMA RegFacts ==
    ASSUME TypeOK, NEW e \in Ends, NEW st \in States, NEW ev \in {"INPUT", "OUTPUT"}, Reg(e, st, ev)
    PROVE  /\ state' \in [Ends -> States] /\ state'[e] = st
           /\ registered' \in [Ends -> SUBSET {"INPUT", "OUTPUT"}] /\ registered'[e] = {ev}
           /\ \A x \in Ends \ {e} : state'[x] = state[x] /\ registered'[x] = registered[x]
  BY DEF TypeOK, Reg

\* An operation leaves its end unregistered.
LEMMA RegNothingFacts ==
    ASSUME TypeOK, NEW e \in Ends, NEW st \in States, RegNothing(e, st)
    PROVE  /\ state' \in [Ends -> States] /\ state'[e] = st
           /\ registered' \in [Ends -> SUBSET {"INPUT", "OUTPUT"}] /\ registered'[e] = {}
           /\ \A x \in Ends \ {e} : state'[x] = state[x] /\ registered'[x] = registered[x]
  BY DEF TypeOK, RegNothing

\* reg_shutdown() waits for the half of the shutdown that is missing, if one is
\* (ssl_connection.cc:238-257).
LEMMA RegShutdownFacts ==
    ASSUME TypeOK, NEW e \in Ends, NEW s \in BOOLEAN, NEW r \in BOOLEAN, RegShutdown(e, s, r)
    PROVE  /\ state' \in [Ends -> States] /\ state'[e] \in {"SHUTDOWN", "EMPTY"}
           /\ registered' \in [Ends -> SUBSET {"INPUT", "OUTPUT"}]
           /\ IF s /\ r THEN state'[e] = "EMPTY" /\ registered'[e] = {}
              ELSE /\ state'[e] = "SHUTDOWN"
                   /\ registered'[e] = IF s THEN {"INPUT"} ELSE {"OUTPUT"}
           /\ \A x \in Ends \ {e} : state'[x] = state[x] /\ registered'[x] = registered[x]
<1>1. "SHUTDOWN" \in States /\ "EMPTY" \in States
  BY DEF States
<1>2. CASE ~s
  BY <1>1, <1>2, RegFacts DEF RegShutdown
<1>3. CASE s /\ ~r
  BY <1>1, <1>3, RegFacts DEF RegShutdown
<1>4. CASE s /\ r
  BY <1>1, <1>4, RegNothingFacts DEF RegShutdown
<1> QED
  BY <1>2, <1>3, <1>4

\* A step of e leaves two sequences under way.
LEMMA UnderWayFacts ==
    ASSUME NEW e \in Ends, NEW out \in Seq(Records), NEW in \in Seq(Records), UnderWay(e, out, in)
    PROVE  /\ wire' \in [Ends -> Seq(Records)] /\ wire'[e] = out /\ wire'[Other(e)] = in
           /\ wireSize' = wireSize
  BY EndFacts DEF UnderWay

\* A socket is closed, and what was unread there resets the connection.
LEMMA CloseFacts ==
    ASSUME TypeOK, NEW e \in Ends, NEW out \in Seq(Records), NEW in \in Seq(Records), Close(e, out, in)
    PROVE  /\ open' \in [Ends -> BOOLEAN] /\ ~open'[e] /\ open'[Other(e)] = open[Other(e)]
           /\ reset' \in BOOLEAN
           /\ wire' \in [Ends -> Seq(Records)] /\ wireSize' = wireSize
           /\ IF in # <<>> THEN reset' /\ \A x \in Ends : wire'[x] = <<>>
              ELSE reset' = reset /\ wire'[e] = out /\ wire'[Other(e)] = in
<1>1. <<>> \in Seq(Records)
  OBVIOUS
<1>2. open' \in [Ends -> BOOLEAN] /\ ~open'[e] /\ open'[Other(e)] = open[Other(e)]
  BY EndFacts DEF TypeOK, Close
<1>3. CASE in # <<>>
  <2>1. reset' = TRUE /\ UnderWay(e, <<>>, <<>>)
    BY <1>3 DEF Close
  <2>2. /\ wire' \in [Ends -> Seq(Records)] /\ wire'[e] = <<>> /\ wire'[Other(e)] = <<>>
        /\ wireSize' = wireSize
    BY <1>1, <2>1, UnderWayFacts
  <2>3. \A x \in Ends : x = e \/ x = Other(e)
    BY DEF Ends, Other
  <2> QED
    BY <1>2, <1>3, <2>1, <2>2, <2>3
<1>4. CASE in = <<>>
  <2>1. reset' = reset /\ UnderWay(e, out, in)
    BY <1>4 DEF Close
  <2>2. /\ wire' \in [Ends -> Seq(Records)] /\ wire'[e] = out /\ wire'[Other(e)] = in
        /\ wireSize' = wireSize
    BY <2>1, UnderWayFacts
  <2> QED
    BY <1>2, <1>4, <2>1, <2>2 DEF TypeOK
<1> QED
  BY <1>3, <1>4

\* reg_send() leaves something to write, of its own message unless OpenSSL remembers
\* another.
LEMMA PrepareFacts ==
    ASSUME TypeOK, Sizes, NEW e \in Ends, NEW k \in 0..MaxCalls, Prepare(e, Message(k))
    PROVE  /\ toWrite' \in [Ends -> Seq(Pieces)] /\ Len(toWrite'[e]) <= Parts
           /\ unfinished' \in [Ends -> {"none", "same", "moved"}]
           /\ toWrite'[e] # <<>>
           /\ unfinished[e] = "none" => toWrite'[e] = Message(k) /\ unfinished'[e] = "none"
           /\ unfinished'[e] = "none" <=> unfinished[e] = "none"
           /\ \A x \in Ends \ {e} : toWrite'[x] = toWrite[x] /\ unfinished'[x] = unfinished[x]
<1>1. /\ toWrite \in [Ends -> Seq(Pieces)] /\ unfinished \in [Ends -> {"none", "same", "moved"}]
      /\ Len(toWrite[e]) <= Parts /\ toWrite[e] \in Seq(Pieces)
      /\ unfinished[e] # "none" => toWrite[e] # <<>>
  BY DEF TypeOK, Sizes
<1>2. Message(k) \in Seq(Pieces) /\ Len(Message(k)) = Parts /\ Message(k) # <<>> /\ Parts \in Nat
  BY MessageFacts, SessionAssumption
<1>3. CASE unfinished[e] = "none"
  <2>1. toWrite' = [toWrite EXCEPT ![e] = Message(k)] /\ unfinished' = unfinished
    BY <1>3 DEF Prepare
  <2> QED
    BY <1>1, <1>2, <1>3, <2>1
<1>4. CASE unfinished[e] # "none" /\ unfinished' = [unfinished EXCEPT ![e] = "moved"] /\ toWrite' = toWrite
  BY <1>1, <1>4
<1>5. CASE /\ unfinished[e] # "none" /\ unfinished' = unfinished
           /\ toWrite' = [toWrite EXCEPT ![e] =
                 <<Head(@)>> \o SubSeq(Message(k), Parts - Len(@) + 2, Parts)]
  <2>1. PICK u : u = <<Head(toWrite[e])>> \o SubSeq(Message(k), Parts - Len(toWrite[e]) + 2, Parts)
    OBVIOUS
  <2>2. u \in Seq(Pieces) /\ Len(u) = Len(toWrite[e]) /\ u # <<>>
    BY <1>1, <1>5, <2>1, SpliceFacts
  <2>3. toWrite' = [toWrite EXCEPT ![e] = u]
    BY <1>5, <2>1
  <2> QED
    BY <1>1, <1>5, <2>2, <2>3
<1> QED
  BY <1>3, <1>4, <1>5 DEF Prepare

\* A call returns or throws (client.cc:31-79, 132-141): the connection is kept or deleted.
LEMMA EndCallFacts ==
    ASSUME TypeOK, NEW outcome, outcome \in [kind : Outcomes, call : 0..MaxCalls],
           NEW in \in Seq(Records), EndCall(outcome, in)
    PROVE  /\ result' = outcome
           /\ failed' \in BOOLEAN /\ (failed' <=> failed \/ outcome.kind # "answer")
           /\ stage' = IF keep THEN "idle" ELSE "over"
           /\ reset' \in BOOLEAN /\ open' \in [Ends -> BOOLEAN]
           /\ wire' \in [Ends -> Seq(Records)] /\ wireSize' = wireSize
           /\ open'["server"] = open["server"]
           /\ open'["client"] <=> open["client"] /\ keep
           /\ \/ reset' /\ wire'["client"] = <<>> /\ wire'["server"] = <<>> /\ ~keep
              \/ reset' = reset /\ wire'["client"] = wire["client"] /\ wire'["server"] = in
           /\ <<keep, timed, call, established, executing, keepAlive, refused>>'
                = <<keep, timed, call, established, executing, keepAlive, refused>>
<1>1. wire["client"] \in Seq(Records)
  BY EndFacts DEF TypeOK
<1>2. CASE keep
  <2>1. UnderWay("client", wire["client"], in) /\ open' = open /\ reset' = reset
    BY <1>2 DEF EndCall
  <2>2. /\ wire' \in [Ends -> Seq(Records)] /\ wire'["client"] = wire["client"]
        /\ wire'["server"] = in /\ wireSize' = wireSize
    BY <2>1, <1>1, UnderWayFacts, EndFacts
  <2> QED
    BY <1>2, <2>1, <2>2 DEF EndCall, TypeOK, server
<1>3. CASE ~keep
  <2>1. Close("client", wire["client"], in)
    BY <1>3 DEF EndCall
  <2>2. /\ open' \in [Ends -> BOOLEAN] /\ ~open'["client"] /\ open'["server"] = open["server"]
        /\ reset' \in BOOLEAN
        /\ wire' \in [Ends -> Seq(Records)] /\ wireSize' = wireSize
        /\ IF in # <<>> THEN reset' /\ \A x \in Ends : wire'[x] = <<>>
           ELSE reset' = reset /\ wire'["client"] = wire["client"] /\ wire'["server"] = in
    BY <2>1, <1>1, CloseFacts, EndFacts
  <2> QED
    BY <1>3, <2>2, EndFacts DEF EndCall, TypeOK, server
<1> QED
  BY <1>2, <1>3 DEF TypeOK

\* FreeServer, with `out' under way from the server.
LEMMA FreeServerFacts ==
    ASSUME TypeOK, NEW out \in Seq(Records), FreeServer(out)
    PROVE  /\ open' \in [Ends -> BOOLEAN] /\ ~open'["server"] /\ open'["client"] = open["client"]
           /\ reset' \in BOOLEAN
           /\ wire' \in [Ends -> Seq(Records)] /\ wireSize' = wireSize
           /\ \/ reset' /\ wire'["client"] = <<>> /\ wire'["server"] = <<>> /\ wire["client"] # <<>>
              \/ reset' = reset /\ wire'["client"] = wire["client"] /\ wire'["server"] = out
           /\ state' \in [Ends -> States] /\ state'["server"] = "EMPTY"
           /\ state'["client"] = state["client"]
           /\ registered' \in [Ends -> SUBSET {"INPUT", "OUTPUT"}] /\ registered'["server"] = {}
           /\ registered'["client"] = registered["client"]
           /\ UNCHANGED <<toWrite, unfinished, cache, client, server, disturbed>>
<1>1. Close("server", out, wire["client"]) /\ RegNothing("server", "EMPTY")
  BY EndFacts DEF FreeServer, Incoming
<1>2. wire["client"] \in Seq(Records) /\ "EMPTY" \in States
  BY EndFacts DEF TypeOK, States
<1>3. /\ open' \in [Ends -> BOOLEAN] /\ ~open'["server"] /\ open'["client"] = open["client"]
      /\ reset' \in BOOLEAN
      /\ wire' \in [Ends -> Seq(Records)] /\ wireSize' = wireSize
      /\ IF wire["client"] # <<>> THEN reset' /\ \A x \in Ends : wire'[x] = <<>>
         ELSE reset' = reset /\ wire'["server"] = out /\ wire'["client"] = wire["client"]
  BY <1>1, <1>2, CloseFacts, EndFacts
<1>4. /\ state' \in [Ends -> States] /\ state'["server"] = "EMPTY"
      /\ registered' \in [Ends -> SUBSET {"INPUT", "OUTPUT"}] /\ registered'["server"] = {}
      /\ \A x \in Ends \ {"server"} : state'[x] = state[x] /\ registered'[x] = registered[x]
  BY <1>1, <1>2, RegNothingFacts, EndFacts
<1>5. "client" \in Ends \ {"server"}
  BY EndFacts
<1> QED
  BY <1>3, <1>4, <1>5, EndFacts DEF FreeServer

\* What a step of e finds.
LEMMA ReactsFacts ==
    ASSUME TypeOK, Placement, NEW e \in Ends, Reacts(e)
    PROVE  /\ registered[e] # {} /\ open[e]
           /\ e = "server" => executing = {}
           /\ e = "client" => stage = "calling"
<1>1. registered[e] # {} /\ (e = "client" => stage = "calling")
  BY DEF Reacts, Ready
<1> QED
  BY <1>1 DEF Placement, ServerHasOnePlace, Ends

\* The flights of the handshake are sent in turn.
LEMMA TurnFacts ==
    \A n \in Nat : Turn(n) \in Ends /\ Turn(n + 1) = Other(Turn(n)) /\ Turn(n + 1) # Turn(n)
  BY DEF Turn, Other, Ends

\* One step of the handshake takes at most a flight and sends at most a flight, and then
\* waits for the direction of the next.
LEMMA HandshakeFacts ==
    ASSUME TypeOK, Sizes, NEW e \in Ends, Handshake(e)
    PROVE  /\ flight' \in [Ends -> 0..Flights] /\ flight'[e] = Reached(e)
           /\ flight'[Other(e)] = flight[Other(e)]
           /\ wire' \in [Ends -> Seq(Records)] /\ wireSize' = wireSize
           /\ wire'[e] = IF Owes(e) /\ Room(e) THEN Append(wire[e], Flight) ELSE wire[e]
           /\ wire'[Other(e)] = IF Takes(e) THEN Tail(wire[Other(e)]) ELSE wire[Other(e)]
           /\ \A x \in Ends : Len(wire'[x]) <= wireSize
           /\ Reached(e) < Flights =>
                 (Turn(Reached(e)) = e <=> Owes(e) /\ ~Room(e))
           /\ Reached(e) \in Nat
<1>1. /\ flight \in [Ends -> 0..Flights] /\ flight[e] \in Nat /\ flight[e] < Flights /\ Flights \in Nat
      /\ wireSize \in Nat /\ Other(e) \in Ends /\ Other(e) # e
      /\ wire[e] \in Seq(Records) /\ wire[Other(e)] \in Seq(Records)
      /\ \A x \in Ends : Len(wire[x]) <= wireSize /\ Len(wire[x]) \in Nat
  BY SMTT(30), SessionAssumption, EndFacts DEF TypeOK, Sizes, Handshake
<1>2. Taken(e) \in Nat /\ Taken(e) <= Flights
  BY <1>1 DEF Taken
<1>3. Reached(e) \in 0..Flights
  BY <1>1, <1>2 DEF Reached, Owes
<1>4. flight' = [flight EXCEPT ![e] = Reached(e)]
  BY DEF Handshake
<1>5. PICK out : out = IF Owes(e) /\ Room(e) THEN Append(wire[e], Flight) ELSE wire[e]
  OBVIOUS
<1>6. PICK in : in = IF Takes(e) THEN Tail(wire[Other(e)]) ELSE wire[Other(e)]
  OBVIOUS
<1>7. UnderWay(e, out, in)
  BY <1>5, <1>6 DEF Handshake, Incoming
<1>8. out \in Seq(Records) /\ Len(out) <= wireSize
  BY <1>1, <1>5, RecordFacts DEF Room
<1>9. in \in Seq(Records) /\ Len(in) <= wireSize
  <2>1. CASE ~Takes(e)
    BY <2>1, <1>1, <1>6
  <2>2. CASE Takes(e)
    <3>1. wire[Other(e)] # <<>> /\ in = Tail(wire[Other(e)])
      BY <2>2, <1>6 DEF Takes, Incoming
    <3> QED
      BY <3>1, <1>1
  <2> QED
    BY <2>1, <2>2
<1>10. /\ wire' \in [Ends -> Seq(Records)] /\ wire'[e] = out /\ wire'[Other(e)] = in
       /\ wireSize' = wireSize
  BY <1>7, <1>8, <1>9, UnderWayFacts
<1>11. \A x \in Ends : Len(wire'[x]) <= wireSize
  BY <1>8, <1>9, <1>10 DEF Ends, Other
<1>12. Reached(e) < Flights => (Turn(Reached(e)) = e <=> Owes(e) /\ ~Room(e))
  <2>1. CASE Owes(e) /\ Room(e)
    <3>1. Reached(e) = Taken(e) + 1 /\ Turn(Taken(e)) = e
      BY <2>1 DEF Reached, Owes
    <3> QED
      BY <2>1, <3>1, <1>2, TurnFacts
  <2>2. CASE ~(Owes(e) /\ Room(e))
    <3>1. Reached(e) = Taken(e)
      BY <2>2, <1>2 DEF Reached
    <3> QED
      BY <2>2, <3>1 DEF Owes
  <2> QED
    BY <2>1, <2>2
<1>13. flight' \in [Ends -> 0..Flights] /\ flight'[e] = Reached(e) /\ flight'[Other(e)] = flight[Other(e)]
  BY <1>1, <1>3, <1>4
<1> QED
  BY <1>3, <1>5, <1>6, <1>10, <1>11, <1>12, <1>13

-----------------------------------------------------------------------------
(* The structure of a connection: Structure is inductive *)

Structure == TypeOK /\ Sizes /\ Placement /\ Directions /\ Closing

\* SSL_accept() or SSL_connect() wants to read or write (ssl_connection.cc:161-169, 190-199).
LEMMA HandshakeWaitsKeepsStructure ==
    ASSUME Structure, NEW e \in Ends, HandshakeWaits(e)
    PROVE  Structure'
<1>1. TypeOK /\ Sizes /\ Placement /\ Directions /\ Closing
  BY DEF Structure
<1>2. /\ flight' \in [Ends -> 0..Flights] /\ flight'[e] = Reached(e)
      /\ flight'[Other(e)] = flight[Other(e)]
      /\ wire' \in [Ends -> Seq(Records)] /\ wireSize' = wireSize
      /\ wire'[e] = IF Owes(e) /\ Room(e) THEN Append(wire[e], Flight) ELSE wire[e]
      /\ wire'[Other(e)] = IF Takes(e) THEN Tail(wire[Other(e)]) ELSE wire[Other(e)]
      /\ \A x \in Ends : Len(wire'[x]) <= wireSize
      /\ Turn(Reached(e)) = e <=> Owes(e) /\ ~Room(e)
      /\ Reached(e) \in Nat /\ Reached(e) < Flights
  BY <1>1, HandshakeFacts DEF HandshakeWaits
<1>3. /\ registered[e] # {} /\ open[e] /\ Handshaking(e) /\ ~reset
      /\ e = "server" => executing = {}
      /\ e = "client" => stage = "calling"
  BY <1>1, ReactsFacts DEF HandshakeWaits, Handshake
<1>4. PICK ev \in {"INPUT", "OUTPUT"} :
        ev = IF Owes(e) /\ ~Room(e) THEN "OUTPUT" ELSE "INPUT"
  OBVIOUS
<1>5. /\ state' \in [Ends -> States] /\ state'[e] = state[e]
      /\ registered' \in [Ends -> SUBSET {"INPUT", "OUTPUT"}] /\ registered'[e] = {ev}
      /\ \A x \in Ends \ {e} : state'[x] = state[x] /\ registered'[x] = registered[x]
  <2>1. state[e] \in States /\ Reg(e, state[e], ev)
    BY <1>1, <1>4 DEF HandshakeWaits, TypeOK
  <2> QED
    BY <1>1, <2>1, RegFacts
<1>6. UNCHANGED <<open, reset, sent, received, cache, executing, keepAlive, refused, disturbed,
                  toWrite, unfinished, keep, timed, stage, call, result, established, failed>>
  BY DEF HandshakeWaits, Handshake, server, client
<1>7. TypeOK'
  BY SMTT(30), <1>1, <1>2, <1>5, <1>6 DEF TypeOK
<1>8. Sizes'
  BY SMTT(30), <1>1, <1>2, <1>3, <1>5, <1>6 DEF Sizes, Handshaking, Ends, Other, TypeOK
<1>9. Placement'
  BY <1>1, <1>3, <1>5, <1>6 DEF Placement, ServerHasOnePlace, Ends
<1>10. Directions'
  BY SMTT(30), <1>1, <1>2, <1>3, <1>4, <1>5, <1>6 DEF Directions, Handshaking, Ends, Other, TypeOK, States
<1>11. Closing'
  <2>1. CASE e = "server"
    <3>1. ~ServerGone /\ wire'["server"] \in {wire["server"], Append(wire["server"], Flight)}
      BY <1>2, <1>3, <2>1 DEF ServerGone
    <3>2. NoNotify(wire'["server"]) /\ NotifyLast(wire'["server"])
      <4>1. wire["server"] \in Seq(Records) /\ Flight \in Records \ {CloseNotify}
        BY <1>1, RecordFacts, EndFacts DEF TypeOK
      <4>2. NoNotify(wire["server"]) /\ wire'["server"] \in Seq(Records)
        BY <1>1, <1>2, <1>3, <2>1, EndFacts DEF Closing
      <4>3. NoNotify(wire'["server"])
        BY <3>1, <4>1, <4>2, NotifyFacts
      <4> QED
        BY <4>2, <4>3, NotifyFacts
    <3> QED
      BY <1>1, <1>3, <1>5, <1>6, <2>1, <3>1, <3>2 DEF Closing, ServerGone, Handshaking, Ends
  <2>2. CASE e = "client"
    <3>1. \/ wire'["server"] = wire["server"]
          \/ wire["server"] # <<>> /\ wire'["server"] = Tail(wire["server"])
      BY <1>2, <2>2, EndFacts DEF Takes, Incoming
    <3>2. NotifyLast(wire'["server"]) /\ (open["server"] => NoNotify(wire'["server"]))
      <4>1. wire["server"] \in Seq(Records)
        BY <1>1, EndFacts DEF TypeOK
      <4>2. NotifyLast(wire["server"]) /\ (open["server"] => NoNotify(wire["server"]))
        BY <1>1 DEF Closing
      <4> QED
        BY <3>1, <4>1, <4>2, NotifyFacts
    <3>3. ServerGone => ServerGone'
      BY <1>3, <1>6, <3>1 DEF ServerGone
    <3> QED
      BY <1>1, <1>3, <1>5, <1>6, <2>2, <3>2, <3>3 DEF Closing, Handshaking, Ends
  <2> QED
    BY <2>1, <2>2 DEF Ends
<1> QED
  BY <1>7, <1>8, <1>9, <1>10, <1>11 DEF Structure

\* accept_succeed(): the server reads (https_server.cc:69-72).
LEMMA AcceptedKeepsStructure == ASSUME Structure, Accepted PROVE Structure'
<1>1. TypeOK /\ Sizes /\ Placement /\ Directions /\ Closing
  BY DEF Structure
<1>2. /\ flight' \in [Ends -> 0..Flights]
      /\ wire' \in [Ends -> Seq(Records)] /\ wireSize' = wireSize
      /\ \/ wire'["server"] = wire["server"]
         \/ wire'["server"] = Append(wire["server"], Flight)
      /\ \A x \in Ends : Len(wire'[x]) <= wireSize
      /\ flight'["client"] = flight["client"]
  BY <1>1, HandshakeFacts, EndFacts DEF Accepted
<1>3. registered["server"] # {} /\ open["server"] /\ Handshaking("server") /\ ~reset /\ executing = {}
  BY <1>1, ReactsFacts, EndFacts DEF Accepted, Handshake
<1>4. /\ state' \in [Ends -> States] /\ state'["server"] = "READING"
      /\ registered' \in [Ends -> SUBSET {"INPUT", "OUTPUT"}] /\ registered'["server"] = {"INPUT"}
      /\ \A x \in Ends \ {"server"} : state'[x] = state[x] /\ registered'[x] = registered[x]
  <2>1. "READING" \in States /\ Reg("server", "READING", "INPUT")
    BY DEF Accepted, RegRecv, States
  <2> QED
    BY <1>1, <2>1, RegFacts, EndFacts
<1>5. UNCHANGED <<open, reset, sent, received, cache, executing, keepAlive, refused, disturbed,
                  toWrite, unfinished, keep, timed, stage, call, result, established, failed>>
  BY DEF Accepted, Handshake, server, client
<1>6. TypeOK'
  BY SMTT(30), <1>1, <1>2, <1>4, <1>5 DEF TypeOK
<1>7. Sizes'
  BY <1>1, <1>2, <1>3, <1>4, <1>5 DEF Sizes, Handshaking, Ends
<1>8. Placement'
  BY <1>1, <1>3, <1>4, <1>5 DEF Placement, ServerHasOnePlace, Ends
<1>9. Directions'
  BY <1>1, <1>2, <1>3, <1>4, <1>5 DEF Directions, Handshaking, Ends
<1>10. Closing'
  <2>1. ~ServerGone
    BY <1>3 DEF ServerGone
  <2>2. wire["server"] \in Seq(Records) /\ Flight \in Records \ {CloseNotify} /\ NoNotify(wire["server"])
    BY <1>1, <1>3, RecordFacts, EndFacts DEF TypeOK, Closing
  <2>3. NoNotify(wire'["server"]) /\ NotifyLast(wire'["server"])
    <3>1. wire'["server"] \in Seq(Records) /\ NoNotify(wire'["server"])
      BY <1>2, <2>2, NotifyFacts, EndFacts
    <3> QED
      BY <3>1, NotifyFacts
  <2> QED
    BY <1>1, <1>3, <1>4, <1>5, <2>1, <2>3 DEF Closing, ServerGone, Handshaking, Ends
<1> QED
  BY <1>6, <1>7, <1>8, <1>9, <1>10 DEF Structure

\* What there is of wire["server"] when a record of it is taken.
LEMMA ServerRecordTaken ==
    ASSUME TypeOK, Closing
    PROVE  /\ NotifyLast(wire["server"]) /\ (open["server"] => NoNotify(wire["server"]))
           /\ wire["server"] # <<>> =>
                 /\ NotifyLast(Tail(wire["server"]))
                 /\ open["server"] => NoNotify(Tail(wire["server"]))
<1>1. wire["server"] \in Seq(Records)
  BY EndFacts DEF TypeOK
<1>2. NotifyLast(wire["server"]) /\ (open["server"] => NoNotify(wire["server"]))
  BY DEF Closing
<1> QED
  BY <1>1, <1>2, NotifyFacts

\* connect_succeed(): the client writes its request (https_client.cc:153-157).
LEMMA ConnectedKeepsStructure == ASSUME Structure, Connected PROVE Structure'
<1>1. TypeOK /\ Sizes /\ Placement /\ Directions /\ Closing
  BY DEF Structure
<1>2. /\ flight' \in [Ends -> 0..Flights] /\ flight'["server"] = flight["server"]
      /\ wire' \in [Ends -> Seq(Records)] /\ wireSize' = wireSize
      /\ wire'["server"] = IF Takes("client") THEN Tail(wire["server"]) ELSE wire["server"]
      /\ \A x \in Ends : Len(wire'[x]) <= wireSize
  BY <1>1, HandshakeFacts, EndFacts DEF Connected
<1>3. /\ registered["client"] # {} /\ open["client"] /\ Handshaking("client") /\ ~reset
      /\ stage = "calling"
  BY <1>1, ReactsFacts, EndFacts DEF Connected, Handshake
<1>4. /\ state' \in [Ends -> States] /\ state'["client"] = "WRITING"
      /\ registered' \in [Ends -> SUBSET {"INPUT", "OUTPUT"}] /\ registered'["client"] = {"OUTPUT"}
      /\ \A x \in Ends \ {"client"} : state'[x] = state[x] /\ registered'[x] = registered[x]
  <2>1. "WRITING" \in States /\ Reg("client", "WRITING", "OUTPUT")
    BY DEF Connected, RegSend, States
  <2> QED
    BY <1>1, <2>1, RegFacts, EndFacts
<1>5. /\ toWrite' \in [Ends -> Seq(Pieces)] /\ Len(toWrite'["client"]) <= Parts
      /\ unfinished' \in [Ends -> {"none", "same", "moved"}]
      /\ toWrite'["client"] # <<>>
      /\ \A x \in Ends \ {"client"} : toWrite'[x] = toWrite[x] /\ unfinished'[x] = unfinished[x]
  <2>1. call \in 0..MaxCalls /\ Prepare("client", Message(call))
    BY <1>1 DEF TypeOK, Connected, RegSend
  <2> QED
    BY <1>1, <2>1, PrepareFacts, EndFacts
<1>6. UNCHANGED <<open, reset, sent, received, cache, executing, keepAlive, refused, disturbed,
                  keep, timed, stage, call, result, failed>> /\ established' = TRUE
  BY DEF Connected, Handshake, server, client
<1>7. TypeOK'
  BY <1>1, <1>2, <1>4, <1>5, <1>6 DEF TypeOK
<1>8. Sizes'
  <2>1. ASSUME NEW e \in Ends
        PROVE  /\ Len(toWrite'[e]) <= Parts
               /\ unfinished'[e] # "none" => toWrite'[e] # <<>>
               /\ Handshaking(e)' => flight'[e] < Flights
    <3>1. CASE e = "client"
      BY <1>4, <1>5, <3>1 DEF Handshaking
    <3>2. CASE e = "server"
      BY <1>1, <1>2, <1>4, <1>5, <3>2 DEF Sizes, Handshaking, Ends
    <3> QED
      BY <3>1, <3>2 DEF Ends
  <2>2. Len(cache'["client"]) < Parts
    BY <1>1, <1>6 DEF Sizes
  <2>3. keepAlive' \/ Handshaking("server")' \/ state'["server"] = "READING" => Len(cache'["server"]) < Parts
    BY <1>1, <1>4, <1>6 DEF Sizes, Handshaking, Ends
  <2> QED
    BY <1>2, <2>1, <2>2, <2>3 DEF Sizes
<1>9. Placement'
  BY <1>1, <1>3, <1>4, <1>6 DEF Placement, ServerHasOnePlace, Ends
<1>10. Directions'
  BY <1>1, <1>2, <1>3, <1>4, <1>6 DEF Directions, Handshaking, Ends
<1>11. Closing'
  <2>1. /\ NotifyLast(wire'["server"]) /\ (open["server"] => NoNotify(wire'["server"]))
        /\ wire["server"] = <<>> => wire'["server"] = <<>>
    BY <1>1, <1>2, ServerRecordTaken, EndFacts DEF Takes, Incoming
  <2> QED
    BY <1>1, <1>3, <1>4, <1>6, <2>1 DEF Closing, ServerGone, Handshaking, Ends
<1> QED
  BY <1>7, <1>8, <1>9, <1>10, <1>11 DEF Structure

\* A piece is received.
LEMMA ReceivesFacts ==
    ASSUME TypeOK, Sizes, Placement, NEW e \in Ends, Receives(e)
    PROVE  /\ registered[e] # {} /\ open[e] /\ state[e] = "READING" /\ ~reset /\ ~received[e]
           /\ e = "server" => executing = {}
           /\ e = "client" => stage = "calling"
           /\ wire[Other(e)] # <<>> /\ Rest(e) = Tail(wire[Other(e)]) /\ Rest(e) \in Seq(Records)
           /\ Len(Rest(e)) <= wireSize
           /\ Cached(e) \in Seq(Pieces) /\ Len(Cached(e)) = Len(cache[e]) + 1
           /\ Len(cache[e]) < Parts /\ Len(Cached(e)) <= Parts
           /\ Cached(e)[1] \in Pieces
           /\ UNCHANGED <<flight, sent, received>>
<1>1. /\ Incoming(e) = wire[Other(e)] /\ wire[Other(e)] \in Seq(Records) /\ Len(wire[Other(e)]) <= wireSize
      /\ wire[Other(e)] # <<>> /\ Head(wire[Other(e)]) \in Pieces
      /\ wireSize \in Nat /\ state[e] = "READING" /\ ~reset /\ ~received[e]
  BY SessionAssumption, EndFacts DEF TypeOK, Sizes, Receives, Incoming
<1>2. /\ registered[e] # {} /\ open[e]
      /\ e = "server" => executing = {}
      /\ e = "client" => stage = "calling"
  BY ReactsFacts DEF Receives
<1>3. /\ Rest(e) = Tail(wire[Other(e)]) /\ Rest(e) \in Seq(Records)
      /\ Len(Rest(e)) <= wireSize
  BY <1>1 DEF Rest
<1>4. cache[e] \in Seq(Pieces) /\ Len(cache[e]) < Parts /\ Parts \in Nat
  BY <1>1, SessionAssumption DEF TypeOK, Sizes, Ends
<1>5. /\ Cached(e) \in Seq(Pieces) /\ Len(Cached(e)) = Len(cache[e]) + 1
      /\ Len(Cached(e)) <= Parts /\ Cached(e)[1] \in Pieces
  BY <1>1, <1>4 DEF Cached
<1> QED
  BY <1>1, <1>2, <1>3, <1>4, <1>5 DEF Receives, tls

\* A piece of a request is taken, and the server goes on with `st' or waits for the pool.
LEMMA ServerReceivesFacts ==
    ASSUME Structure, Receives("server"), UnderWay("server", wire["server"], Rest("server")),
           UNCHANGED <<open, reset>>
    PROVE  /\ wire' \in [Ends -> Seq(Records)] /\ wireSize' = wireSize
           /\ wire'["server"] = wire["server"] /\ wire'["client"] = Rest("server")
           /\ \A x \in Ends : Len(wire'[x]) <= wireSize
           /\ registered["server"] # {} /\ open["server"] /\ state["server"] = "READING"
           /\ executing = {} /\ ~received["server"] /\ ~ServerGone /\ ~ServerGone'
           /\ Cached("server") \in Seq(Pieces) /\ Len(Cached("server")) = Len(cache["server"]) + 1
           /\ Len(Cached("server")) <= Parts /\ Cached("server")[1] \in Pieces
           /\ UNCHANGED <<flight, sent, received, open, reset>>
<1>1. TypeOK /\ Sizes /\ Placement
  BY DEF Structure
<1>2. /\ registered["server"] # {} /\ open["server"] /\ state["server"] = "READING" /\ ~reset
      /\ ~received["server"] /\ executing = {}
      /\ Rest("server") \in Seq(Records) /\ Len(Rest("server")) <= wireSize
      /\ Cached("server") \in Seq(Pieces) /\ Len(Cached("server")) = Len(cache["server"]) + 1
      /\ Len(Cached("server")) <= Parts /\ Cached("server")[1] \in Pieces
      /\ UNCHANGED <<flight, sent, received>>
  BY <1>1, ReceivesFacts, EndFacts
<1>3. wire["server"] \in Seq(Records) /\ Len(wire["server"]) <= wireSize
  BY <1>1, EndFacts DEF TypeOK, Sizes
<1>4. /\ wire' \in [Ends -> Seq(Records)] /\ wireSize' = wireSize
      /\ wire'["server"] = wire["server"] /\ wire'["client"] = Rest("server")
  BY <1>2, <1>3, UnderWayFacts, EndFacts
<1>5. \A x \in Ends : Len(wire'[x]) <= wireSize
  BY <1>2, <1>3, <1>4 DEF Ends
<1>6. ~ServerGone /\ ~ServerGone'
  BY <1>2 DEF ServerGone
<1> QED
  BY <1>2, <1>4, <1>5, <1>6

\* recv_succeed(): a request goes on (https_server.cc:75-87).
LEMMA ReadRequestPartKeepsStructure == ASSUME Structure, ReadRequestPart PROVE Structure'
<1>1. TypeOK /\ Sizes /\ Placement /\ Directions /\ Closing
  BY DEF Structure
<1>2. /\ wire' \in [Ends -> Seq(Records)] /\ wireSize' = wireSize
      /\ wire'["server"] = wire["server"] /\ wire'["client"] = Rest("server")
      /\ \A x \in Ends : Len(wire'[x]) <= wireSize
      /\ registered["server"] # {} /\ open["server"] /\ state["server"] = "READING"
      /\ executing = {} /\ ~received["server"] /\ ~ServerGone /\ ~ServerGone'
      /\ Cached("server") \in Seq(Pieces) /\ Len(Cached("server")) = Len(cache["server"]) + 1
      /\ Len(Cached("server")) <= Parts /\ Cached("server")[1] \in Pieces
      /\ UNCHANGED <<flight, sent, received, open, reset>>
  BY ServerReceivesFacts DEF ReadRequestPart
<1>3. /\ state' \in [Ends -> States] /\ state'["server"] = "READING"
      /\ registered' \in [Ends -> SUBSET {"INPUT", "OUTPUT"}] /\ registered'["server"] = {"INPUT"}
      /\ \A x \in Ends \ {"server"} : state'[x] = state[x] /\ registered'[x] = registered[x]
  BY <1>1, RegFacts, EndFacts DEF ReadRequestPart, RegRecv, States
<1>4. /\ cache' \in [Ends -> Seq(Pieces)] /\ cache'["server"] = Cached("server")
      /\ cache'["client"] = cache["client"] /\ \A x \in Ends : Len(cache'[x]) <= Parts
  <2>1. /\ cache' \in [Ends -> Seq(Pieces)] /\ cache'["server"] = Cached("server")
        /\ cache'["client"] = cache["client"]
    BY <1>1, <1>2, EndFacts DEF ReadRequestPart, Keeps, TypeOK
  <2> QED
    BY <1>1, <1>2, <2>1 DEF TypeOK, Ends
<1>6. /\ UNCHANGED <<toWrite, unfinished, executing, keepAlive, refused, disturbed,
                     keep, timed, stage, call, result, established, failed>>
      /\ Len(Cached("server")) < Parts
  <2>1. Len(Cached("server")) # Parts /\ Parts \in Nat
    BY SessionAssumption DEF ReadRequestPart, Complete
  <2> QED
    BY <1>2, <2>1 DEF ReadRequestPart, server, client
<1>7. TypeOK'
  BY <1>1, <1>2, <1>3, <1>4, <1>6 DEF TypeOK
<1>8. Sizes'
  <2>1. ASSUME NEW x \in Ends
        PROVE  /\ Len(wire'[x]) <= wireSize' /\ Len(toWrite'[x]) <= Parts
               /\ unfinished'[x] # "none" => toWrite'[x] # <<>>
               /\ Handshaking(x)' => flight'[x] < Flights
    BY <1>1, <1>2, <1>3, <1>6 DEF Sizes, Handshaking, Ends
  <2>2. /\ Len(cache'["client"]) < Parts
        /\ keepAlive' \/ Handshaking("server")' \/ state'["server"] = "READING" =>
              Len(cache'["server"]) < Parts
    BY <1>1, <1>2, <1>3, <1>4, <1>6, SessionAssumption DEF Sizes, Handshaking
  <2> QED
    BY <2>1, <2>2 DEF Sizes
<1>9. Placement'
  BY <1>1, <1>2, <1>3, <1>6 DEF Placement, ServerHasOnePlace, Ends
<1>10. Directions'
  BY <1>1, <1>2, <1>3, <1>6 DEF Directions, Handshaking, Ends
<1>11. Closing'
  BY <1>1, <1>2, <1>3, <1>6 DEF Closing, Ends
<1> QED
  BY <1>7, <1>8, <1>9, <1>10, <1>11 DEF Structure

\* recv_succeed(): a request is refused, and an error put to be written
\* (https_server.cc:91-96).
LEMMA RefuseRequestKeepsStructure == ASSUME Structure, RefuseRequest PROVE Structure'
<1>1. TypeOK /\ Sizes /\ Placement /\ Directions /\ Closing
  BY DEF Structure
<1>2. /\ wire' \in [Ends -> Seq(Records)] /\ wireSize' = wireSize
      /\ wire'["server"] = wire["server"] /\ wire'["client"] = Rest("server")
      /\ \A x \in Ends : Len(wire'[x]) <= wireSize
      /\ registered["server"] # {} /\ open["server"] /\ state["server"] = "READING"
      /\ executing = {} /\ ~received["server"] /\ ~ServerGone /\ ~ServerGone'
      /\ Cached("server") \in Seq(Pieces) /\ Len(Cached("server")) = Len(cache["server"]) + 1
      /\ Len(Cached("server")) <= Parts /\ Cached("server")[1] \in Pieces
      /\ UNCHANGED <<flight, sent, received, open, reset>>
  BY ServerReceivesFacts DEF RefuseRequest
<1>3. /\ state' \in [Ends -> States] /\ state'["server"] = "WRITING"
      /\ registered' \in [Ends -> SUBSET {"INPUT", "OUTPUT"}] /\ registered'["server"] = {"OUTPUT"}
      /\ \A x \in Ends \ {"server"} : state'[x] = state[x] /\ registered'[x] = registered[x]
  BY <1>1, RegFacts, EndFacts DEF RefuseRequest, RegSend, States
<1>4. /\ cache' \in [Ends -> Seq(Pieces)] /\ cache'["server"] = Cached("server")
      /\ cache'["client"] = cache["client"] /\ \A x \in Ends : Len(cache'[x]) <= Parts
  <2>1. /\ cache' \in [Ends -> Seq(Pieces)] /\ cache'["server"] = Cached("server")
        /\ cache'["client"] = cache["client"]
    BY <1>1, <1>2, EndFacts DEF RefuseRequest, Keeps, TypeOK
  <2> QED
    BY <1>1, <1>2, <2>1 DEF TypeOK, Ends
<1>5. /\ toWrite' \in [Ends -> Seq(Pieces)] /\ Len(toWrite'["server"]) <= Parts
      /\ unfinished' \in [Ends -> {"none", "same", "moved"}]
      /\ toWrite'["server"] # <<>>
      /\ \A x \in Ends \ {"server"} : toWrite'[x] = toWrite[x] /\ unfinished'[x] = unfinished[x]
  <2>1. PICK k \in 0..MaxCalls : Prepare("server", Message(k))
    BY <1>2, RecordFacts DEF RefuseRequest, RegSend
  <2> QED
    BY <1>1, <2>1, PrepareFacts, EndFacts
<1>6. /\ UNCHANGED <<executing, keep, timed, stage, call, result, established, failed>>
      /\ keepAlive' = FALSE /\ refused' = TRUE /\ disturbed' \in BOOLEAN
  BY <1>1 DEF RefuseRequest, client, TypeOK
<1>7. TypeOK'
  BY <1>1, <1>2, <1>3, <1>4, <1>5, <1>6 DEF TypeOK
<1>8. Sizes'
  <2>1. ASSUME NEW x \in Ends
        PROVE  /\ Len(wire'[x]) <= wireSize' /\ Len(toWrite'[x]) <= Parts
               /\ unfinished'[x] # "none" => toWrite'[x] # <<>>
               /\ Handshaking(x)' => flight'[x] < Flights
    BY <1>1, <1>2, <1>3, <1>5, <1>6 DEF Sizes, Handshaking, Ends
  <2>2. /\ Len(cache'["client"]) < Parts
        /\ keepAlive' \/ Handshaking("server")' \/ state'["server"] = "READING" =>
              Len(cache'["server"]) < Parts
    BY <1>1, <1>2, <1>3, <1>4, <1>6, SessionAssumption DEF Sizes, Handshaking
  <2> QED
    BY <2>1, <2>2 DEF Sizes
<1>9. Placement'
  BY <1>1, <1>2, <1>3, <1>6 DEF Placement, ServerHasOnePlace, Ends
<1>10. Directions'
  BY <1>1, <1>2, <1>3, <1>6 DEF Directions, Handshaking, Ends
<1>11. Closing'
  BY <1>1, <1>2, <1>3, <1>6 DEF Closing, Ends
<1> QED
  BY <1>7, <1>8, <1>9, <1>10, <1>11 DEF Structure

\* What is asked for is a call.
LEMMA AsksFacts ==
    ASSUME NEW s \in Seq(Pieces), s # <<>>
    PROVE  Asks(s) \in 0..MaxCalls
<1>1. s[1] \in Pieces /\ MaxCalls \in Nat
  BY SessionAssumption
<1> QED
  BY <1>1, RecordFacts DEF Asks

\* recv_succeed(): the pool has a request, and its connection is the pool's alone
\* (https_server.cc:89, server.cc:172-208).
LEMMA ExecuteRequestKeepsStructure == ASSUME Structure, ExecuteRequest PROVE Structure'
<1>1. TypeOK /\ Sizes /\ Placement /\ Directions /\ Closing
  BY DEF Structure
<1>2. /\ wire' \in [Ends -> Seq(Records)] /\ wireSize' = wireSize
      /\ wire'["server"] = wire["server"] /\ wire'["client"] = Rest("server")
      /\ \A x \in Ends : Len(wire'[x]) <= wireSize
      /\ registered["server"] # {} /\ open["server"] /\ state["server"] = "READING"
      /\ executing = {} /\ ~received["server"] /\ ~ServerGone /\ ~ServerGone'
      /\ Cached("server") \in Seq(Pieces) /\ Len(Cached("server")) = Len(cache["server"]) + 1
      /\ Len(Cached("server")) <= Parts /\ Cached("server")[1] \in Pieces
      /\ UNCHANGED <<flight, sent, received, open, reset>>
  BY ServerReceivesFacts DEF ExecuteRequest, ReadRequest
<1>3. /\ state' \in [Ends -> States] /\ state'["server"] = "EMPTY"
      /\ registered' \in [Ends -> SUBSET {"INPUT", "OUTPUT"}] /\ registered'["server"] = {}
      /\ \A x \in Ends \ {"server"} : state'[x] = state[x] /\ registered'[x] = registered[x]
  BY <1>1, RegNothingFacts, EndFacts DEF ExecuteRequest, States
<1>4. /\ cache' \in [Ends -> Seq(Pieces)] /\ cache'["server"] = <<>>
      /\ cache'["client"] = cache["client"] /\ \A x \in Ends : Len(cache'[x]) <= Parts
  <2>1. <<>> \in Seq(Pieces) /\ Len(<<>>) <= Parts
    BY SessionAssumption
  <2>2. /\ cache' \in [Ends -> Seq(Pieces)] /\ cache'["server"] = <<>>
        /\ cache'["client"] = cache["client"]
    BY <1>1, <2>1, EndFacts DEF ExecuteRequest, ReadRequest, Keeps, TypeOK
  <2> QED
    BY <1>1, <2>1, <2>2 DEF TypeOK, Ends
<1>6. /\ UNCHANGED <<toWrite, unfinished, refused, disturbed,
                     keep, timed, stage, call, result, established, failed>>
      /\ keepAlive' = keep /\ executing' = {Asks(Cached("server"))}
      /\ Asks(Cached("server")) \in 0..MaxCalls
  <2>1. Cached("server") # <<>>
    BY <1>1, <1>2, EndFacts DEF TypeOK
  <2> QED
    BY <1>2, <2>1, AsksFacts DEF ExecuteRequest, ReadRequest, client
<1>7. TypeOK'
  BY <1>1, <1>2, <1>3, <1>4, <1>6 DEF TypeOK
<1>8. Sizes'
  <2>1. ASSUME NEW x \in Ends
        PROVE  /\ Len(wire'[x]) <= wireSize' /\ Len(toWrite'[x]) <= Parts
               /\ unfinished'[x] # "none" => toWrite'[x] # <<>>
               /\ Handshaking(x)' => flight'[x] < Flights
    BY <1>1, <1>2, <1>3, <1>6 DEF Sizes, Handshaking, Ends
  <2>2. /\ Len(cache'["client"]) < Parts
        /\ keepAlive' \/ Handshaking("server")' \/ state'["server"] = "READING" =>
              Len(cache'["server"]) < Parts
    BY <1>1, <1>2, <1>3, <1>4, <1>6, SessionAssumption DEF Sizes, Handshaking
  <2> QED
    BY <2>1, <2>2 DEF Sizes
<1>9. Placement'
  BY <1>1, <1>2, <1>3, <1>6 DEF Placement, ServerHasOnePlace, Ends
<1>10. Directions'
  BY <1>1, <1>2, <1>3, <1>6 DEF Directions, Handshaking, Ends
<1>11. Closing'
  BY <1>1, <1>2, <1>3, <1>6 DEF Closing, Ends
<1> QED
  BY <1>7, <1>8, <1>9, <1>10, <1>11 DEF Structure

\* recv_succeed(): a request is executed at once.
LEMMA AnswerAtOnceKeepsStructure == ASSUME Structure, AnswerAtOnce PROVE Structure'
<1>1. TypeOK /\ Sizes /\ Placement /\ Directions /\ Closing
  BY DEF Structure
<1>2. /\ wire' \in [Ends -> Seq(Records)] /\ wireSize' = wireSize
      /\ wire'["server"] = wire["server"] /\ wire'["client"] = Rest("server")
      /\ \A x \in Ends : Len(wire'[x]) <= wireSize
      /\ registered["server"] # {} /\ open["server"] /\ state["server"] = "READING"
      /\ executing = {} /\ ~received["server"] /\ ~ServerGone /\ ~ServerGone'
      /\ Cached("server") \in Seq(Pieces) /\ Len(Cached("server")) = Len(cache["server"]) + 1
      /\ Len(Cached("server")) <= Parts /\ Cached("server")[1] \in Pieces
      /\ UNCHANGED <<flight, sent, received, open, reset>>
  BY ServerReceivesFacts DEF AnswerAtOnce, ReadRequest
<1>3. /\ state' \in [Ends -> States] /\ state'["server"] = "WRITING"
      /\ registered' \in [Ends -> SUBSET {"INPUT", "OUTPUT"}] /\ registered'["server"] = {"OUTPUT"}
      /\ \A x \in Ends \ {"server"} : state'[x] = state[x] /\ registered'[x] = registered[x]
  BY <1>1, RegFacts, EndFacts DEF AnswerAtOnce, RegSend, States
<1>4. /\ cache' \in [Ends -> Seq(Pieces)] /\ cache'["server"] = <<>>
      /\ cache'["client"] = cache["client"] /\ \A x \in Ends : Len(cache'[x]) <= Parts
  <2>1. <<>> \in Seq(Pieces) /\ Len(<<>>) <= Parts
    BY SessionAssumption
  <2>2. /\ cache' \in [Ends -> Seq(Pieces)] /\ cache'["server"] = <<>>
        /\ cache'["client"] = cache["client"]
    BY <1>1, <2>1, EndFacts DEF AnswerAtOnce, ReadRequest, Keeps, TypeOK
  <2> QED
    BY <1>1, <2>1, <2>2 DEF TypeOK, Ends
<1>5. /\ toWrite' \in [Ends -> Seq(Pieces)] /\ Len(toWrite'["server"]) <= Parts
      /\ unfinished' \in [Ends -> {"none", "same", "moved"}]
      /\ toWrite'["server"] # <<>>
      /\ \A x \in Ends \ {"server"} : toWrite'[x] = toWrite[x] /\ unfinished'[x] = unfinished[x]
  <2>1. PICK k \in 0..MaxCalls : Prepare("server", Message(k))
    <3>1. Cached("server") # <<>>
      BY <1>1, <1>2, EndFacts DEF TypeOK
    <3> QED
      BY <1>2, <3>1, AsksFacts DEF AnswerAtOnce, RegSend
  <2> QED
    BY <1>1, <2>1, PrepareFacts, EndFacts
<1>6. /\ UNCHANGED <<executing, refused, disturbed,
                     keep, timed, stage, call, result, established, failed>>
      /\ keepAlive' = keep
  BY DEF AnswerAtOnce, ReadRequest, client
<1>7. TypeOK'
  BY <1>1, <1>2, <1>3, <1>4, <1>5, <1>6 DEF TypeOK
<1>8. Sizes'
  <2>1. ASSUME NEW x \in Ends
        PROVE  /\ Len(wire'[x]) <= wireSize' /\ Len(toWrite'[x]) <= Parts
               /\ unfinished'[x] # "none" => toWrite'[x] # <<>>
               /\ Handshaking(x)' => flight'[x] < Flights
    BY <1>1, <1>2, <1>3, <1>5, <1>6 DEF Sizes, Handshaking, Ends
  <2>2. /\ Len(cache'["client"]) < Parts
        /\ keepAlive' \/ Handshaking("server")' \/ state'["server"] = "READING" =>
              Len(cache'["server"]) < Parts
    BY <1>1, <1>2, <1>3, <1>4, <1>6, SessionAssumption DEF Sizes, Handshaking
  <2> QED
    BY <2>1, <2>2 DEF Sizes
<1>9. Placement'
  BY <1>1, <1>2, <1>3, <1>6 DEF Placement, ServerHasOnePlace, Ends
<1>10. Directions'
  BY <1>1, <1>2, <1>3, <1>6 DEF Directions, Handshaking, Ends
<1>11. Closing'
  BY <1>1, <1>2, <1>3, <1>6 DEF Closing, Ends
<1> QED
  BY <1>7, <1>8, <1>9, <1>10, <1>11 DEF Structure

\* do_schedule_response(): a pool thread gives the connection back
\* (https_server.cc:115-118).
LEMMA PoolAnswersKeepsStructure == ASSUME Structure, PoolAnswers PROVE Structure'
<1>1. TypeOK /\ Sizes /\ Placement /\ Directions /\ Closing
  BY DEF Structure
<1>2. PICK k \in executing :
        /\ executing' = {} /\ RegSend("server", Message(k))
        /\ UNCHANGED <<cache, tls, net, client, keepAlive, refused, disturbed>>
  BY DEF PoolAnswers
<1>3. /\ state' \in [Ends -> States] /\ state'["server"] = "WRITING"
      /\ registered' \in [Ends -> SUBSET {"INPUT", "OUTPUT"}] /\ registered'["server"] = {"OUTPUT"}
      /\ \A x \in Ends \ {"server"} : state'[x] = state[x] /\ registered'[x] = registered[x]
  BY <1>1, <1>2, RegFacts, EndFacts DEF RegSend, States
<1>5. /\ toWrite' \in [Ends -> Seq(Pieces)] /\ Len(toWrite'["server"]) <= Parts
      /\ unfinished' \in [Ends -> {"none", "same", "moved"}]
      /\ toWrite'["server"] # <<>>
      /\ \A x \in Ends \ {"server"} : toWrite'[x] = toWrite[x] /\ unfinished'[x] = unfinished[x]
  <2>1. PICK m \in 0..MaxCalls : Prepare("server", Message(m))
    BY <1>1, <1>2 DEF TypeOK, RegSend
  <2> QED
    BY <1>1, <2>1, PrepareFacts, EndFacts
<1>6. /\ UNCHANGED <<cache, flight, sent, received, open, wire, reset, wireSize, keepAlive, refused,
                     disturbed, keep, timed, stage, call, result, established, failed>>
      /\ open["server"] /\ ~received["server"] /\ registered["server"] = {}
  BY <1>1, <1>2 DEF tls, net, client, Placement, ServerHasOnePlace, Closing
<1>7. TypeOK'
  BY <1>1, <1>2, <1>3, <1>5, <1>6 DEF TypeOK
<1>8. Sizes'
  <2>1. ASSUME NEW x \in Ends
        PROVE  /\ Len(wire'[x]) <= wireSize' /\ Len(toWrite'[x]) <= Parts
               /\ unfinished'[x] # "none" => toWrite'[x] # <<>>
               /\ Handshaking(x)' => flight'[x] < Flights
    BY <1>1, <1>2, <1>3, <1>5, <1>6 DEF Sizes, Handshaking, Ends
  <2>2. /\ Len(cache'["client"]) < Parts
        /\ keepAlive' \/ Handshaking("server")' \/ state'["server"] = "READING" =>
              Len(cache'["server"]) < Parts
    BY <1>1, <1>2, <1>3, <1>6, SessionAssumption DEF Sizes, Handshaking
  <2> QED
    BY <2>1, <2>2 DEF Sizes
<1>9. Placement'
  BY <1>1, <1>2, <1>3, <1>6 DEF Placement, ServerHasOnePlace, Ends
<1>10. Directions'
  BY <1>1, <1>2, <1>3, <1>6 DEF Directions, Handshaking, Ends
<1>11. Closing'
  BY <1>1, <1>2, <1>3, <1>6 DEF Closing, ServerGone, Ends
<1> QED
  BY <1>7, <1>8, <1>9, <1>10, <1>11 DEF Structure

\* recv_succeed(): a response goes on (https_client.cc:166-178).
LEMMA ReadResponsePartKeepsStructure == ASSUME Structure, ReadResponsePart PROVE Structure'
<1>1. TypeOK /\ Sizes /\ Placement /\ Directions /\ Closing
  BY DEF Structure
<1>2. /\ registered["client"] # {} /\ open["client"] /\ state["client"] = "READING" /\ ~reset
      /\ ~received["client"] /\ stage = "calling"
      /\ wire["server"] # <<>> /\ Rest("client") = Tail(wire["server"])
      /\ Rest("client") \in Seq(Records) /\ Len(Rest("client")) <= wireSize
      /\ Cached("client") \in Seq(Pieces) /\ Len(Cached("client")) <= Parts
      /\ UNCHANGED <<flight, sent, received>>
  BY <1>1, ReceivesFacts, EndFacts DEF ReadResponsePart
<1>3. /\ wire' \in [Ends -> Seq(Records)] /\ wireSize' = wireSize
      /\ wire'["client"] = wire["client"] /\ wire'["server"] = Rest("client")
      /\ \A x \in Ends : Len(wire'[x]) <= wireSize
  <2>1. wire["client"] \in Seq(Records) /\ Len(wire["client"]) <= wireSize
    BY <1>1, EndFacts DEF TypeOK, Sizes
  <2>2. /\ wire' \in [Ends -> Seq(Records)] /\ wireSize' = wireSize
        /\ wire'["client"] = wire["client"] /\ wire'["server"] = Rest("client")
    BY <1>2, <2>1, UnderWayFacts, EndFacts DEF ReadResponsePart
  <2> QED
    BY <1>2, <2>1, <2>2 DEF Ends
<1>4. /\ state' \in [Ends -> States] /\ state'["client"] = "READING"
      /\ registered' \in [Ends -> SUBSET {"INPUT", "OUTPUT"}] /\ registered'["client"] = {"INPUT"}
      /\ \A x \in Ends \ {"client"} : state'[x] = state[x] /\ registered'[x] = registered[x]
  BY <1>1, RegFacts, EndFacts DEF ReadResponsePart, RegRecv, States
<1>5. /\ cache' \in [Ends -> Seq(Pieces)] /\ Len(cache'["client"]) < Parts
      /\ cache'["server"] = cache["server"] /\ \A x \in Ends : Len(cache'[x]) <= Parts
  <2>1. Len(Cached("client")) # Parts /\ Parts \in Nat
    BY SessionAssumption DEF ReadResponsePart, Complete
  <2>2. /\ cache' \in [Ends -> Seq(Pieces)] /\ cache'["client"] = Cached("client")
        /\ cache'["server"] = cache["server"]
    BY <1>1, <1>2, EndFacts DEF ReadResponsePart, Keeps, TypeOK
  <2> QED
    BY <1>1, <1>2, <2>1, <2>2 DEF TypeOK, Ends
<1>6. UNCHANGED <<toWrite, unfinished, open, reset, executing, keepAlive, refused, disturbed,
                  keep, timed, stage, call, result, established, failed>>
  BY DEF ReadResponsePart, server, client
<1>7. TypeOK'
  BY <1>1, <1>2, <1>3, <1>4, <1>5, <1>6 DEF TypeOK
<1>8. Sizes'
  BY <1>1, <1>2, <1>3, <1>4, <1>5, <1>6 DEF Sizes, Handshaking, Ends
<1>9. Placement'
  BY <1>1, <1>2, <1>4, <1>6 DEF Placement, ServerHasOnePlace, Ends
<1>10. Directions'
  BY <1>1, <1>2, <1>4, <1>6 DEF Directions, Handshaking, Ends
<1>11. Closing'
  <2>1. NotifyLast(wire'["server"]) /\ (open["server"] => NoNotify(wire'["server"]))
    BY <1>1, <1>2, <1>3, ServerRecordTaken
  <2> QED
    BY <1>1, <1>2, <1>4, <1>6, <2>1 DEF Closing, ServerGone, Ends
<1> QED
  BY <1>7, <1>8, <1>9, <1>10, <1>11 DEF Structure

\* A call ends, and leaves the client what it is registered for or nothing.
LEMMA CallEnds ==
    ASSUME Structure, open["client"], stage = "calling",
           NEW outcome, outcome \in [kind : Outcomes, call : 0..MaxCalls],
           NEW in \in {wire["server"], Tail(wire["server"])}, in = wire["server"] \/ wire["server"] # <<>>,
           EndCall(outcome, in),
           state' \in [Ends -> States], state'["server"] = state["server"],
           state'["client"] \in {state["client"], "EMPTY"},
           registered' \in [Ends -> SUBSET {"INPUT", "OUTPUT"}],
           registered'["server"] = registered["server"],
           registered'["client"] \in {{}, registered["client"]},
           ~keep => registered'["client"] = {},
           state'["client"] = "EMPTY" => registered'["client"] = {},
           cache' \in {cache, [cache EXCEPT !["client"] = <<>>]}, disturbed' \in BOOLEAN,
           UNCHANGED <<toWrite, unfinished, tls>>
    PROVE  Structure'
<1>1. TypeOK /\ Sizes /\ Placement /\ Directions /\ Closing
  BY DEF Structure
<1>2. /\ wire["server"] \in Seq(Records) /\ wire["client"] \in Seq(Records)
      /\ Len(wire["server"]) <= wireSize /\ Len(wire["client"]) <= wireSize /\ wireSize \in Nat
  BY <1>1, EndFacts, SessionAssumption DEF TypeOK, Sizes
<1>3. /\ in \in Seq(Records) /\ Len(in) <= wireSize
      /\ NotifyLast(in) /\ (open["server"] => NoNotify(in))
      /\ wire["server"] = <<>> => in = <<>>
  <2>1. CASE in = wire["server"]
    BY <2>1, <1>1, <1>2, ServerRecordTaken
  <2>2. CASE in = Tail(wire["server"]) /\ wire["server"] # <<>>
    BY <2>2, <1>1, <1>2, ServerRecordTaken
  <2> QED
    BY <2>1, <2>2
<1>4. /\ result' = outcome
      /\ failed' \in BOOLEAN
      /\ stage' = IF keep THEN "idle" ELSE "over"
      /\ reset' \in BOOLEAN /\ open' \in [Ends -> BOOLEAN]
      /\ wire' \in [Ends -> Seq(Records)] /\ wireSize' = wireSize
      /\ open'["server"] = open["server"]
      /\ open'["client"] <=> open["client"] /\ keep
      /\ \/ reset' /\ wire'["client"] = <<>> /\ wire'["server"] = <<>> /\ ~keep
         \/ reset' = reset /\ wire'["client"] = wire["client"] /\ wire'["server"] = in
      /\ <<keep, timed, call, established, executing, keepAlive, refused>>'
           = <<keep, timed, call, established, executing, keepAlive, refused>>
  BY <1>1, <1>3, EndCallFacts
<1>5. /\ cache' \in [Ends -> Seq(Pieces)] /\ Len(cache'["client"]) < Parts
      /\ cache'["server"] = cache["server"] /\ \A x \in Ends : Len(cache'[x]) <= Parts
  <2>1. CASE cache' = cache
    BY <1>1, <2>1 DEF TypeOK, Sizes
  <2>2. CASE cache' = [cache EXCEPT !["client"] = <<>>]
    <3>1. <<>> \in Seq(Pieces) /\ Len(<<>>) < Parts /\ Len(<<>>) <= Parts
      BY SessionAssumption
    <3>2. /\ cache' \in [Ends -> Seq(Pieces)] /\ cache'["client"] = <<>>
          /\ cache'["server"] = cache["server"]
      BY <1>1, <2>2, <3>1, EndFacts DEF TypeOK
    <3> QED
      BY <1>1, <3>1, <3>2 DEF TypeOK, Ends
  <2> QED
    BY <2>1, <2>2
<1>6. \A x \in Ends : Len(wire'[x]) <= wireSize
  <2>1. Len(<<>>) <= wireSize
    BY <1>2
  <2> QED
    BY <1>2, <1>3, <1>4, <2>1 DEF Ends
<1>7. NotifyLast(wire'["server"]) /\ (open["server"] => NoNotify(wire'["server"]))
  BY <1>3, <1>4, NotifyFacts
<1>8. UNCHANGED <<toWrite, unfinished, flight, sent, received>>
  BY DEF tls
<1>9. TypeOK'
  BY <1>1, <1>4, <1>5, <1>8 DEF TypeOK
<1>10. Sizes'
  <2>1. ASSUME NEW x \in Ends
        PROVE  /\ Len(wire'[x]) <= wireSize' /\ Len(toWrite'[x]) <= Parts
               /\ unfinished'[x] # "none" => toWrite'[x] # <<>>
               /\ Handshaking(x)' => flight'[x] < Flights
    BY <1>1, <1>4, <1>6, <1>8 DEF Sizes, Handshaking, Ends
  <2>2. /\ Len(cache'["client"]) < Parts
        /\ keepAlive' \/ Handshaking("server")' \/ state'["server"] = "READING" =>
              Len(cache'["server"]) < Parts
    BY <1>1, <1>4, <1>5 DEF Sizes, Handshaking
  <2> QED
    BY <2>1, <2>2 DEF Sizes
<1>11. Placement'
  BY <1>1, <1>4, <1>8 DEF Placement, ServerHasOnePlace, Ends
<1>12. Directions'
  BY <1>1, <1>8 DEF Directions, Handshaking, Ends
<1>13. Closing'
  BY <1>1, <1>3, <1>4, <1>7, <1>8 DEF Closing, ServerGone, Ends
<1> QED
  BY <1>9, <1>10, <1>11, <1>12, <1>13 DEF Structure

\* What comes of a call is one of its outcomes.
LEMMA OutcomeFacts ==
    /\ \A k \in 0..MaxCalls : Answer(k) \in [kind : Outcomes, call : 0..MaxCalls]
    /\ Failure("timeout") \in [kind : Outcomes, call : 0..MaxCalls]
    /\ Failure("error") \in [kind : Outcomes, call : 0..MaxCalls]
    /\ Failure("none") \in [kind : Outcomes, call : 0..MaxCalls]
<1>1. 0 \in 0..MaxCalls
  BY SessionAssumption
<1> QED
  BY <1>1 DEF Answer, Failure, Outcomes

\* recv_succeed(): a response is complete, and the call returns.
LEMMA ReadResponseKeepsStructure == ASSUME Structure, ReadResponse PROVE Structure'
<1>1. TypeOK /\ Sizes /\ Placement
  BY DEF Structure
<1>2. /\ open["client"] /\ stage = "calling" /\ wire["server"] # <<>>
      /\ Rest("client") = Tail(wire["server"]) /\ Cached("client")[1] \in Pieces
      /\ UNCHANGED <<flight, sent, received>>
  BY <1>1, ReceivesFacts, EndFacts DEF ReadResponse
<1>3. /\ state' \in [Ends -> States] /\ state'["client"] = "EMPTY"
      /\ registered' \in [Ends -> SUBSET {"INPUT", "OUTPUT"}] /\ registered'["client"] = {}
      /\ \A x \in Ends \ {"client"} : state'[x] = state[x] /\ registered'[x] = registered[x]
  BY <1>1, RegNothingFacts, EndFacts DEF ReadResponse, States
<1>4. PICK outcome : outcome = Answer(Cached("client")[1].call)
  OBVIOUS
<1>5. /\ outcome \in [kind : Outcomes, call : 0..MaxCalls]
      /\ EndCall(outcome, Tail(wire["server"]))
  BY <1>2, <1>4, RecordFacts, OutcomeFacts DEF ReadResponse
<1>6. /\ cache' = [cache EXCEPT !["client"] = <<>>]
      /\ UNCHANGED <<toWrite, unfinished, disturbed, tls>>
  BY <1>2 DEF ReadResponse, Keeps, tls
<1>7. "server" \in Ends \ {"client"} /\ disturbed' \in BOOLEAN
  BY <1>1, <1>6, EndFacts DEF TypeOK
<1> QED
  BY <1>2, <1>3, <1>5, <1>6, <1>7, CallEnds

\* handle_events() returns false and do_process_session() throws Client_timeout
\* (https_client.cc:142-148).
LEMMA TimesOutKeepsStructure == ASSUME Structure, TimesOut PROVE Structure'
<1>1. TypeOK /\ Placement
  BY DEF Structure
<1>2. /\ open["client"] /\ stage = "calling"
      /\ EndCall(Failure("timeout"), wire["server"])
  BY <1>1, EndFacts DEF TimesOut, Incoming, Placement
<1>3. /\ UNCHANGED <<state, toWrite, unfinished, cache, tls>> /\ disturbed' = TRUE
      /\ registered' \in [Ends -> SUBSET {"INPUT", "OUTPUT"}]
      /\ registered'["server"] = registered["server"]
      /\ registered'["client"] = IF keep THEN registered["client"] ELSE {}
  BY <1>1, EndFacts DEF TimesOut, TypeOK
<1>4. state'["client"] = "EMPTY" => registered'["client"] = {}
  BY <1>3, EndFacts DEF Structure, Directions
<1>5. state' \in [Ends -> States] /\ keep \in BOOLEAN
  BY <1>1, <1>3 DEF TypeOK
<1> QED
  BY <1>2, <1>3, <1>4, <1>5, OutcomeFacts, CallEnds

\* The same, when no handler is registered at all (reactor_impl.h:283-284).
LEMMA NothingRegisteredKeepsStructure == ASSUME Structure, NothingRegistered PROVE Structure'
<1>1. TypeOK /\ Placement
  BY DEF Structure
<1>2. /\ open["client"] /\ stage = "calling" /\ registered["client"] = {}
      /\ EndCall(Failure("timeout"), wire["server"])
  BY <1>1, EndFacts DEF NothingRegistered, Incoming, Placement
<1>3. UNCHANGED <<state, registered, toWrite, unfinished, cache, tls, disturbed>>
  BY DEF NothingRegistered, machine
<1>4. /\ state \in [Ends -> States] /\ registered \in [Ends -> SUBSET {"INPUT", "OUTPUT"}]
      /\ disturbed \in BOOLEAN
  BY <1>1 DEF TypeOK
<1> QED
  BY <1>2, <1>3, <1>4, OutcomeFacts, CallEnds

\* The server's connection is freed.
LEMMA ServerFreed ==
    ASSUME Structure, open["server"], executing = {},
           NEW out \in {wire["server"], Append(wire["server"], CloseNotify)},
           Len(out) <= wireSize, FreeServer(out), flight' = flight,
           sent' \in [Ends -> BOOLEAN], received' \in [Ends -> BOOLEAN],
           sent'["client"] = sent["client"], received'["client"] = received["client"],
           sent'["server"] => received'["server"]
    PROVE  Structure'
<1>1. TypeOK /\ Sizes /\ Placement /\ Directions /\ Closing
  BY DEF Structure
<1>2. wire["server"] \in Seq(Records) /\ Len(wire["client"]) <= wireSize /\ wireSize \in Nat
  BY <1>1, SessionAssumption, EndFacts DEF TypeOK, Sizes
<1>3. out \in Seq(Records) /\ NotifyLast(out)
  <2>1. NoNotify(wire["server"])
    BY <1>1 DEF Closing
  <2>2. Append(wire["server"], CloseNotify) \in Seq(Records)
    BY <1>2, RecordFacts
  <2> QED
    BY <1>2, <2>1, <2>2, NotifyFacts
<1>4. /\ open' \in [Ends -> BOOLEAN] /\ ~open'["server"] /\ open'["client"] = open["client"]
      /\ reset' \in BOOLEAN
      /\ wire' \in [Ends -> Seq(Records)] /\ wireSize' = wireSize
      /\ \/ reset' /\ wire'["client"] = <<>> /\ wire'["server"] = <<>> /\ wire["client"] # <<>>
         \/ reset' = reset /\ wire'["client"] = wire["client"] /\ wire'["server"] = out
      /\ state' \in [Ends -> States] /\ state'["server"] = "EMPTY"
      /\ state'["client"] = state["client"]
      /\ registered' \in [Ends -> SUBSET {"INPUT", "OUTPUT"}] /\ registered'["server"] = {}
      /\ registered'["client"] = registered["client"]
      /\ UNCHANGED <<toWrite, unfinished, cache, client, server, disturbed>>
  BY <1>1, <1>3, FreeServerFacts
<1>5. UNCHANGED <<toWrite, unfinished, cache, keep, timed, stage, call, result, established, failed,
                  executing, keepAlive, refused, disturbed>>
  BY <1>4 DEF client, server
<1>6. \A x \in Ends : Len(wire'[x]) <= wireSize
  <2>1. Len(<<>>) <= wireSize
    BY <1>2
  <2> QED
    BY <1>2, <1>4, <2>1 DEF Ends
<1>7. TypeOK'
  BY <1>1, <1>4, <1>5 DEF TypeOK
<1>8. Sizes'
  <2>1. ASSUME NEW x \in Ends
        PROVE  /\ Len(wire'[x]) <= wireSize' /\ Len(toWrite'[x]) <= Parts
               /\ unfinished'[x] # "none" => toWrite'[x] # <<>>
               /\ Handshaking(x)' => flight'[x] < Flights
    BY <1>1, <1>4, <1>5, <1>6 DEF Sizes, Handshaking, Ends
  <2>2. /\ Len(cache'["client"]) < Parts
        /\ keepAlive' \/ Handshaking("server")' \/ state'["server"] = "READING" =>
              Len(cache'["server"]) < Parts
    BY <1>1, <1>4, <1>5 DEF Sizes, Handshaking
  <2> QED
    BY <2>1, <2>2 DEF Sizes
<1>9. Placement'
  BY <1>1, <1>4, <1>5 DEF Placement, ServerHasOnePlace, Ends
<1>10. Directions'
  BY <1>1, <1>4, <1>5 DEF Directions, Handshaking, Ends
<1>11. Closing'
  <2>1. NotifyLast(wire'["server"])
    BY <1>3, <1>4, NotifyFacts
  <2>2. ServerGone => reset
    BY DEF ServerGone
  <2> QED
    BY <1>1, <1>4, <1>5, <2>1, <2>2 DEF Closing, ServerGone, Ends
<1> QED
  BY <1>7, <1>8, <1>9, <1>10, <1>11 DEF Structure

\* An operation of OpenSSL's fails: the server frees its connection, the client's caller
\* gets the exception.
LEMMA FailsKeepsStructure == ASSUME Structure, NEW e \in Ends, Fails(e) PROVE Structure'
<1>1. TypeOK /\ Sizes /\ Placement /\ Closing
  BY DEF Structure
<1>2. /\ open[e] /\ (e = "server" => executing = {}) /\ (e = "client" => stage = "calling")
      /\ Throws(e)
  BY <1>1, ReactsFacts DEF Fails
<1>3. UNCHANGED <<flight, sent, received>>
  BY <1>2 DEF Throws, tls
<1>4. CASE e = "server"
  <2>1. FreeServer(wire["server"])
    BY <1>2, <1>4 DEF Throws
  <2>2. /\ Len(wire["server"]) <= wireSize
        /\ sent \in [Ends -> BOOLEAN] /\ received \in [Ends -> BOOLEAN]
        /\ sent["server"] => received["server"]
    BY <1>1, EndFacts DEF TypeOK, Sizes, Closing
  <2> QED
    BY <1>2, <1>3, <1>4, <2>1, <2>2, ServerFreed
<1>5. CASE e = "client"
  <2>1. /\ EndCall(Failure("error"), wire["server"])
        /\ RegNothing("client", state["client"])
        /\ UNCHANGED <<toWrite, unfinished, cache, disturbed>>
    BY <1>2, <1>5, EndFacts DEF Throws, Incoming
  <2>2. state["client"] \in States /\ disturbed \in BOOLEAN
    BY <1>1, EndFacts DEF TypeOK
  <2>3. /\ state' \in [Ends -> States] /\ state'["client"] = state["client"]
        /\ registered' \in [Ends -> SUBSET {"INPUT", "OUTPUT"}] /\ registered'["client"] = {}
        /\ \A x \in Ends \ {"client"} : state'[x] = state[x] /\ registered'[x] = registered[x]
    BY <1>1, <2>1, <2>2, RegNothingFacts, EndFacts
  <2>4. "server" \in Ends \ {"client"} /\ UNCHANGED tls
    BY <1>3, EndFacts DEF tls
  <2> QED
    BY <1>2, <1>5, <2>1, <2>2, <2>3, <2>4, OutcomeFacts, CallEnds
<1> QED
  BY <1>4, <1>5 DEF Ends

\* What a step leaves under way from e when it puts a record there.
LEMMA ClosingRecordFacts ==
    ASSUME TypeOK, Sizes, NEW e \in Ends, Room(e)
    PROVE  /\ Append(wire[e], CloseNotify) \in Seq(Records)
           /\ Len(Append(wire[e], CloseNotify)) <= wireSize
<1>1. wire[e] \in Seq(Records) /\ wireSize \in Nat /\ Len(wire[e]) < wireSize /\ CloseNotify \in Records
  BY SessionAssumption, RecordFacts DEF TypeOK, Room
<1> QED
  BY <1>1

\* SSL_shutdown() sends a close_notify and the connection terminates
\* (ssl_connection.cc:180-183).
LEMMA ShutdownKeepsStructure == ASSUME Structure, NEW e \in Ends, Shutdown(e) PROVE Structure'
<1>1. TypeOK /\ Sizes /\ Placement /\ Directions /\ Closing
  BY DEF Structure
<1>2. /\ open[e] /\ (e = "server" => executing = {}) /\ (e = "client" => stage = "calling")
      /\ state[e] = "SHUTDOWN" /\ ~reset /\ Room(e) /\ registered[e] # {}
      /\ sent' = [sent EXCEPT ![e] = received[e]] /\ received' = [received EXCEPT ![e] = TRUE]
      /\ flight' = flight /\ Terminates(e, Append(wire[e], CloseNotify))
  BY <1>1, ReactsFacts DEF Shutdown
<1>3. /\ sent' \in [Ends -> BOOLEAN] /\ received' \in [Ends -> BOOLEAN]
      /\ sent'[Other(e)] = sent[Other(e)] /\ received'[Other(e)] = received[Other(e)]
      /\ received'[e]
  BY <1>1, <1>2, EndFacts DEF TypeOK
<1>4. /\ Append(wire[e], CloseNotify) \in Seq(Records)
      /\ Len(Append(wire[e], CloseNotify)) <= wireSize
  BY <1>1, <1>2, ClosingRecordFacts
<1>5. CASE e = "server"
  <2>1. FreeServer(Append(wire["server"], CloseNotify))
    BY <1>2, <1>5 DEF Terminates
  <2>2. Append(wire["server"], CloseNotify) \in {wire["server"], Append(wire["server"], CloseNotify)}
    OBVIOUS
  <2> QED
    BY <1>2, <1>3, <1>4, <1>5, <2>1, <2>2, ServerFreed, EndFacts
<1>6. CASE e = "client"
  <2>1. /\ RegNothing("client", state["client"])
        /\ UnderWay("client", Append(wire["client"], CloseNotify), wire["server"])
        /\ UNCHANGED <<open, reset, toWrite, unfinished, cache, client, server, disturbed>>
    BY <1>2, <1>6, EndFacts DEF Terminates, Incoming
  <2>2. /\ state' \in [Ends -> States] /\ state'["client"] = state["client"]
        /\ registered' \in [Ends -> SUBSET {"INPUT", "OUTPUT"}] /\ registered'["client"] = {}
        /\ \A x \in Ends \ {"client"} : state'[x] = state[x] /\ registered'[x] = registered[x]
    <3>1. state["client"] \in States
      BY <1>1, EndFacts DEF TypeOK
    <3> QED
      BY <1>1, <2>1, <3>1, RegNothingFacts, EndFacts
  <2>3. /\ wire' \in [Ends -> Seq(Records)] /\ wireSize' = wireSize
        /\ wire'["server"] = wire["server"] /\ \A x \in Ends : Len(wire'[x]) <= wireSize
    <3>1. wire["server"] \in Seq(Records) /\ Len(wire["server"]) <= wireSize
      BY <1>1, EndFacts DEF TypeOK, Sizes
    <3>2. /\ wire' \in [Ends -> Seq(Records)] /\ wireSize' = wireSize
          /\ wire'["client"] = Append(wire["client"], CloseNotify) /\ wire'["server"] = wire["server"]
      BY <1>4, <1>6, <2>1, <3>1, UnderWayFacts, EndFacts
    <3> QED
      BY <1>4, <1>6, <3>1, <3>2 DEF Ends
  <2>4. UNCHANGED <<open, reset, toWrite, unfinished, cache, flight, keep, timed, stage, call, result,
                    established, failed, executing, keepAlive, refused, disturbed>>
    BY <1>2, <2>1 DEF client, server
  <2>5. TypeOK'
    <3>1. /\ toWrite' \in [Ends -> Seq(Pieces)]
          /\ cache' \in [Ends -> Seq(Pieces)] /\ \A x \in Ends : Len(cache'[x]) <= Parts
          /\ open' \in [Ends -> BOOLEAN] /\ unfinished' \in [Ends -> {"none", "same", "moved"}]
          /\ flight' \in [Ends -> 0..Flights] /\ wireSize' \in WireSizes
          /\ result' \in [kind : Outcomes, call : 0..MaxCalls]
      BY <1>1, <2>3, <2>4 DEF TypeOK
    <3>2. /\ reset' \in BOOLEAN /\ keep' \in BOOLEAN /\ timed' \in BOOLEAN
          /\ stage' \in {"calling", "idle", "over"} /\ call' \in 1..MaxCalls
          /\ established' \in BOOLEAN /\ keepAlive' \in BOOLEAN
          /\ executing' \subseteq 0..MaxCalls
          /\ failed' \in BOOLEAN /\ disturbed' \in BOOLEAN /\ refused' \in BOOLEAN
      BY <1>1, <2>4 DEF TypeOK
    <3> QED
      BY <1>3, <2>2, <2>3, <3>1, <3>2 DEF TypeOK
  <2>6. Sizes'
    BY <1>1, <1>2, <1>6, <2>2, <2>3, <2>4 DEF Sizes, Handshaking, Ends
  <2>7. Placement'
    BY <1>1, <1>3, <1>6, <2>2, <2>4, EndFacts DEF Placement, ServerHasOnePlace, Ends
  <2>8. Directions'
    BY <1>1, <2>2, <2>4 DEF Directions, Handshaking, Ends
  <2>9. Closing'
    BY <1>1, <1>2, <1>3, <1>6, <2>2, <2>3, <2>4, EndFacts DEF Closing, ServerGone, Ends
  <2> QED
    BY <2>5, <2>6, <2>7, <2>8, <2>9 DEF Structure
<1> QED
  BY <1>5, <1>6 DEF Ends

\* SSL_shutdown() fails, both flags are set, and nothing is registered.
LEMMA ShutdownForgottenKeepsStructure ==
    ASSUME Structure, NEW e \in Ends, ShutdownForgotten(e) PROVE Structure'
<1>1. TypeOK /\ Sizes /\ Placement /\ Directions /\ Closing
  BY DEF Structure
<1>2. /\ open[e] /\ (e = "server" => executing = {}) /\ (e = "client" => stage = "calling")
      /\ state[e] = "SHUTDOWN" /\ reset /\ received[e]
      /\ sent' = [sent EXCEPT ![e] = TRUE]
      /\ UNCHANGED <<toWrite, unfinished, cache, flight, received, net, client, server, disturbed>>
  BY <1>1, ReactsFacts DEF ShutdownForgotten
<1>3. /\ sent' \in [Ends -> BOOLEAN] /\ sent'[Other(e)] = sent[Other(e)] /\ sent'[e]
  BY <1>1, <1>2, EndFacts DEF TypeOK
<1>4. /\ state' \in [Ends -> States] /\ state'[e] = "EMPTY"
      /\ registered' \in [Ends -> SUBSET {"INPUT", "OUTPUT"}] /\ registered'[e] = {}
      /\ \A x \in Ends \ {e} : state'[x] = state[x] /\ registered'[x] = registered[x]
  BY <1>1, RegShutdownFacts DEF ShutdownForgotten
<1>5. UNCHANGED <<toWrite, unfinished, cache, flight, received, open, wire, reset, wireSize, keep, timed,
                  stage, call, result, established, failed, executing, keepAlive, refused, disturbed>>
  BY <1>2 DEF net, client, server
<1>6. TypeOK'
  BY <1>1, <1>3, <1>4, <1>5 DEF TypeOK
<1>7. Sizes'
  BY <1>1, <1>4, <1>5 DEF Sizes, Handshaking, Ends
<1>8. Placement'
  BY <1>1, <1>2, <1>3, <1>4, <1>5, EndFacts DEF Placement, ServerHasOnePlace, Ends
<1>9. Directions'
  BY <1>1, <1>4, <1>5 DEF Directions, Handshaking, Ends
<1>10. Closing'
  BY <1>1, <1>2, <1>3, <1>4, <1>5, EndFacts DEF Closing, ServerGone, Ends, Other
<1> QED
  BY <1>6, <1>7, <1>8, <1>9, <1>10 DEF Structure

\* connection_close is caught: a close_notify or the end of the stream has been found
\* (ssl_connection.cc:200-204).
LEMMA ConnectionClosesKeepsStructure ==
    ASSUME Structure, NEW e \in Ends, ConnectionCloses(e) PROVE Structure'
<1>1. TypeOK /\ Sizes /\ Placement /\ Directions /\ Closing
  BY DEF Structure
<1>2. PICK notified \in BOOLEAN :
        /\ notified = (~reset /\ Incoming(e) # <<>> /\ Head(Incoming(e)) = CloseNotify)
        /\ notified \/ received[e] \/ (~reset /\ EndOfStream(e))
        /\ received' = [received EXCEPT ![e] = @ \/ notified]
        /\ UnderWay(e, wire[e], IF notified THEN Rest(e) ELSE Incoming(e))
  BY DEF ConnectionCloses
<1>3. /\ open[e] /\ (e = "server" => executing = {}) /\ (e = "client" => stage = "calling")
      /\ registered[e] # {}
      /\ state[e] = "READING" \/ (Handshaking(e) /\ Turn(flight[e]) # e)
      /\ RegShutdown(e, sent[e], received'[e])
  BY <1>1, ReactsFacts DEF ConnectionCloses
<1>4. /\ received' \in [Ends -> BOOLEAN] /\ received'[Other(e)] = received[Other(e)]
      /\ received'[e] \in BOOLEAN /\ (received'[e] <=> received[e] \/ notified)
      /\ sent[e] \in BOOLEAN
  BY <1>1, <1>2, EndFacts DEF TypeOK
<1>5. /\ state' \in [Ends -> States] /\ state'[e] \in {"SHUTDOWN", "EMPTY"}
      /\ registered' \in [Ends -> SUBSET {"INPUT", "OUTPUT"}]
      /\ IF sent[e] /\ received'[e] THEN state'[e] = "EMPTY" /\ registered'[e] = {}
         ELSE /\ state'[e] = "SHUTDOWN"
              /\ registered'[e] = IF sent[e] THEN {"INPUT"} ELSE {"OUTPUT"}
      /\ \A x \in Ends \ {e} : state'[x] = state[x] /\ registered'[x] = registered[x]
  BY <1>1, <1>3, <1>4, RegShutdownFacts
<1>6. PICK in \in {wire[Other(e)], Tail(wire[Other(e)])} :
        /\ in = IF notified THEN Tail(wire[Other(e)]) ELSE wire[Other(e)]
        /\ UnderWay(e, wire[e], in)
  BY <1>2 DEF Incoming, Rest
<1>7. /\ wire[e] \in Seq(Records) /\ Len(wire[e]) <= wireSize
      /\ in \in Seq(Records) /\ Len(in) <= wireSize
      /\ notified => wire[Other(e)] # <<>> /\ Head(wire[Other(e)]) = CloseNotify
  <2>1. /\ wire[e] \in Seq(Records) /\ Len(wire[e]) <= wireSize
        /\ wire[Other(e)] \in Seq(Records) /\ Len(wire[Other(e)]) <= wireSize
        /\ wireSize \in Nat
    BY <1>1, SessionAssumption, EndFacts DEF TypeOK, Sizes
  <2>2. notified => wire[Other(e)] # <<>> /\ Head(wire[Other(e)]) = CloseNotify
    BY <1>2 DEF Incoming
  <2> QED
    BY <1>6, <2>1, <2>2
<1>8. /\ wire' \in [Ends -> Seq(Records)] /\ wireSize' = wireSize
      /\ wire'[e] = wire[e] /\ wire'[Other(e)] = in /\ \A x \in Ends : Len(wire'[x]) <= wireSize
  <2>1. /\ wire' \in [Ends -> Seq(Records)] /\ wireSize' = wireSize
        /\ wire'[e] = wire[e] /\ wire'[Other(e)] = in
    BY <1>6, <1>7, UnderWayFacts
  <2> QED
    BY <1>7, <2>1 DEF Ends, Other
<1>9. UNCHANGED <<toWrite, unfinished, cache, flight, sent, open, reset, keep, timed, stage, call, result,
                  established, failed, executing, keepAlive, refused, disturbed>>
  BY DEF ConnectionCloses, client, server
<1>10. TypeOK'
  BY SMTT(30), <1>1, <1>4, <1>5, <1>8, <1>9 DEF TypeOK
<1>11. Sizes'
  BY <1>1, <1>5, <1>8, <1>9 DEF Sizes, Handshaking, Ends
<1>12. Placement'
  BY <1>1, <1>3, <1>4, <1>5, <1>9, EndFacts DEF Placement, ServerHasOnePlace, Ends
<1>13. Directions'
  <2>1. sent[e] => received'[e]
    BY <1>1, <1>4 DEF Closing
  <2> QED
    BY <1>1, <1>5, <1>9, <2>1 DEF Directions, Handshaking, Ends
<1>14. Closing'
  <2>1. CASE e = "server"
    BY <1>1, <1>3, <1>4, <1>5, <1>8, <1>9, <2>1, EndFacts, <1>6, <1>7 DEF Closing, ServerGone, Ends
  <2>2. CASE e = "client"
    <3>1. NotifyLast(wire'["server"]) /\ (open["server"] => NoNotify(wire'["server"]))
      BY <1>1, <1>6, <1>7, <1>8, <2>2, ServerRecordTaken, EndFacts
    <3>2. received["client"] => ServerGone'
      <4>1. wire["server"] = <<>> => wire'["server"] = <<>>
        BY <1>6, <1>7, <1>8, <2>2, EndFacts
      <4> QED
        BY <1>1, <1>9, <4>1 DEF Closing, ServerGone
    <3>3. notified => ServerGone'
      <4>1. ASSUME notified PROVE ~open["server"] /\ wire'["server"] = <<>>
        <5>1. wire["server"] \in Seq(Records) /\ wire["server"] # <<>> /\ wire["server"][1] = CloseNotify
          BY <1>1, <1>7, <2>2, <4>1, EndFacts DEF TypeOK
        <5>2. 1 \in DOMAIN wire["server"]
          BY <5>1
        <5>3. ~open["server"] /\ 1 = Len(wire["server"])
          BY <1>1, <5>1, <5>2 DEF Closing, NoNotify, NotifyLast
        <5>4. Tail(wire["server"]) = <<>>
          <6>1. Tail(wire["server"]) \in Seq(Records) /\ Len(Tail(wire["server"])) = 0
            BY <5>1, <5>3
          <6> QED
            BY <6>1, EmptySeq
        <5> QED
          BY <1>6, <1>8, <2>2, <4>1, <5>3, <5>4, EndFacts
      <4> QED
        BY <1>9, <4>1 DEF ServerGone
    <3>4. ~reset /\ EndOfStream("client") => ServerGone
      BY EndFacts DEF EndOfStream, Incoming, ServerGone
    <3>5. ServerGone'
      <4>1. wire["server"] = <<>> => wire'["server"] = <<>>
        BY <1>6, <1>7, <1>8, <2>2, EndFacts
      <4> QED
        BY <1>2, <1>9, <2>2, <3>2, <3>3, <3>4, <4>1 DEF ServerGone
    <3> QED
      BY <1>1, <1>4, <1>5, <1>9, <2>2, <3>1, <3>5, EndFacts DEF Closing, Ends
  <2> QED
    BY <2>1, <2>2 DEF Ends
<1> QED
  BY <1>10, <1>11, <1>12, <1>13, <1>14 DEF Structure

\* Records are written, n of them.
LEMMA WritesFacts ==
    ASSUME Structure, NEW e \in Ends, Writes(e), NEW n \in 0..Len(toWrite[e]), n <= Free(e),
           NEW out, out = wire[e] \o SubSeq(toWrite[e], 1, n), UnderWay(e, out, Incoming(e))
    PROVE  /\ wire' \in [Ends -> Seq(Records)] /\ wireSize' = wireSize
           /\ wire'[e] = out /\ wire'[Other(e)] = wire[Other(e)]
           /\ \A x \in Ends : Len(wire'[x]) <= wireSize
           /\ NotifyLast(wire'["server"]) /\ (open["server"] => NoNotify(wire'["server"]))
           /\ ServerGone => ServerGone'
           /\ registered[e] # {} /\ open[e] /\ state[e] = "WRITING" /\ ~reset /\ ~sent[e]
           /\ e = "server" => executing = {} /\ ~received[e]
           /\ e = "client" => stage = "calling"
           /\ UNCHANGED <<open, reset, cache, flight, sent, received, keep, timed, stage, call, result,
                          established, failed, executing, keepAlive, refused, disturbed>>
<1>1. TypeOK /\ Sizes /\ Placement /\ Directions /\ Closing
  BY DEF Structure
<1>2. /\ registered[e] # {} /\ open[e] /\ state[e] = "WRITING" /\ ~reset /\ ~sent[e]
      /\ e = "server" => executing = {}
      /\ e = "client" => stage = "calling"
  BY <1>1, ReactsFacts DEF Writes
<1>3. e = "server" => ~received[e]
  BY <1>1, <1>2 DEF Closing
<1>4. /\ wire[e] \in Seq(Records) /\ toWrite[e] \in Seq(Pieces)
      /\ wire[Other(e)] \in Seq(Records) /\ Len(wire[Other(e)]) <= wireSize
      /\ Len(wire[e]) <= wireSize /\ wireSize \in Nat
  BY <1>1, SessionAssumption, EndFacts DEF TypeOK, Sizes
<1>5. PICK part : part = SubSeq(toWrite[e], 1, n)
  OBVIOUS
<1>6. part \in Seq(Pieces) /\ Len(part) = n
  BY <1>4, <1>5, FrontFacts
<1>7. /\ out \in Seq(Records) /\ Len(out) = Len(wire[e]) + n
      /\ NoNotify(wire[e]) => NoNotify(out)
  BY <1>4, <1>5, <1>6, JoinFacts
<1>8. Len(out) <= wireSize
  <2>1. n \in Int /\ Len(wire[e]) \in Int /\ n <= wireSize - Len(wire[e])
    BY <1>4 DEF Free
  <2> QED
    BY ONLY <2>1, <1>4, <1>7
<1>9. /\ wire' \in [Ends -> Seq(Records)] /\ wireSize' = wireSize
      /\ wire'[e] = out /\ wire'[Other(e)] = wire[Other(e)]
  BY <1>4, <1>7, UnderWayFacts DEF Incoming
<1>10. \A x \in Ends : Len(wire'[x]) <= wireSize
  BY <1>4, <1>8, <1>9 DEF Ends, Other
<1>11. UNCHANGED <<open, reset, cache, flight, sent, received, keep, timed, stage, call, result,
                   established, failed, executing, keepAlive, refused, disturbed>>
  BY DEF Writes, tls, client, server
<1>12. /\ NotifyLast(wire'["server"]) /\ (open["server"] => NoNotify(wire'["server"]))
       /\ ServerGone => ServerGone'
  <2>1. CASE e = "server"
    <3>1. NoNotify(out)
      BY <1>1, <1>2, <1>7, <2>1 DEF Closing
    <3> QED
      BY <1>2, <1>7, <1>9, <2>1, <3>1, NotifyFacts DEF ServerGone
  <2>2. CASE e = "client"
    BY <1>1, <1>9, <1>11, <2>2, EndFacts DEF Closing, ServerGone
  <2> QED
    BY <2>1, <2>2 DEF Ends
<1> QED
  BY <1>2, <1>3, <1>9, <1>10, <1>11, <1>12

\* SSL_write() has written what there is room for (ssl_connection.cc:175-178, 195-199).
LEMMA WriteWaitsKeepsStructure == ASSUME Structure, NEW e \in Ends, WriteWaits(e) PROVE Structure'
<1>1. TypeOK /\ Sizes /\ Placement /\ Directions /\ Closing
  BY DEF Structure
<1>2. /\ toWrite[e] \in Seq(Pieces) /\ Free(e) \in 0..Len(toWrite[e]) /\ Free(e) < Len(toWrite[e])
      /\ Len(toWrite[e]) <= Parts
  <2>1. toWrite[e] \in Seq(Pieces) /\ Len(wire[e]) \in Nat /\ Len(wire[e]) <= wireSize
        /\ wireSize \in Nat /\ Len(toWrite[e]) <= Parts
    BY <1>1, SessionAssumption DEF TypeOK, Sizes
  <2> QED
    BY <2>1 DEF WriteWaits, Free
<1>3. PICK n \in 0..Len(toWrite[e]) : n = Free(e)
  BY <1>2
<1>4. PICK out : out = wire[e] \o SubSeq(toWrite[e], 1, n)
  OBVIOUS
<1>5. Writes(e) /\ UnderWay(e, out, Incoming(e)) /\ n <= Free(e)
  BY <1>2, <1>3, <1>4 DEF WriteWaits
<1>6. /\ wire' \in [Ends -> Seq(Records)] /\ wireSize' = wireSize
      /\ \A x \in Ends : Len(wire'[x]) <= wireSize
      /\ NotifyLast(wire'["server"]) /\ (open["server"] => NoNotify(wire'["server"]))
      /\ ServerGone => ServerGone'
      /\ registered[e] # {} /\ open[e] /\ state[e] = "WRITING"
      /\ e = "server" => executing = {} /\ ~received[e]
      /\ e = "client" => stage = "calling"
      /\ UNCHANGED <<open, reset, cache, flight, sent, received, keep, timed, stage, call, result,
                     established, failed, executing, keepAlive, refused, disturbed>>
  BY <1>4, <1>5, WritesFacts
<1>7. PICK left : left = SubSeq(toWrite[e], n + 1, Len(toWrite[e]))
  OBVIOUS
<1>8. left \in Seq(Pieces) /\ Len(left) = Len(toWrite[e]) - n /\ left # <<>> /\ Len(left) <= Parts
  <2>1. left \in Seq(Pieces) /\ Len(left) = Len(toWrite[e]) - n
    BY <1>2, <1>7, RestFacts
  <2>2. Len(left) # 0 /\ Len(left) <= Parts
    BY <1>2, <1>3, <2>1, SessionAssumption
  <2> QED
    BY <2>1, <2>2
<1>9. /\ toWrite' \in [Ends -> Seq(Pieces)] /\ toWrite'[e] = left
      /\ unfinished' \in [Ends -> {"none", "same", "moved"}]
      /\ \A x \in Ends \ {e} : toWrite'[x] = toWrite[x] /\ unfinished'[x] = unfinished[x]
  <2>1. toWrite' = [toWrite EXCEPT ![e] = left] /\ unfinished' = [unfinished EXCEPT ![e] = "same"]
    BY <1>3, <1>7 DEF WriteWaits
  <2> QED
    BY <1>1, <1>8, <2>1 DEF TypeOK
<1>10. /\ state' \in [Ends -> States] /\ state'[e] = "WRITING"
       /\ registered' \in [Ends -> SUBSET {"INPUT", "OUTPUT"}] /\ registered'[e] = {"OUTPUT"}
       /\ \A x \in Ends \ {e} : state'[x] = state[x] /\ registered'[x] = registered[x]
  BY <1>1, RegFacts DEF WriteWaits, States
<1>11. TypeOK'
  BY SMTT(30), <1>1, <1>6, <1>9, <1>10 DEF TypeOK
<1>12. Sizes'
  <2>1. ASSUME NEW x \in Ends
        PROVE  /\ Len(toWrite'[x]) <= Parts
               /\ unfinished'[x] # "none" => toWrite'[x] # <<>>
               /\ Handshaking(x)' => flight'[x] < Flights
    <3>1. CASE x = e
      BY <1>8, <1>9, <1>10, <3>1 DEF Handshaking
    <3>2. CASE x # e
      BY <1>1, <1>6, <1>9, <1>10, <3>2 DEF Sizes, Handshaking
    <3> QED
      BY <3>1, <3>2
  <2>2. Len(cache'["client"]) < Parts
    BY <1>1, <1>6 DEF Sizes
  <2>3. keepAlive' \/ Handshaking("server")' \/ state'["server"] = "READING" => Len(cache'["server"]) < Parts
    <3>1. Handshaking("server")' \/ state'["server"] = "READING" => Handshaking("server") \/ state["server"] = "READING"
      BY <1>10 DEF Handshaking, Ends
    <3> QED
      BY <1>1, <1>6, <3>1 DEF Sizes
  <2> QED
    BY <1>6, <2>1, <2>2, <2>3 DEF Sizes
<1>13. Placement'
  BY <1>1, <1>6, <1>10 DEF Placement, ServerHasOnePlace, Ends
<1>14. Directions'
  BY <1>1, <1>6, <1>10 DEF Directions, Handshaking, Ends
<1>15. Closing'
  BY <1>1, <1>6, <1>10 DEF Closing, Ends
<1> QED
  BY <1>11, <1>12, <1>13, <1>14, <1>15 DEF Structure

\* send_succeed(): an end reads next, or shuts down (https_server.cc:100-108,
\* https_client.cc:160-163).
LEMMA WriteSucceedsKeepsStructure == ASSUME Structure, NEW e \in Ends, WriteSucceeds(e) PROVE Structure'
<1>1. TypeOK /\ Sizes /\ Placement /\ Directions /\ Closing
  BY DEF Structure
<1>2. toWrite[e] \in Seq(Pieces) /\ Len(toWrite[e]) \in 0..Len(toWrite[e])
  BY <1>1 DEF TypeOK
<1>3. PICK n \in 0..Len(toWrite[e]) : n = Len(toWrite[e])
  BY <1>2
<1>4. SubSeq(toWrite[e], 1, n) = toWrite[e]
  BY <1>2, <1>3
<1>5. PICK out : out = wire[e] \o SubSeq(toWrite[e], 1, n)
  OBVIOUS
<1>6. Writes(e) /\ UnderWay(e, out, Incoming(e)) /\ n <= Free(e)
  <2>1. Free(e) \in Int
    BY <1>1, SessionAssumption DEF TypeOK, Free
  <2> QED
    BY <2>1, <1>2, <1>3, <1>4, <1>5 DEF WriteSucceeds
<1>7. /\ wire' \in [Ends -> Seq(Records)] /\ wireSize' = wireSize
      /\ \A x \in Ends : Len(wire'[x]) <= wireSize
      /\ NotifyLast(wire'["server"]) /\ (open["server"] => NoNotify(wire'["server"]))
      /\ ServerGone => ServerGone'
      /\ registered[e] # {} /\ open[e] /\ state[e] = "WRITING" /\ ~sent[e]
      /\ e = "server" => executing = {} /\ ~received[e]
      /\ e = "client" => stage = "calling"
      /\ UNCHANGED <<open, reset, cache, flight, sent, received, keep, timed, stage, call, result,
                     established, failed, executing, keepAlive, refused, disturbed>>
  BY <1>5, <1>6, WritesFacts
<1>8. /\ toWrite' \in [Ends -> Seq(Pieces)] /\ toWrite'[e] = <<>>
      /\ unfinished' \in [Ends -> {"none", "same", "moved"}] /\ unfinished'[e] = "none"
      /\ \A x \in Ends \ {e} : toWrite'[x] = toWrite[x] /\ unfinished'[x] = unfinished[x]
  BY <1>1 DEF WriteSucceeds, TypeOK
<1>9. /\ state' \in [Ends -> States]
      /\ registered' \in [Ends -> SUBSET {"INPUT", "OUTPUT"}]
      /\ IF e = "client" \/ keepAlive THEN state'[e] = "READING" /\ registered'[e] = {"INPUT"}
         ELSE state'[e] = "SHUTDOWN" /\ registered'[e] = {"OUTPUT"}
      /\ \A x \in Ends \ {e} : state'[x] = state[x] /\ registered'[x] = registered[x]
  <2>1. CASE e = "client" \/ keepAlive
    BY <1>1, <2>1, RegFacts DEF WriteSucceeds, RegRecv, States
  <2>2. CASE ~(e = "client" \/ keepAlive)
    <3>1. RegShutdown(e, sent[e], received[e]) /\ sent[e] \in BOOLEAN /\ received[e] \in BOOLEAN
      BY <1>1, <2>2 DEF WriteSucceeds, TypeOK
    <3> QED
      BY <1>1, <1>7, <2>2, <3>1, RegShutdownFacts
  <2> QED
    BY <2>1, <2>2
<1>10. TypeOK'
  BY SMTT(30), <1>1, <1>7, <1>8, <1>9 DEF TypeOK
<1>11. Sizes'
  <2>1. Len(<<>>) <= Parts
    BY SessionAssumption
  <2> QED
    BY SMTT(30), <1>1, <1>7, <1>8, <1>9, <2>1 DEF Sizes, Handshaking, Ends
<1>12. Placement'
  BY <1>1, <1>7, <1>9 DEF Placement, ServerHasOnePlace, Ends
<1>13. Directions'
  BY <1>1, <1>7, <1>9 DEF Directions, Handshaking, Ends
<1>14. Closing'
  BY <1>1, <1>7, <1>9 DEF Closing, Ends
<1> QED
  BY <1>10, <1>11, <1>12, <1>13, <1>14 DEF Structure

\* do_process_session() is called on a kept connection (https_client.cc:134-150).
LEMMA BeginCallKeepsStructure == ASSUME Structure, BeginCall PROVE Structure'
<1>1. TypeOK /\ Sizes /\ Placement /\ Directions /\ Closing
  BY DEF Structure
<1>2. /\ stage = "idle" /\ stage' = "calling" /\ call' \in 1..MaxCalls /\ call' \in 0..MaxCalls
      /\ result' \in [kind : Outcomes, call : 0..MaxCalls] /\ disturbed' \in BOOLEAN
      /\ UNCHANGED <<cache, flight, sent, received, open, wire, reset, wireSize,
                     executing, keepAlive, refused, keep, timed, established, failed>>
  BY <1>1, OutcomeFacts, SessionAssumption DEF BeginCall, TypeOK, tls, net, server
<1>3. CASE established
  <2>1. /\ state' = [state EXCEPT !["client"] = "WRITING"]
        /\ registered' = [registered EXCEPT !["client"] = @ \cup {"OUTPUT"}]
        /\ Prepare("client", Message(call'))
    BY <1>3 DEF BeginCall
  <2>2. /\ state' \in [Ends -> States] /\ state'["client"] = "WRITING"
        /\ state'["server"] = state["server"]
        /\ registered' \in [Ends -> SUBSET {"INPUT", "OUTPUT"}]
        /\ "OUTPUT" \in registered'["client"] /\ registered'["server"] = registered["server"]
    BY <1>1, <2>1, EndFacts DEF TypeOK, States
  <2>3. /\ toWrite' \in [Ends -> Seq(Pieces)] /\ Len(toWrite'["client"]) <= Parts
        /\ unfinished' \in [Ends -> {"none", "same", "moved"}]
        /\ toWrite'["client"] # <<>>
        /\ \A x \in Ends \ {"client"} : toWrite'[x] = toWrite[x] /\ unfinished'[x] = unfinished[x]
    <3>1. PICK k \in 0..MaxCalls : k = call'
      BY <1>2
    <3>2. Prepare("client", Message(k))
      BY <2>1, <3>1
    <3> QED
      BY <1>1, <3>2, PrepareFacts, EndFacts
  <2>4. TypeOK'
    BY <1>1, <1>2, <2>2, <2>3 DEF TypeOK
  <2>5. Sizes'
    BY <1>1, <1>2, <2>2, <2>3 DEF Sizes, Handshaking, Ends
  <2>6. Placement'
    BY <1>1, <1>2, <2>2 DEF Placement, ServerHasOnePlace, Ends
  <2>7. Directions'
    BY <1>1, <1>2, <2>2 DEF Directions, Handshaking, Ends
  <2>8. Closing'
    BY <1>1, <1>2, <2>2 DEF Closing, ServerGone, Ends
  <2> QED
    BY <2>4, <2>5, <2>6, <2>7, <2>8 DEF Structure
<1>4. CASE ~established
  <2>1. UNCHANGED <<state, registered, toWrite, unfinished>>
    BY <1>4 DEF BeginCall
  <2>2. TypeOK'
    BY <1>1, <1>2, <2>1 DEF TypeOK
  <2>3. Sizes'
    BY <1>1, <1>2, <2>1 DEF Sizes, Handshaking
  <2>4. Placement' /\ Directions' /\ Closing'
    BY <1>1, <1>2, <2>1 DEF Placement, ServerHasOnePlace, Directions, Handshaking, Closing, ServerGone
  <2> QED
    BY <2>2, <2>3, <2>4 DEF Structure
<1> QED
  BY <1>3, <1>4

\* The client closes its kept connection.
LEMMA GoAwayKeepsStructure ==
    ASSUME Structure, NEW out \in Seq(Records), Len(out) <= wireSize, GoAway(out)
    PROVE  Structure'
<1>1. TypeOK /\ Sizes /\ Placement /\ Directions /\ Closing
  BY DEF Structure
<1>2. /\ stage = "idle" /\ stage' = "over" /\ Close("client", out, wire["server"])
      /\ RegNothing("client", state["client"])
      /\ UNCHANGED <<toWrite, unfinished, cache, flight, sent, received, executing, keepAlive, refused,
                     disturbed, keep, timed, call, result, established, failed>>
  BY EndFacts DEF GoAway, Incoming, tls, server
<1>3. /\ wire["server"] \in Seq(Records) /\ Len(wire["server"]) <= wireSize /\ state["client"] \in States
      /\ wireSize \in Nat
  BY <1>1, EndFacts, SessionAssumption DEF TypeOK, Sizes
<1>4. /\ open' \in [Ends -> BOOLEAN] /\ ~open'["client"] /\ open'["server"] = open["server"]
      /\ reset' \in BOOLEAN
      /\ wire' \in [Ends -> Seq(Records)] /\ wireSize' = wireSize
      /\ IF wire["server"] # <<>> THEN reset' /\ \A x \in Ends : wire'[x] = <<>>
         ELSE reset' = reset /\ wire'["client"] = out /\ wire'["server"] = wire["server"]
  BY <1>1, <1>2, <1>3, CloseFacts, EndFacts
<1>5. /\ state' \in [Ends -> States] /\ state'["client"] = state["client"]
      /\ registered' \in [Ends -> SUBSET {"INPUT", "OUTPUT"}] /\ registered'["client"] = {}
      /\ \A x \in Ends \ {"client"} : state'[x] = state[x] /\ registered'[x] = registered[x]
  BY <1>1, <1>2, <1>3, RegNothingFacts, EndFacts
<1>6. \A x \in Ends : Len(wire'[x]) <= wireSize
  <2>1. Len(<<>>) <= wireSize
    BY <1>3
  <2> QED
    BY <1>3, <1>4, <2>1 DEF Ends
<1>7. NotifyLast(wire'["server"]) /\ (open["server"] => NoNotify(wire'["server"]))
  BY <1>1, <1>4, NotifyFacts, EndFacts DEF Closing
<1>8. TypeOK'
  BY <1>1, <1>2, <1>4, <1>5 DEF TypeOK
<1>9. Sizes'
  BY <1>1, <1>2, <1>5, <1>4, <1>6 DEF Sizes, Handshaking, Ends
<1>10. Placement'
  BY <1>1, <1>2, <1>4, <1>5 DEF Placement, ServerHasOnePlace, Ends
<1>11. Directions'
  BY <1>1, <1>2, <1>5 DEF Directions, Handshaking, Ends
<1>12. Closing'
  BY <1>1, <1>2, <1>4, <1>5, <1>7 DEF Closing, ServerGone, Ends
<1> QED
  BY <1>8, <1>9, <1>10, <1>11, <1>12 DEF Structure

\* TCP gives the connection up.
LEMMA ResetsKeepsStructure ==
    ASSUME Structure, Resets, disturbed' \in BOOLEAN PROVE Structure'
<1>1. TypeOK /\ Sizes /\ Placement /\ Directions /\ Closing
  BY DEF Structure
<1>2. /\ reset' = TRUE /\ wire' \in [Ends -> Seq(Records)] /\ \A x \in Ends : wire'[x] = <<>>
      /\ UNCHANGED <<state, registered, toWrite, unfinished, cache, flight, sent, received, open, wireSize,
                     keep, timed, stage, call, result, established, failed, executing, keepAlive, refused>>
  BY DEF Resets, Both, machine, tls, client, server
<1>3. wireSize \in Nat /\ Len(<<>>) = 0
  BY <1>1, SessionAssumption DEF TypeOK
<1>4. TypeOK'
  BY <1>1, <1>2 DEF TypeOK
<1>5. Sizes'
  BY <1>1, <1>2, <1>3 DEF Sizes, Handshaking
<1>6. Placement' /\ Directions'
  BY <1>1, <1>2 DEF Placement, ServerHasOnePlace, Directions, Handshaking
<1>7. Closing'
  BY <1>1, <1>2, NotifyFacts, EndFacts DEF Closing, ServerGone
<1> QED
  BY <1>4, <1>5, <1>6, <1>7 DEF Structure

-----------------------------------------------------------------------------
(* Structure is an invariant *)

\* Both ends have registered for the handshake, and nothing is under way.
LEMMA InitHasStructure == ASSUME Init PROVE Structure
<1>1. <<>> \in Seq(Pieces) /\ <<>> \in Seq(Records) /\ Len(<<>>) = 0
  BY EmptySeq
<1>2. TypeOK
  <2>1. /\ state \in [Ends -> States] /\ registered \in [Ends -> SUBSET {"INPUT", "OUTPUT"}]
        /\ open \in [Ends -> BOOLEAN] /\ unfinished \in [Ends -> {"none", "same", "moved"}]
        /\ sent \in [Ends -> BOOLEAN] /\ received \in [Ends -> BOOLEAN]
    BY DEF Init, Both, States
  <2>2. /\ toWrite \in [Ends -> Seq(Pieces)] /\ cache \in [Ends -> Seq(Pieces)]
        /\ wire \in [Ends -> Seq(Records)] /\ \A e \in Ends : Len(cache[e]) <= Parts
        /\ flight \in [Ends -> 0..Flights]
    BY <1>1, SessionAssumption DEF Init, Both
  <2>3. /\ reset \in BOOLEAN /\ wireSize \in WireSizes /\ keep \in BOOLEAN /\ timed \in BOOLEAN
        /\ stage \in {"calling", "idle", "over"} /\ call \in 1..MaxCalls
        /\ result \in [kind : Outcomes, call : 0..MaxCalls]
        /\ established \in BOOLEAN /\ keepAlive \in BOOLEAN /\ executing \subseteq 0..MaxCalls
        /\ failed \in BOOLEAN /\ disturbed \in BOOLEAN /\ refused \in BOOLEAN
    <3>1. 1 \in 1..MaxCalls
      BY SessionAssumption
    <3>2. wireSize \in WireSizes /\ keep \in BOOLEAN /\ timed \in BOOLEAN
      BY DEF Init
    <3>3. result \in [kind : Outcomes, call : 0..MaxCalls]
      BY OutcomeFacts DEF Init
    <3> QED
      BY <3>1, <3>2, <3>3 DEF Init
  <2> QED
    BY <2>1, <2>2, <2>3 DEF TypeOK
<1>3. Sizes
  BY <1>1, SessionAssumption DEF Init, Both, Sizes, Handshaking, Ends
<1>4. Placement /\ Directions
  BY DEF Init, Both, Placement, ServerHasOnePlace, Directions, Handshaking, Turn, Ends
<1>5. Closing
  BY NotifyFacts DEF Init, Both, Closing, ServerGone, Ends
<1> QED
  BY <1>2, <1>3, <1>4, <1>5 DEF Structure

\* Structure is inductive: one lemma per operation.
LEMMA StepKeepsStructure == Structure /\ [Next]_vars => Structure'
<1> SUFFICES ASSUME Structure, [Next]_vars PROVE Structure'
  OBVIOUS
<1>1. ASSUME NEW e \in Ends, EndStep(e) PROVE Structure'
  BY <1>1, HandshakeWaitsKeepsStructure, ConnectionClosesKeepsStructure, ShutdownKeepsStructure,
     ShutdownForgottenKeepsStructure, WriteWaitsKeepsStructure, WriteSucceedsKeepsStructure,
     FailsKeepsStructure DEF EndStep
<1>2. CASE ClientStep
  BY <1>1, <1>2, EndFacts, ConnectedKeepsStructure, ReadResponsePartKeepsStructure,
     ReadResponseKeepsStructure, TimesOutKeepsStructure, NothingRegisteredKeepsStructure DEF ClientStep
<1>3. CASE ServerStep
  BY <1>1, <1>3, EndFacts, AcceptedKeepsStructure, ReadRequestPartKeepsStructure,
     RefuseRequestKeepsStructure, ExecuteRequestKeepsStructure, AnswerAtOnceKeepsStructure DEF ServerStep
<1>4. CASE PoolAnswers \/ BeginCall
  BY <1>4, PoolAnswersKeepsStructure, BeginCallKeepsStructure
<1>5. CASE Drop \/ Leave
  <2>1. wire["client"] \in Seq(Records) /\ Len(wire["client"]) <= wireSize
    BY EndFacts DEF Structure, TypeOK, Sizes
  <2>2. CASE Drop
    BY <2>1, <2>2, GoAwayKeepsStructure DEF Drop
  <2>3. CASE Leave
    <3>1. /\ Append(wire["client"], CloseNotify) \in Seq(Records)
          /\ Len(Append(wire["client"], CloseNotify)) <= wireSize
      BY <2>3, EndFacts, ClosingRecordFacts DEF Leave, Structure
    <3> QED
      BY <2>3, <3>1, GoAwayKeepsStructure DEF Leave
  <2> QED
    BY <1>5, <2>2, <2>3
<1>6. CASE ClosedEndResets \/ NetworkFails
  <2>1. Resets /\ disturbed' \in BOOLEAN
    BY <1>6 DEF ClosedEndResets, NetworkFails, Structure, TypeOK
  <2> QED
    BY <2>1, ResetsKeepsStructure
<1>7. CASE UNCHANGED vars
  <2>1. UNCHANGED <<state, registered, toWrite, unfinished, cache, flight, sent, received, open, wire,
                    reset, wireSize, keep, timed, stage, call, result, established, failed,
                    executing, keepAlive, refused, disturbed>>
    BY <1>7 DEF vars, machine, tls, net, client, server
  <2> QED
    BY SMTT(30), <2>1 DEF Structure, TypeOK, Sizes, Placement, ServerHasOnePlace, Directions, Closing, ServerGone,
                Handshaking
<1> QED
  BY <1>2, <1>3, <1>4, <1>5, <1>6, <1>7 DEF Next

\* What an end waits for, who has the connection, and how a session closes are as
\* switch_state() and the handlers around it leave them, whatever happens.
THEOREM StructureHolds == Spec => []Structure
<1>1. Init => Structure
  BY InitHasStructure
<1>2. Structure /\ [Next]_vars => Structure'
  BY StepKeepsStructure
<1> QED
  BY <1>1, <1>2, PTL DEF Spec

\* The variables have their types, for every number of flights, records and calls: no
\* buffer, flag or registration of ssl_connection.cc gets a value it has no meaning for.
THEOREM HttpsTypeCorrect == Spec => []TypeOK
<1>1. Structure => TypeOK
  BY DEF Structure
<1> QED
  BY <1>1, StructureHolds, PTL

\* The server's connection is its reactor's or an executor's, and every end that waits is
\* registered for the direction its operation needs (ssl_connection.cc:155-205, 238-257).
THEOREM ConnectionsAttended == Spec => []Attended
<1>1. ASSUME Structure PROVE Attended
  <2>1. ASSUME NEW e \in Ends, registered[e] # {}
        PROVE  state[e] # "EMPTY" /\ (CanGoOn(e) => Ready(e))
    <3>1. /\ state[e] # "EMPTY"
          /\ Handshaking(e) => (IF Turn(flight[e]) = e THEN "OUTPUT" ELSE "INPUT") \in registered[e]
          /\ state[e] = "READING" => "INPUT" \in registered[e]
          /\ state[e] \in {"WRITING", "SHUTDOWN"} => "OUTPUT" \in registered[e]
      BY <1>1, <2>1 DEF Structure, Directions
    <3>2. state[e] = "READING" /\ received[e] => reset \/ EndOfStream(e)
      BY <1>1, <2>1 DEF Structure, Closing, ServerGone, Placement, ServerHasOnePlace,
                        EndOfStream, Incoming, Ends, Other
    <3> QED
      BY <2>1, <3>1, <3>2 DEF CanGoOn, Ready, Handshaking
  <2> QED
    BY <1>1, <2>1 DEF Structure, Placement, Attended, WokenToWork
<1> QED
  BY <1>1, StructureHolds, PTL

-----------------------------------------------------------------------------
(* Messages on their way *)

\* The first record of a sequence, and the others.
LEMMA TailFacts ==
    ASSUME NEW w \in Seq(Records), w # <<>>
    PROVE  /\ w[1] \in Records /\ Head(w) = w[1] /\ 1 \in DOMAIN w
           /\ Tail(w) \in Seq(Records) /\ DOMAIN w = 1..Len(w) /\ Len(w) \in Nat \ {0}
           /\ DOMAIN Tail(w) = 1..(Len(w) - 1)
           /\ \A i \in DOMAIN Tail(w) : i + 1 \in DOMAIN w /\ Tail(w)[i] = w[i + 1] /\ i \in Nat \ {0}
           /\ \A i \in DOMAIN w : i # 1 => i - 1 \in DOMAIN Tail(w) /\ Tail(w)[i - 1] = w[i]
<1>1. /\ w[1] \in Records /\ Head(w) = w[1]
      /\ Tail(w) \in Seq(Records) /\ DOMAIN w = 1..Len(w) /\ Len(w) \in Nat \ {0}
      /\ DOMAIN Tail(w) = 1..(Len(w) - 1)
      /\ \A i \in 1..(Len(w) - 1) : Tail(w)[i] = w[i + 1]
  OBVIOUS
<1>2. ASSUME NEW i \in DOMAIN w, i # 1 PROVE i - 1 \in DOMAIN Tail(w) /\ Tail(w)[i - 1] = w[i]
  <2>1. i - 1 \in 1..(Len(w) - 1) /\ (i - 1) + 1 = i
    BY <1>1, <1>2
  <2> QED
    BY <1>1, <2>1
<1> QED
  BY <1>1, <1>2

\* Nothing is on its way: what is put there is the message.
LEMMA AbsentFacts ==
    ASSUME NEW h \in Seq(Pieces), NEW w \in Seq(Records), NEW l \in Seq(Pieces), Absent(h, w, l),
           NEW k \in 0..MaxCalls
    PROVE  /\ Ordered(h, w, l, k)
           /\ Ordered(h, w, Message(k), k) /\ Covered(h, w, Message(k))
           /\ ~Covered(h, w, l)
<1>1. /\ h = <<>> /\ l = <<>> /\ \A i \in DOMAIN w : w[i] \notin Pieces
      /\ Len(h) = 0 /\ Len(l) = 0 /\ DOMAIN h = {} /\ DOMAIN l = {}
  BY DEF Absent
<1>2. /\ DOMAIN Message(k) = 1..Parts /\ Len(Message(k)) = Parts /\ Parts \in Nat \ {0}
      /\ \A i \in 1..Parts : Message(k)[i].call = k /\ Message(k)[i].part = i
  BY MessageFacts, SessionAssumption
<1>3. Ordered(h, w, l, k)
  BY <1>1, SessionAssumption DEF Ordered
<1>4. Ordered(h, w, Message(k), k)
  <2>1. \A i \in DOMAIN Message(k) : Message(k)[i].part = Parts - Len(Message(k)) + i
    BY <1>2
  <2> QED
    BY <1>1, <1>2, <2>1 DEF Ordered
<1>5. Covered(h, w, Message(k))
  <2>1. (Len(h) + 1)..(Parts - Len(Message(k))) = {}
    BY <1>1, <1>2
  <2> QED
    BY <2>1 DEF Covered
<1>6. ~Covered(h, w, l)
  <2>1. 1 \in (Len(h) + 1)..(Parts - Len(l))
    BY <1>1, <1>2
  <2> QED
    BY <1>1, <2>1 DEF Covered
<1> QED
  BY <1>3, <1>4, <1>5, <1>6

\* A record that is no piece is put there.
LEMMA PutFacts ==
    ASSUME NEW h \in Seq(Pieces), NEW w \in Seq(Records), NEW l \in Seq(Pieces), NEW k \in 0..MaxCalls,
           NEW r \in Records \ Pieces
    PROVE  /\ Ordered(h, w, l, k) => Ordered(h, Append(w, r), l, k)
           /\ Absent(h, w, l) => Absent(h, Append(w, r), l)
           /\ Covered(h, w, l) => Covered(h, Append(w, r), l)
<1>1. /\ DOMAIN Append(w, r) = 1..(Len(w) + 1) /\ DOMAIN w = 1..Len(w) /\ Len(w) \in Nat
      /\ \A i \in 1..Len(w) : Append(w, r)[i] = w[i]
      /\ Append(w, r)[Len(w) + 1] = r
  OBVIOUS
<1>2. /\ \A i \in DOMAIN w : i \in DOMAIN Append(w, r) /\ Append(w, r)[i] = w[i]
      /\ \A i \in DOMAIN Append(w, r) : Append(w, r)[i] \in Pieces => i \in DOMAIN w /\ Append(w, r)[i] = w[i]
  BY <1>1
<1> HIDE <1>1
<1>3. Ordered(h, w, l, k) => Ordered(h, Append(w, r), l, k)
  BY <1>2 DEF Ordered
<1>4. Absent(h, w, l) => Absent(h, Append(w, r), l)
  BY <1>2 DEF Absent
<1>5. Covered(h, w, l) => Covered(h, Append(w, r), l)
  BY <1>2 DEF Covered
<1> QED
  BY <1>3, <1>4, <1>5

\* What is under way is lost.
LEMMA LostFacts ==
    ASSUME NEW h \in Seq(Pieces), NEW w \in Seq(Records), NEW l \in Seq(Pieces), NEW k \in 0..MaxCalls
    PROVE  /\ Ordered(h, w, l, k) => Ordered(h, <<>>, l, k)
           /\ Absent(h, w, l) => Absent(h, <<>>, l)
  BY DEF Ordered, Absent

\* The first record is taken; if it is a piece it goes to what is read.
LEMMA TakeFacts ==
    ASSUME NEW h \in Seq(Pieces), NEW w \in Seq(Records), NEW l \in Seq(Pieces), NEW k \in 0..MaxCalls,
           w # <<>>
    PROVE  /\ Ordered(h, w, l, k) => Ordered(h, Tail(w), l, k)
           /\ Absent(h, w, l) => Absent(h, Tail(w), l)
           /\ Covered(h, w, l) /\ w[1] \notin Pieces => Covered(h, Tail(w), l)
<1>1. /\ \A i \in DOMAIN Tail(w) : i + 1 \in DOMAIN w /\ Tail(w)[i] = w[i + 1] /\ i \in Nat \ {0}
      /\ \A i \in DOMAIN w : i # 1 => i - 1 \in DOMAIN Tail(w) /\ Tail(w)[i - 1] = w[i]
  BY TailFacts
<1>2. ASSUME Ordered(h, w, l, k) PROVE Ordered(h, Tail(w), l, k)
  <2>1. \A i \in DOMAIN Tail(w) : Tail(w)[i] \in Pieces =>
           Tail(w)[i].call = k /\ Tail(w)[i].part \in (Len(h) + 1)..(Parts - Len(l))
    BY <1>1, <1>2 DEF Ordered
  <2>2. ASSUME NEW i \in DOMAIN Tail(w), NEW j \in DOMAIN Tail(w),
               Tail(w)[i] \in Pieces, Tail(w)[j] \in Pieces, i < j
        PROVE  Tail(w)[i].part < Tail(w)[j].part
    <3>1. /\ i + 1 \in DOMAIN w /\ j + 1 \in DOMAIN w /\ i + 1 < j + 1
          /\ Tail(w)[i] = w[i + 1] /\ Tail(w)[j] = w[j + 1]
      BY <1>1, <2>2
    <3> QED
      BY <1>2, <2>2, <3>1 DEF Ordered
  <2> QED
    BY <1>2, <2>1, <2>2 DEF Ordered
<1>3. Absent(h, w, l) => Absent(h, Tail(w), l)
  BY <1>1 DEF Absent
<1>4. ASSUME Covered(h, w, l), w[1] \notin Pieces PROVE Covered(h, Tail(w), l)
  <2>1. ASSUME NEW p \in (Len(h) + 1)..(Parts - Len(l))
        PROVE  \E i \in DOMAIN Tail(w) : Tail(w)[i] \in Pieces /\ Tail(w)[i].part = p
    <3>1. PICK i \in DOMAIN w : w[i] \in Pieces /\ w[i].part = p
      BY <1>4 DEF Covered
    <3>2. i - 1 \in DOMAIN Tail(w) /\ Tail(w)[i - 1] = w[i]
      BY <1>1, <1>4, <3>1
    <3> QED
      BY <3>1, <3>2
  <2> QED
    BY <2>1 DEF Covered
<1> QED
  BY <1>2, <1>3, <1>4

\* A piece is read: it is the next of its message.
LEMMA ReadFacts ==
    ASSUME NEW h \in Seq(Pieces), NEW w \in Seq(Records), NEW l \in Seq(Pieces), NEW k \in 0..MaxCalls,
           w # <<>>, w[1] \in Pieces, Ordered(h, w, l, k)
    PROVE  /\ Ordered(Append(h, w[1]), Tail(w), l, k)
           /\ \A i \in DOMAIN Append(h, w[1]) : Append(h, w[1])[i].call = k
           /\ ~Absent(h, w, l)
           /\ Len(h) + 1 = Parts => Absent(<<>>, Tail(w), l)
           /\ Covered(h, w, l) => Covered(Append(h, w[1]), Tail(w), l)
<1>1. /\ \A i \in DOMAIN Tail(w) : i + 1 \in DOMAIN w /\ Tail(w)[i] = w[i + 1] /\ i \in Nat \ {0}
      /\ \A i \in DOMAIN w : i # 1 => i - 1 \in DOMAIN Tail(w) /\ Tail(w)[i - 1] = w[i]
      /\ 1 \in DOMAIN w /\ DOMAIN w \subseteq Nat \ {0}
  BY TailFacts
<1>2. /\ Len(Append(h, w[1])) = Len(h) + 1 /\ DOMAIN Append(h, w[1]) = 1..(Len(h) + 1)
      /\ Len(h) \in Nat /\ DOMAIN h = 1..Len(h)
      /\ \A i \in 1..Len(h) : Append(h, w[1])[i] = h[i]
      /\ Append(h, w[1])[Len(h) + 1] = w[1]
  OBVIOUS
<1>3. /\ Len(h) + Len(l) <= Parts
      /\ \A i \in DOMAIN h : h[i].call = k
      /\ \A i \in DOMAIN w : w[i] \in Pieces =>
            w[i].call = k /\ w[i].part \in (Len(h) + 1)..(Parts - Len(l))
      /\ \A i, j \in DOMAIN w : w[i] \in Pieces /\ w[j] \in Pieces /\ i < j => w[i].part < w[j].part
      /\ \A i \in DOMAIN l : l[i].call = k /\ l[i].part = Parts - Len(l) + i
  BY DEF Ordered
<1>4. w[1].call = k /\ w[1].part \in (Len(h) + 1)..(Parts - Len(l)) /\ Parts \in Nat /\ Len(l) \in Nat
  BY <1>1, <1>3, SessionAssumption
<1>5. \A i \in DOMAIN Append(h, w[1]) : Append(h, w[1])[i].call = k
  BY <1>2, <1>3, <1>4
<1>6. ASSUME NEW i \in DOMAIN Tail(w), Tail(w)[i] \in Pieces
      PROVE  /\ Tail(w)[i].call = k
             /\ Tail(w)[i].part \in (Len(h) + 1 + 1)..(Parts - Len(l))
  <2>1. w[i + 1].call = k /\ w[i + 1].part \in (Len(h) + 1)..(Parts - Len(l)) /\ w[1].part < w[i + 1].part
    BY SMTT(30), <1>1, <1>3, <1>6
  <2>2. PICK a, b, P \in Nat : a = Len(h) /\ b = Len(l) /\ P = Parts
    BY ONLY <1>2, <1>4
  <2>3. \A p, q \in (a + 1)..(P - b) : p < q => q \in (a + 1 + 1)..(P - b)
    BY ONLY a \in Nat, b \in Nat, P \in Nat
  <2>4. w[i + 1].part \in (Len(h) + 1 + 1)..(Parts - Len(l))
    BY ONLY <1>4, <2>1, <2>2, <2>3
  <2> QED
    BY ONLY <1>1, <1>6, <2>1, <2>4
<1>7. \A i, j \in DOMAIN Tail(w) : Tail(w)[i] \in Pieces /\ Tail(w)[j] \in Pieces /\ i < j =>
          Tail(w)[i].part < Tail(w)[j].part
  BY SMTT(30), <1>1, <1>3
<1>8. Ordered(Append(h, w[1]), Tail(w), l, k)
  <2>1. Len(Append(h, w[1])) + Len(l) <= Parts
    BY <1>2, <1>4
  <2> QED
    BY <1>2, <1>3, <1>5, <1>6, <1>7, <2>1 DEF Ordered
<1>9. ~Absent(h, w, l)
  BY <1>1 DEF Absent
<1>10. ASSUME Len(h) + 1 = Parts PROVE Absent(<<>>, Tail(w), l)
  <2>1. \A i \in DOMAIN Tail(w) : Tail(w)[i] \notin Pieces
    BY SMTT(30), <1>2, <1>4, <1>6, <1>10
  <2>2. Len(l) = 0
    BY <1>2, <1>4, <1>10
  <2> QED
    BY <2>1, <2>2, EmptySeq DEF Absent
<1>11. ASSUME Covered(h, w, l) PROVE Covered(Append(h, w[1]), Tail(w), l)
  <2>1. ASSUME NEW p \in (Len(h) + 1 + 1)..(Parts - Len(l))
        PROVE  \E i \in DOMAIN Tail(w) : Tail(w)[i] \in Pieces /\ Tail(w)[i].part = p
    <3>1. Len(h) + 1 \in (Len(h) + 1)..(Parts - Len(l)) /\ p \in (Len(h) + 1)..(Parts - Len(l))
      BY <1>2, <1>4, <2>1
    <3>2. PICK j \in DOMAIN w : w[j] \in Pieces /\ w[j].part = Len(h) + 1
      BY <1>11, <3>1 DEF Covered
    <3>3. w[1].part = Len(h) + 1
      <4>1. CASE j = 1
        BY <3>2, <4>1
      <4>2. CASE j # 1
        <5>1. w[1].part < w[j].part
          BY <1>1, <1>3, <3>2, <4>2
        <5> QED
          BY <5>1, <1>2, <1>4, <3>2
      <4> QED
        BY <4>1, <4>2
    <3>4. PICK i \in DOMAIN w : w[i] \in Pieces /\ w[i].part = p
      BY <1>11, <3>1 DEF Covered
    <3>5. i # 1
      BY <1>2, <2>1, <3>3, <3>4
    <3> QED
      BY <1>1, <3>4, <3>5
  <2> QED
    BY <1>2, <2>1 DEF Covered
<1> QED
  BY <1>5, <1>8, <1>9, <1>10, <1>11

\* n pieces are written.
LEMMA WrittenFacts ==
    ASSUME NEW h \in Seq(Pieces), NEW w \in Seq(Records), NEW l \in Seq(Pieces), NEW k \in 0..MaxCalls,
           NEW n \in 0..Len(l),
           NEW w1 \in Seq(Records), Len(w1) = Len(w) + n,
           \A i \in 1..Len(w) : w1[i] = w[i], \A i \in 1..n : w1[Len(w) + i] = l[i],
           NEW l1 \in Seq(Pieces), Len(l1) = Len(l) - n,
           \A i \in 1..(Len(l) - n) : l1[i] = l[i + n]
    PROVE  /\ Ordered(h, w, l, k) => Ordered(h, w1, l1, k)
           /\ Absent(h, w, l) => Absent(h, w1, l1)
           /\ Ordered(h, w, l, k) /\ Covered(h, w, l) => Covered(h, w1, l1)
<1>3. /\ \A i \in 1..Len(w) : w1[i] = w[i]
      /\ \A i \in 1..n : w1[Len(w) + i] = l[i]
      /\ DOMAIN w1 = 1..(Len(w) + n)
  BY SMTT(30)
<1>4. /\ Len(l1) = Len(l) - n
      /\ \A i \in 1..(Len(l) - n) : l1[i] = l[i + n]
  OBVIOUS
<1>5. /\ Len(w) \in Nat /\ DOMAIN w = 1..Len(w) /\ Len(l) \in Nat /\ DOMAIN l = 1..Len(l)
      /\ n \in Nat /\ n <= Len(l) /\ DOMAIN l1 = 1..(Len(l) - n) /\ Parts \in Nat /\ Len(h) \in Nat
  BY <1>4, SessionAssumption
<1>5a. \A j \in 1..n : j \in DOMAIN l /\ j \in Nat /\ l[j] \in Pieces /\ Len(w) + j \in DOMAIN w1
  BY ONLY <1>3, <1>5, l \in Seq(Pieces)
<1>5b. \A i \in DOMAIN l1 : i \in Nat /\ i + n \in DOMAIN l /\ l1[i] = l[i + n]
  <2>1. PICK m \in Nat : m = Len(l) /\ DOMAIN l = 1..m /\ DOMAIN l1 = 1..(m - n)
    BY ONLY <1>5
  <2>2. n \in Nat /\ n <= m
    BY ONLY <1>5, <2>1
  <2>3. \A i \in 1..(m - n) : i \in Nat /\ i + n \in 1..m
    BY ONLY <2>2, m \in Nat
  <2>4. \A i \in 1..(m - n) : l1[i] = l[i + n]
    BY ONLY <1>4, <2>1
  <2> QED
    BY ONLY <2>1, <2>3, <2>4
<1>5c. /\ \A i \in DOMAIN w1 : i \in Nat
       /\ \A i \in DOMAIN w : i \in DOMAIN w1 /\ i \in Nat /\ w1[i] = w[i] /\ i <= Len(w)
       /\ \A j \in DOMAIN w : \A i \in DOMAIN w1 : i < j => i \in DOMAIN w /\ w1[i] = w[i]
  BY ONLY <1>3, <1>5
<1>6. ASSUME NEW i \in DOMAIN w1
      PROVE  \/ i \in DOMAIN w /\ w1[i] = w[i]
             \/ \E j \in 1..n : i = Len(w) + j /\ w1[i] = l[j]
  <2>1. CASE i <= Len(w)
    BY <1>3, <1>5, <2>1
  <2>2. CASE i > Len(w)
    <3>1. i - Len(w) \in 1..n /\ i = Len(w) + (i - Len(w))
      BY <1>3, <1>5, <2>2
    <3> QED
      BY <1>3, <3>1
  <2> QED
    BY <1>3, <1>5, <2>1, <2>2
<1>7. ASSUME Ordered(h, w, l, k) PROVE Ordered(h, w1, l1, k)
  <2>1. /\ Len(h) + Len(l) <= Parts
        /\ \A i \in DOMAIN h : h[i].call = k
        /\ \A i \in DOMAIN w : w[i] \in Pieces =>
              w[i].call = k /\ w[i].part \in (Len(h) + 1)..(Parts - Len(l))
        /\ \A i, j \in DOMAIN w : w[i] \in Pieces /\ w[j] \in Pieces /\ i < j => w[i].part < w[j].part
        /\ \A i \in DOMAIN l : l[i].call = k /\ l[i].part = Parts - Len(l) + i
    BY <1>7 DEF Ordered
  <2>2. ASSUME NEW i \in DOMAIN w1, w1[i] \in Pieces
        PROVE  /\ w1[i].call = k /\ w1[i].part \in (Len(h) + 1)..(Parts - Len(l1))
    <3>1. CASE i \in DOMAIN w /\ w1[i] = w[i]
      <4>1. w[i].call = k /\ w[i].part \in (Len(h) + 1)..(Parts - Len(l))
        BY <2>1, <2>2, <3>1
      <4>2. \A p \in (Len(h) + 1)..(Parts - Len(l)) : p \in (Len(h) + 1)..(Parts - Len(l1))
        <5>1. PICK a, b, c, P \in Nat : a = Len(h) /\ b = Len(l) /\ c = Len(l1) /\ P = Parts
          BY ONLY <1>4, <1>5
        <5>2. c = b - n /\ n \in Nat /\ n <= b
          BY ONLY <1>4, <1>5, <5>1
        <5>3. \A p \in (a + 1)..(P - b) : p \in (a + 1)..(P - c)
          BY ONLY <5>2, a \in Nat, b \in Nat, c \in Nat, P \in Nat
        <5> QED
          BY ONLY <5>1, <5>3
      <4> QED
        BY ONLY <3>1, <4>1, <4>2
    <3>2. ASSUME NEW j \in 1..n, i = Len(w) + j, w1[i] = l[j]
          PROVE  w1[i].call = k /\ w1[i].part \in (Len(h) + 1)..(Parts - Len(l1))
      <4>1. l[j].call = k /\ l[j].part = Parts - Len(l) + j
        BY ONLY <1>5a, <2>1, j \in 1..n
      <4>2. Parts - Len(l) + j \in (Len(h) + 1)..(Parts - (Len(l) - n))
        <5>1. PICK a, b, P \in Nat : a = Len(h) /\ b = Len(l) /\ P = Parts
          BY ONLY <1>5
        <5>2. a + b <= P /\ n \in Nat /\ n <= b /\ j \in 1..n
          BY ONLY <1>5, <2>1, <5>1, j \in 1..n
        <5>3. P - b + j \in (a + 1)..(P - (b - n))
          BY ONLY <5>2, a \in Nat, b \in Nat, P \in Nat
        <5> QED
          BY ONLY <5>1, <5>3
      <4> QED
        BY <1>4, <3>2, <4>1, <4>2
    <3> QED
      BY <1>6, <3>1, <3>2
  <2>3. ASSUME NEW i \in DOMAIN w1, NEW j \in DOMAIN w1, w1[i] \in Pieces, w1[j] \in Pieces, i < j
        PROVE  w1[i].part < w1[j].part
    <3>1. CASE j \in DOMAIN w
      <4>1. i \in DOMAIN w /\ w1[i] = w[i] /\ w1[j] = w[j]
        BY ONLY <1>5c, <2>3, <3>1, i \in DOMAIN w1
      <4> QED
        BY ONLY <2>1, <2>3, <3>1, <4>1
    <3>2. ASSUME NEW b \in 1..n, j = Len(w) + b, w1[j] = l[b] PROVE w1[i].part < w1[j].part
      <4>1. l[b].part = Parts - Len(l) + b
        BY ONLY <1>5a, <2>1, b \in 1..n
      <4>2. CASE i \in DOMAIN w /\ w1[i] = w[i]
        <5>1. w[i].part \in (Len(h) + 1)..(Parts - Len(l))
          BY <2>1, <2>3, <4>2
        <5> QED
          <6>1. l[b].part > Parts - Len(l) /\ w[i].part <= Parts - Len(l) /\ w[i].part \in Int
            BY ONLY SMTT(30), <1>5, <4>1, <5>1, b \in 1..n
          <6>2. l[b].part \in Int
            BY ONLY <1>5, <4>1, b \in 1..n
          <6> QED
            BY ONLY SMTT(30), <1>5, <3>2, <4>2, <6>1, <6>2
      <4>3. ASSUME NEW a \in 1..n, i = Len(w) + a, w1[i] = l[a] PROVE w1[i].part < w1[j].part
        <5>1. l[a].part = Parts - Len(l) + a /\ a \in Int /\ b \in Int
          BY ONLY <1>5a, <2>1, a \in 1..n, b \in 1..n
        <5>2. a < b
          BY ONLY <1>5, <2>3, <3>2, <4>3, <5>1
        <5> QED
          BY ONLY SMTT(30), <1>5, <3>2, <4>1, <4>3, <5>1, <5>2
      <4> QED
        BY <1>6, <4>2, <4>3
    <3> QED
      BY <1>6, <3>1, <3>2
  <2>4. \A i \in DOMAIN l1 : l1[i].call = k /\ l1[i].part = Parts - Len(l1) + i
    <3>1. ASSUME NEW i \in DOMAIN l1 PROVE l1[i].call = k /\ l1[i].part = Parts - Len(l1) + i
      <4>1. i \in Nat /\ i + n \in DOMAIN l /\ l1[i] = l[i + n]
        BY <1>5b
      <4>2. l[i + n].call = k /\ l[i + n].part = Parts - Len(l) + (i + n)
        BY <2>1, <4>1
      <4> QED
        BY ONLY <1>4, <1>5, <4>1, <4>2
    <3> QED
      BY <3>1
  <2>5. Len(h) + Len(l1) <= Parts
    BY <1>4, <1>5, <2>1
  <2> QED
    BY <2>1, <2>2, <2>3, <2>4, <2>5 DEF Ordered
<1>8. ASSUME Absent(h, w, l) PROVE Absent(h, w1, l1)
  <2>1. h = <<>> /\ l = <<>> /\ Len(l) = 0 /\ \A i \in DOMAIN w : w[i] \notin Pieces
    BY <1>8 DEF Absent
  <2>2. n = 0 /\ Len(l1) = 0 /\ DOMAIN w1 = DOMAIN w
    <3>1. n = 0
      BY ONLY <1>5, <2>1
    <3> QED
      BY ONLY <1>3, <1>4, <1>5, <2>1, <3>1
  <2>3. \A i \in DOMAIN w1 : w1[i] \notin Pieces
    BY <1>3, <1>5, <2>1, <2>2
  <2> QED
    BY <1>4, <2>1, <2>2, <2>3, EmptySeq DEF Absent
<1>9. ASSUME Ordered(h, w, l, k), Covered(h, w, l) PROVE Covered(h, w1, l1)
  <2>1. ASSUME NEW p \in (Len(h) + 1)..(Parts - Len(l1))
        PROVE  \E i \in DOMAIN w1 : w1[i] \in Pieces /\ w1[i].part = p
    <3>1. CASE p <= Parts - Len(l)
      <4>1. p \in (Len(h) + 1)..(Parts - Len(l))
        BY <1>4, <1>5, <2>1, <3>1
      <4>2. PICK i \in DOMAIN w : w[i] \in Pieces /\ w[i].part = p
        BY <1>9, <4>1 DEF Covered
      <4> QED
        BY SMTT(30), <1>3, <1>5, <4>2
    <3>2. CASE p > Parts - Len(l)
      <4>1. PICK j \in 1..n : p = Parts - Len(l) + j
        <5>1. p - (Parts - Len(l)) \in 1..n /\ p = Parts - Len(l) + (p - (Parts - Len(l)))
          BY <1>4, <1>5, <2>1, <3>2
        <5> QED
          BY <5>1
      <4>2. l[j] \in Pieces /\ l[j].part = p
        <5>1. \A i \in DOMAIN l : l[i].part = Parts - Len(l) + i
          BY <1>9 DEF Ordered
        <5> QED
          BY ONLY <1>5a, <5>1, <4>1
      <4>3. Len(w) + j \in DOMAIN w1 /\ w1[Len(w) + j] = l[j]
        BY SMTT(30), <1>3, <1>5
      <4> QED
        BY <4>2, <4>3
    <3> QED
      BY SMTT(30), <1>5, <2>1, <3>1, <3>2
  <2> QED
    BY <2>1 DEF Covered
<1> QED
  BY <1>7, <1>8, <1>9

\* Where a flight is when records are taken and put.
LEMMA FlightFacts ==
    /\ NoFlight(<<>>)
    /\ \A w \in Seq(Records), r \in Records \ {Flight} :
          /\ NoFlight(w) => NoFlight(Append(w, r))
          /\ FlightFirst(w) => FlightFirst(Append(w, r))
    /\ \A w \in Seq(Records) : w # <<>> =>
          /\ NoFlight(w) \/ FlightFirst(w) => NoFlight(Tail(w))
    /\ FlightFirst(Append(<<>>, Flight))
<1>1. NoFlight(<<>>)
  BY DEF NoFlight
<1>2. ASSUME NEW w \in Seq(Records), NEW r \in Records \ {Flight}
      PROVE  /\ NoFlight(w) => NoFlight(Append(w, r))
             /\ FlightFirst(w) => FlightFirst(Append(w, r))
  <2>1. /\ DOMAIN Append(w, r) = 1..(Len(w) + 1) /\ DOMAIN w = 1..Len(w) /\ Len(w) \in Nat
        /\ \A i \in 1..Len(w) : Append(w, r)[i] = w[i]
        /\ Append(w, r)[Len(w) + 1] = r /\ Append(w, r) # <<>>
        /\ w # <<>> => Len(w) # 0
    OBVIOUS
  <2>2. NoFlight(w) => NoFlight(Append(w, r))
    BY <2>1 DEF NoFlight
  <2>3. FlightFirst(w) => FlightFirst(Append(w, r))
    BY <2>1 DEF FlightFirst
  <2> QED
    BY <2>2, <2>3
<1>3. ASSUME NEW w \in Seq(Records), w # <<>>, NoFlight(w) \/ FlightFirst(w)
      PROVE  NoFlight(Tail(w))
  <2>1. \A i \in DOMAIN Tail(w) : i + 1 \in DOMAIN w /\ Tail(w)[i] = w[i + 1] /\ i \in Nat \ {0}
    BY <1>3, TailFacts
  <2>2. \A i \in DOMAIN Tail(w) : i + 1 # 1
    BY <2>1
  <2> QED
    BY <1>3, <2>1, <2>2 DEF NoFlight, FlightFirst
<1>4. FlightFirst(Append(<<>>, Flight))
  <2>1. Append(<<>>, Flight) = <<Flight>>
    OBVIOUS
  <2> QED
    BY <2>1 DEF FlightFirst
<1> QED
  BY <1>1, <1>2, <1>3, <1>4

\* Pieces are put behind.
LEMMA FlightBehind ==
    ASSUME NEW w \in Seq(Records), NEW l \in Seq(Pieces), NEW n \in 0..Len(l),
           NEW w1 \in Seq(Records), Len(w1) = Len(w) + n,
           \A i \in 1..Len(w) : w1[i] = w[i], \A i \in 1..n : w1[Len(w) + i] = l[i]
    PROVE  /\ NoFlight(w) => NoFlight(w1)
           /\ FlightFirst(w) => FlightFirst(w1)
<1>1. /\ Len(w) \in Nat /\ DOMAIN w = 1..Len(w) /\ DOMAIN w1 = 1..(Len(w) + n) /\ n \in Nat
      /\ n <= Len(l) /\ Len(l) \in Nat
      /\ w # <<>> => Len(w) # 0
  OBVIOUS
<1>2. \A j \in 1..n : l[j] # Flight
  <2>1. \A j \in 1..n : j \in 1..Len(l)
    BY ONLY <1>1
  <2> QED
    BY <2>1, RecordFacts
<1>3. ASSUME NEW i \in DOMAIN w1, w1[i] = Flight PROVE i \in DOMAIN w /\ w[i] = Flight
  <2>1. CASE i <= Len(w)
    BY <1>1, <1>3, <2>1
  <2>2. CASE i > Len(w)
    <3>1. i - Len(w) \in 1..n /\ i = Len(w) + (i - Len(w))
      BY ONLY <1>1, <2>2, i \in DOMAIN w1
    <3> QED
      BY <1>2, <1>3, <3>1
  <2> QED
    BY <1>1, <2>1, <2>2
<1>4. NoFlight(w) => NoFlight(w1)
  BY <1>3 DEF NoFlight
<1>5. ASSUME FlightFirst(w) PROVE FlightFirst(w1)
  <2>1. 1 \in 1..Len(w) /\ w[1] = Flight
    BY <1>1, <1>5 DEF FlightFirst
  <2>2. w1[1] = Flight /\ w1 # <<>>
    BY <1>1, <2>1
  <2> QED
    BY <1>3, <1>5, <2>2 DEF FlightFirst
<1> QED
  BY <1>4, <1>5

\* Records of no kind are no records.
LEMMA NothingLeft ==
    ASSUME NEW w \in Seq(Records), \A i \in DOMAIN w : w[i] \notin Pieces, NoNotify(w), NoFlight(w)
    PROVE  w = <<>>
<1> SUFFICES ASSUME w # <<>> PROVE FALSE
  OBVIOUS
<1>1. w[1] \in Records /\ 1 \in DOMAIN w
  BY TailFacts
<1> QED
  BY <1>1 DEF Records, NoNotify, NoFlight

\* The handshake goes on as the records and states do.
LEMMA InTurnKept ==
    ASSUME InTurn, flight' = flight,
           \A e \in Ends : /\ NoFlight(wire[e]) => NoFlight(wire'[e])
                           /\ FlightFirst(wire[e]) => FlightFirst(wire'[e]),
           \A e \in Ends : Handshaking(e) => Handshaking(e)' \/ flight[e] = Flights
    PROVE  InTurn'
<1>1. (Level => Level') /\ \A e \in Ends : AheadBy(e) => AheadBy(e)'
  BY EndFacts DEF Level, AheadBy
<1>2. \A e \in Ends : Handshaking(e)' \/ flight'[e] = Flights
  BY DEF InTurn
<1> QED
  BY <1>1, <1>2, EndFacts DEF InTurn

-----------------------------------------------------------------------------
(* The order of a connection *)

Orderly == Buffers /\ LostBefore /\ OwnPieces /\ Undisturbed

\* The sequences of an end.
LEMMA SequenceTypes ==
    ASSUME TypeOK
    PROVE  /\ \A e \in Ends : /\ cache[e] \in Seq(Pieces) /\ toWrite[e] \in Seq(Pieces)
                              /\ wire[e] \in Seq(Records)
           /\ call \in 0..MaxCalls
  BY SessionAssumption DEF TypeOK

\* The other end's records change without a piece being read.
LEMMA StreamUnread ==
    ASSUME TypeOK, NEW e \in Ends, NEW o \in Ends, o = Other(e),
           \/ wire'[o] \in {wire[o], Append(wire[o], Flight), Append(wire[o], CloseNotify), <<>>}
           \/ wire[o] # <<>> /\ wire'[o] = Tail(wire[o]),
           cache'[e] = cache[e], toWrite'[o] = toWrite[o], call' = call
    PROVE  /\ InOrder(e) => InOrder(e)'
           /\ NoMessage(e) => NoMessage(e)'
           /\ \/ wire'[o] \in {wire[o], Append(wire[o], Flight), Append(wire[o], CloseNotify)}
              \/ wire[o] # <<>> /\ wire'[o] = Tail(wire[o]) /\ wire[o][1] \notin Pieces
              => (Covers(e) => Covers(e)')
<1>1. PICK h \in Seq(Pieces), w \in Seq(Records), l \in Seq(Pieces), k \in 0..MaxCalls :
         h = cache[e] /\ w = wire[o] /\ l = toWrite[o] /\ k = call
  BY SequenceTypes
<1>2. PICK w1 : w1 = wire'[o]
  OBVIOUS
<1>3. /\ w1 \in {w, Append(w, Flight), Append(w, CloseNotify), <<>>} \/ (w # <<>> /\ w1 = Tail(w))
  BY <1>1, <1>2
<1>4. Flight \in Records \ Pieces /\ CloseNotify \in Records \ Pieces
  BY RecordFacts
<1>5. /\ Ordered(h, w, l, k) => Ordered(h, w1, l, k)
      /\ Absent(h, w, l) => Absent(h, w1, l)
      /\ \/ w1 \in {w, Append(w, Flight), Append(w, CloseNotify)}
         \/ w # <<>> /\ w1 = Tail(w) /\ w[1] \notin Pieces
         => (Covered(h, w, l) => Covered(h, w1, l))
  <2>1. CASE w1 \in {w, Append(w, Flight), Append(w, CloseNotify)}
    BY <1>4, <2>1, PutFacts
  <2>2. CASE w # <<>> /\ w1 = Tail(w)
    BY <2>2, <1>4, TakeFacts, PutFacts
  <2>3. CASE /\ w1 = <<>> /\ w1 \notin {w, Append(w, Flight), Append(w, CloseNotify)}
             /\ ~(w # <<>> /\ w1 = Tail(w))
    BY <2>3, LostFacts
  <2> QED
    BY <1>3, <2>1, <2>2, <2>3
<1> QED
  BY <1>1, <1>2, <1>5 DEF InOrder, NoMessage, Covers

\* Pieces are written.
LEMMA StreamWritten ==
    ASSUME TypeOK, NEW e \in Ends, NEW o \in Ends, o = Other(e), NEW n \in 0..Len(toWrite[e]),
           wire'[e] = wire[e] \o SubSeq(toWrite[e], 1, n),
           toWrite'[e] = SubSeq(toWrite[e], n + 1, Len(toWrite[e])),
           cache'[o] = cache[o], call' = call
    PROVE  /\ InOrder(o) => InOrder(o)'
           /\ NoMessage(o) => NoMessage(o)'
           /\ InOrder(o) /\ Covers(o) => Covers(o)'
           /\ NoFlight(wire[e]) => NoFlight(wire'[e])
           /\ FlightFirst(wire[e]) => FlightFirst(wire'[e])
           /\ NoNotify(wire[e]) => NoNotify(wire'[e])
<1>1. PICK h \in Seq(Pieces), w \in Seq(Records), l \in Seq(Pieces), k \in 0..MaxCalls :
         h = cache[o] /\ w = wire[e] /\ l = toWrite[e] /\ k = call
  BY SequenceTypes
<1>2. n \in 0..Len(l)
  BY <1>1
<1>3. PICK w1 : w1 = w \o SubSeq(l, 1, n)
  OBVIOUS
<1>3a. PICK l1 : l1 = SubSeq(l, n + 1, Len(l))
  OBVIOUS
<1>4. w1 = wire'[e] /\ l1 = toWrite'[e]
  BY <1>1, <1>3, <1>3a
<1>5. /\ w1 \in Seq(Records) /\ Len(w1) = Len(w) + n
      /\ \A i \in 1..Len(w) : w1[i] = w[i]
      /\ \A i \in 1..n : w1[Len(w) + i] = l[i]
      /\ l1 \in Seq(Pieces) /\ Len(l1) = Len(l) - n
      /\ \A i \in 1..(Len(l) - n) : l1[i] = l[i + n]
  <2>1. PICK part : part = SubSeq(l, 1, n)
    OBVIOUS
  <2>2. part \in Seq(Pieces) /\ Len(part) = n /\ \A i \in 1..n : part[i] = l[i]
    BY <1>2, <2>1, FrontFacts
  <2>3. /\ w1 \in Seq(Records) /\ Len(w1) = Len(w) + n
        /\ \A i \in 1..Len(w) : w1[i] = w[i]
        /\ \A i \in 1..n : w1[Len(w) + i] = l[i]
    <3>1. /\ w \o part \in Seq(Records) /\ Len(w \o part) = Len(w) + Len(part)
          /\ \A i \in 1..Len(w) : (w \o part)[i] = w[i]
          /\ \A i \in 1..Len(part) : (w \o part)[Len(w) + i] = part[i]
      BY <2>2, JoinFacts
    <3> QED
      BY <1>3, <2>1, <2>2, <3>1
  <2>4. /\ l1 \in Seq(Pieces) /\ Len(l1) = Len(l) - n
        /\ \A i \in 1..(Len(l) - n) : l1[i] = l[i + n]
    BY <1>2, <1>3a, RestFacts
  <2> QED
    BY <2>3, <2>4
<1>6. /\ Ordered(h, w, l, k) => Ordered(h, w1, l1, k)
      /\ Absent(h, w, l) => Absent(h, w1, l1)
      /\ Ordered(h, w, l, k) /\ Covered(h, w, l) => Covered(h, w1, l1)
  BY <1>2, <1>5, WrittenFacts
<1>7. /\ NoFlight(w) => NoFlight(w1)
      /\ FlightFirst(w) => FlightFirst(w1)
  BY ONLY ZenonT(40), <1>2, <1>5, FlightBehind
<1>8. NoNotify(w) => NoNotify(w1)
  <2>1. PICK part : part = SubSeq(l, 1, n)
    OBVIOUS
  <2>2. part \in Seq(Pieces)
    BY <1>2, <2>1, FrontFacts
  <2> QED
    BY <1>3, <2>1, <2>2, JoinFacts
<1>9. o \in Ends /\ Other(o) = e
  BY EndFacts
<1> QED
  BY <1>1, <1>4, <1>6, <1>7, <1>8, <1>9 DEF InOrder, NoMessage, Covers

\* A step that reads no piece and answers no request.
LEMMA KeptOwn ==
    ASSUME OwnPieces, \A e \in Ends : (InOrder(e) => InOrder(e)') /\ (NoMessage(e) => NoMessage(e)'),
           stage' \in {stage, "over"}, UNCHANGED <<executing, established, refused, call, failed>>
    PROVE  OwnPieces'
<1>1. /\ InOrder("client") => InOrder("client")'
      /\ InOrder("server") => InOrder("server")'
      /\ NoMessage("client") => NoMessage("client")'
      /\ NoMessage("server") => NoMessage("server")'
  BY EndFacts
<1> QED
  BY <1>1 DEF OwnPieces, OwnResponse, OwnRequest, OneAfterAnother

\* Where the server is while nothing has happened.
LEMMA UndisturbedFacts ==
    ASSUME Structure, Orderly, ~disturbed
    PROVE  /\ ~failed /\ OwnResponse /\ (~refused => OwnRequest) /\ OneAfterAnother
           /\ stage = "calling" => /\ Healthy /\ Calling
                                   /\ registered["client"] # {}
                                   /\ state["client"] \in {"CONNECTING", "WRITING", "READING"}
                                   /\ ~open["server"] => Answering /\ toWrite["server"] = <<>> /\ ~keepAlive
           /\ stage = "idle" /\ ~refused => Healthy /\ Resting
<1>1. /\ ~failed
      /\ stage = "calling" => Healthy /\ Calling
      /\ stage = "idle" /\ ~refused => Healthy /\ Resting
  BY DEF Orderly, Undisturbed
<1>2. OwnResponse /\ (~refused => OwnRequest) /\ OneAfterAnother
  BY <1>1 DEF Orderly, OwnPieces
<1>3. ASSUME stage = "calling"
      PROVE  /\ registered["client"] # {} /\ state["client"] \in {"CONNECTING", "WRITING", "READING"}
             /\ ~open["server"] => Answering /\ toWrite["server"] = <<>> /\ ~keepAlive
  <2>1. Calling
    BY <1>1, <1>3
  <2>2. executing # {} => open["server"]
    BY DEF Structure, Placement
  <2> QED
    BY <2>1, <2>2 DEF Calling, Greeting, Asking, Working, Answering, ClientAtWork, ServerReads
<1> QED
  BY <1>1, <1>2, <1>3

\* When a response is covered there is something to come.
LEMMA CoversFacts ==
    ASSUME Structure
    PROVE  /\ \A e \in Ends : NoMessage(e) => ~Covers(e)
           /\ Covers("client") /\ toWrite["server"] = <<>> =>
                 \E i \in DOMAIN wire["server"] : wire["server"][i] \in Pieces
<1>1. ASSUME NEW e \in Ends, NoMessage(e) PROVE ~Covers(e)
  <2>1. /\ cache[e] \in Seq(Pieces) /\ wire[Other(e)] \in Seq(Records)
        /\ toWrite[Other(e)] \in Seq(Pieces) /\ call \in 0..MaxCalls
    BY SequenceTypes, EndFacts DEF Structure
  <2> QED
    BY <1>1, <2>1, AbsentFacts DEF NoMessage, Covers
<1>2. ASSUME Covers("client"), toWrite["server"] = <<>>
      PROVE  \E i \in DOMAIN wire["server"] : wire["server"][i] \in Pieces
  <2>1. Len(cache["client"]) \in Nat /\ Len(cache["client"]) < Parts /\ Len(toWrite["server"]) = 0
    BY <1>2, SequenceTypes, EndFacts DEF Structure, Sizes
  <2>2. Len(cache["client"]) + 1 \in (Len(cache["client"]) + 1)..(Parts - Len(toWrite["server"]))
    BY <2>1, SessionAssumption
  <2> QED
    BY <1>2, <2>2, EndFacts DEF Covers, Covered
<1> QED
  BY <1>1, <1>2

\* Nothing closes an undisturbed connection before its time.
LEMMA NoEarlyClose ==
    ASSUME Structure, Orderly, ~disturbed, NEW e \in Ends, ConnectionCloses(e)
    PROVE  stage # "calling" /\ ~(stage = "idle" /\ ~refused)
<1> SUFFICES ASSUME stage = "calling" \/ (stage = "idle" /\ ~refused) PROVE FALSE
  OBVIOUS
<1>1. /\ Healthy /\ (stage = "calling" => Calling) /\ (stage = "idle" => Resting)
      /\ stage = "calling" => /\ state["client"] \in {"CONNECTING", "WRITING", "READING"}
                              /\ ~open["server"] => Answering /\ toWrite["server"] = <<>>
  BY UndisturbedFacts
<1>2. /\ open[e] /\ (e = "client" => stage = "calling")
      /\ state[e] = "READING" \/ Handshaking(e)
      /\ \/ Incoming(e) # <<>> /\ Head(Incoming(e)) = CloseNotify
         \/ received[e] \/ EndOfStream(e)
  BY ReactsFacts DEF ConnectionCloses, Structure
<1>3. ~received[e]
  BY <1>1, <1>2 DEF Healthy, Ends
<1>4. wire[Other(e)] \in Seq(Records) /\ Other(e) \in Ends
  BY EndFacts, SequenceTypes DEF Structure
<1>5. CASE e = "server"
  <2>1. NoNotify(wire["client"]) /\ open["client"]
    BY <1>1 DEF Healthy
  <2>2. wire["client"] # <<>> => Head(wire["client"]) # CloseNotify
    BY <1>4, <1>5, <2>1, TailFacts, EndFacts DEF NoNotify
  <2> QED
    BY <1>2, <1>3, <1>5, <2>1, <2>2, EndFacts DEF Incoming, EndOfStream
<1>6. CASE e = "client"
  <2>1. wire["server"] \in Seq(Records)
    BY <1>4, <1>6, EndFacts
  <2>2. CASE open["server"]
    <3>1. NoNotify(wire["server"])
      BY <2>2 DEF Structure, Closing
    <3>2. wire["server"] # <<>> => Head(wire["server"]) # CloseNotify
      BY <2>1, <3>1, TailFacts DEF NoNotify
    <3> QED
      BY <1>2, <1>3, <1>6, <2>2, <3>2, EndFacts DEF Incoming, EndOfStream
  <2>3. CASE ~open["server"]
    <3>1. PICK i \in DOMAIN wire["server"] : wire["server"][i] \in Pieces
      BY <1>1, <1>2, <1>6, <2>3, CoversFacts DEF Answering
    <3>2. wire["server"] # <<>> /\ Head(wire["server"]) = CloseNotify
      BY <1>2, <1>3, <1>6, <3>1, EndFacts DEF Incoming, EndOfStream
    <3>3. 1 \in DOMAIN wire["server"] /\ wire["server"][1] = CloseNotify
          /\ DOMAIN wire["server"] = 1..Len(wire["server"])
      BY <2>1, <3>2, TailFacts
    <3>4. 1 = Len(wire["server"])
      BY <3>3 DEF Structure, Closing, NotifyLast
    <3> QED
      BY <3>1, <3>3, <3>4, RecordFacts
  <2> QED
    BY <2>2, <2>3
<1> QED
  BY <1>5, <1>6 DEF Ends

-----------------------------------------------------------------------------
(* The steps that end a connection keep the order *)

\* A step that leaves a way as it was, or puts there or takes or loses what is no piece of a message.
LEMMA UnreadKeepsOwn ==
    ASSUME TypeOK, OwnPieces,
           \A o \in Ends :
              \/ wire'[o] \in {wire[o], Append(wire[o], Flight), Append(wire[o], CloseNotify), <<>>}
              \/ wire[o] # <<>> /\ wire'[o] = Tail(wire[o]),
           stage' \in {stage, "over"},
           UNCHANGED <<cache, toWrite, executing, established, refused, call, failed>>
    PROVE  OwnPieces'
<1>1. ASSUME NEW e \in Ends
      PROVE  (InOrder(e) => InOrder(e)') /\ (NoMessage(e) => NoMessage(e)')
  <2>1. PICK o \in Ends : o = Other(e)
    BY EndFacts
  <2> QED
    BY <2>1, StreamUnread
<1> QED
  BY <1>1, KeptOwn

\* What a step that has ended the client's connection has left to keep.
LEMMA OverKeepsUndisturbed ==
    ASSUME Undisturbed, stage' = "over", failed' = failed, disturbed' = disturbed
    PROVE  Undisturbed'
  BY DEF Undisturbed

\* The client closes its kept connection: no call is left to answer.
LEMMA GoAwayKeepsOrder ==
    ASSUME Structure, Orderly, NEW out \in {wire["client"], Append(wire["client"], CloseNotify)},
           GoAway(out)
    PROVE  Orderly'
<1>1. TypeOK /\ Buffers /\ LostBefore /\ OwnPieces /\ Undisturbed
  BY DEF Structure, Orderly
<1>2. /\ stage' = "over" /\ Close("client", out, wire["server"]) /\ RegNothing("client", state["client"])
      /\ UNCHANGED <<toWrite, unfinished, cache, executing, keepAlive, refused, disturbed,
                     call, established, failed>>
  BY EndFacts DEF GoAway, Incoming, server
<1>3. state' = state
  BY <1>1, <1>2, EndFacts DEF RegNothing, TypeOK
<1>4. \A o \in Ends :
         wire'[o] \in {wire[o], Append(wire[o], Flight), Append(wire[o], CloseNotify), <<>>}
  <2>1. wire["client"] \in Seq(Records) /\ wire["server"] \in Seq(Records) /\ out \in Seq(Records)
    <3>1. wire["client"] \in Seq(Records) /\ wire["server"] \in Seq(Records)
      BY <1>1, SequenceTypes, EndFacts
    <3>2. Append(wire["client"], CloseNotify) \in Seq(Records)
      BY <3>1, RecordFacts
    <3> QED
      BY <3>1, <3>2
  <2>2. IF wire["server"] # <<>> THEN \A x \in Ends : wire'[x] = <<>>
        ELSE wire'["client"] = out /\ wire'["server"] = wire["server"]
    BY <1>1, <1>2, <2>1, CloseFacts, EndFacts
  <2> QED
    BY <2>2 DEF Ends
<1>5. Buffers'
  BY <1>1, <1>2, <1>3 DEF Buffers, Nothing, Handshaking
<1>6. LostBefore'
  BY <1>1, <1>2, <1>3 DEF LostBefore, Handshaking
<1>7. OwnPieces'
  BY <1>1, <1>2, <1>4, UnreadKeepsOwn
<1>8. Undisturbed'
  BY <1>1, <1>2, OverKeepsUndisturbed
<1> QED
  BY <1>5, <1>6, <1>7, <1>8 DEF Orderly

\* TCP gives the connection up: it answers data at a closed end, or something has
\* happened.
LEMMA ResetsKeepsOrder ==
    ASSUME Structure, Orderly, ClosedEndResets \/ NetworkFails
    PROVE  Orderly'
<1>1. TypeOK /\ Buffers /\ LostBefore /\ OwnPieces /\ Undisturbed
  BY DEF Structure, Orderly
<1>2. /\ wire' = Both(<<>>)
      /\ UNCHANGED <<state, registered, toWrite, unfinished, cache, sent, received, open,
                     stage, call, result, established, failed, executing, keepAlive, refused>>
  BY DEF ClosedEndResets, NetworkFails, Resets, machine, tls, client, server
<1>3. \A o \in Ends : wire'[o] = <<>>
  BY <1>2 DEF Both
<1>4. Buffers'
  BY <1>1, <1>2 DEF Buffers, Nothing, Handshaking
<1>5. LostBefore'
  BY <1>1, <1>2 DEF LostBefore, Handshaking
<1>6. OwnPieces'
  BY <1>1, <1>2, <1>3, UnreadKeepsOwn
<1>7. Undisturbed'
  <2>1. CASE NetworkFails
    BY <2>1 DEF NetworkFails, Undisturbed
  <2>2. CASE ClosedEndResets
    <3> SUFFICES ASSUME ~disturbed, stage = "calling" \/ (stage = "idle" /\ ~refused) PROVE FALSE
      BY <1>1, <1>2, <2>2 DEF ClosedEndResets, Undisturbed
    <3>1. /\ Healthy
          /\ ~open["server"] => Answering \/ Resting
      BY UndisturbedFacts DEF Resting
    <3>2. open["client"] /\ (open["server"] \/ wire["client"] = <<>>)
      BY <3>1 DEF Healthy, Answering, Resting, Quiet
    <3> QED
      BY <2>2, <3>2 DEF ClosedEndResets, Incoming, Ends, Other
  <2> QED
    BY <2>1, <2>2
<1> QED
  BY <1>4, <1>5, <1>6, <1>7 DEF Orderly

\* A call ends with a failure: what is kept is only that it has failed.
LEMMA CallFails ==
    ASSUME Structure, Orderly, stage = "calling", NEW outcome, outcome.kind # "answer",
           outcome \in [kind : Outcomes, call : 0..MaxCalls],
           EndCall(outcome, wire["server"]), state' = state, toWrite' = toWrite, unfinished' = unfinished,
           disturbed'
    PROVE  Orderly'
<1>1. TypeOK /\ Buffers /\ LostBefore /\ wire["server"] \in Seq(Records)
  BY SequenceTypes, EndFacts DEF Structure, Orderly
<1>2. /\ failed' /\ stage' \in {"idle", "over"}
      /\ UNCHANGED <<established, executing, keepAlive, refused>>
  BY <1>1, EndCallFacts
<1>3. Buffers'
  BY <1>1, <1>2 DEF Buffers, Nothing, Handshaking
<1>4. LostBefore'
  BY <1>1, <1>2 DEF LostBefore, Handshaking
<1>5. OwnPieces' /\ Undisturbed'
  BY <1>2 DEF OwnPieces, Undisturbed
<1> QED
  BY <1>3, <1>4, <1>5 DEF Orderly

\* A call is given up after its time, which is something that happened.
LEMMA TimesOutKeepsOrder == ASSUME Structure, Orderly, TimesOut PROVE Orderly'
<1>1. /\ stage = "calling" /\ EndCall(Failure("timeout"), wire["server"]) /\ disturbed'
      /\ UNCHANGED <<state, toWrite, unfinished>>
  BY EndFacts DEF TimesOut, Incoming
<1>2. Failure("timeout").kind # "answer"
  BY DEF Failure
<1> QED
  BY <1>1, <1>2, OutcomeFacts, CallFails

\* While nothing has happened a call waits for something.
LEMMA NothingRegisteredFacts ==
    ASSUME Structure, Orderly, NothingRegistered
    PROVE  disturbed /\ (failed \/ received["client"])
<1>1. stage = "calling" /\ registered["client"] = {}
  BY DEF NothingRegistered
<1> QED
  BY <1>1, UndisturbedFacts DEF Orderly, LostBefore

\* A call is given up that waits for nothing.
LEMMA NothingRegisteredKeepsOrder == ASSUME Structure, Orderly, NothingRegistered PROVE Orderly'
<1>1. /\ stage = "calling" /\ EndCall(Failure("timeout"), wire["server"]) /\ disturbed'
      /\ UNCHANGED <<state, toWrite, unfinished>>
  BY EndFacts, NothingRegisteredFacts DEF NothingRegistered, Incoming, machine
<1>2. Failure("timeout").kind # "answer"
  BY DEF Failure
<1> QED
  BY <1>1, <1>2, OutcomeFacts, CallFails

\* connection_close is caught: that does not happen to a call on an undisturbed connection.
LEMMA ConnectionClosesKeepsOrder ==
    ASSUME Structure, Orderly, NEW e \in Ends, ConnectionCloses(e) PROVE Orderly'
<1>1. TypeOK /\ Buffers /\ LostBefore /\ OwnPieces /\ Undisturbed
  BY DEF Structure, Orderly
<1>2. PICK notified \in BOOLEAN :
        /\ notified => Incoming(e) # <<>>
        /\ received' = [received EXCEPT ![e] = @ \/ notified]
        /\ UnderWay(e, wire[e], IF notified THEN Rest(e) ELSE Incoming(e))
  BY DEF ConnectionCloses
<1>3. /\ RegShutdown(e, sent[e], received'[e])
      /\ UNCHANGED <<toWrite, unfinished, cache, stage, call, established, failed,
                     executing, keepAlive, refused, disturbed>>
  BY DEF ConnectionCloses, client, server
<1>4. /\ received' \in [Ends -> BOOLEAN] /\ received'[Other(e)] = received[Other(e)]
      /\ received'[e] \in BOOLEAN /\ sent[e] \in BOOLEAN
  BY <1>1, <1>2, EndFacts DEF TypeOK
<1>5. /\ state' \in [Ends -> States] /\ state'[e] \in {"SHUTDOWN", "EMPTY"}
      /\ registered'[e] # {} \/ received'[e]
      /\ \A x \in Ends \ {e} : state'[x] = state[x] /\ registered'[x] = registered[x]
  BY <1>1, <1>3, <1>4, RegShutdownFacts
<1>6. \A o \in Ends : wire'[o] = wire[o] \/ (wire[o] # <<>> /\ wire'[o] = Tail(wire[o]))
  BY <1>2, EndFacts DEF UnderWay, Rest, Incoming, Ends, Other
<1>7. Buffers'
  BY <1>1, <1>3, <1>5 DEF Buffers, Nothing, Handshaking, Ends
<1>8. LostBefore'
  BY <1>1, <1>3, <1>4, <1>5 DEF LostBefore, Handshaking, Ends, Other
<1>9. OwnPieces'
  BY <1>1, <1>3, <1>6, UnreadKeepsOwn
<1>10. Undisturbed'
  BY <1>1, <1>3, NoEarlyClose DEF Undisturbed
<1> QED
  BY <1>7, <1>8, <1>9, <1>10 DEF Orderly

\* SSL_shutdown() fails on a connection that was reset.
LEMMA ShutdownForgottenKeepsOrder ==
    ASSUME Structure, Orderly, NEW e \in Ends, ShutdownForgotten(e) PROVE Orderly'
<1>1. TypeOK /\ Buffers /\ LostBefore /\ OwnPieces /\ Undisturbed
  BY DEF Structure, Orderly
<1>2. /\ reset /\ received[e] /\ RegShutdown(e, TRUE, TRUE)
      /\ UNCHANGED <<toWrite, unfinished, cache, received, wire, stage, call, established, failed,
                     executing, keepAlive, refused, disturbed>>
  BY DEF ShutdownForgotten, net, client, server
<1>3. /\ state' \in [Ends -> States] /\ state'[e] = "EMPTY"
      /\ \A x \in Ends \ {e} : state'[x] = state[x] /\ registered'[x] = registered[x]
  BY <1>1, <1>2, RegShutdownFacts
<1>4. Buffers'
  BY <1>1, <1>2, <1>3 DEF Buffers, Nothing, Handshaking, Ends
<1>5. LostBefore'
  BY <1>1, <1>2, <1>3 DEF LostBefore, Handshaking, Ends
<1>6. OwnPieces'
  BY <1>1, <1>2, UnreadKeepsOwn
<1>7. Undisturbed'
  BY <1>1, <1>2 DEF Undisturbed, Healthy
<1> QED
  BY <1>4, <1>5, <1>6, <1>7 DEF Orderly

\* The server's connection is freed.
LEMMA FreedOrder ==
    ASSUME Structure, Orderly, executing = {},
           NEW out \in {wire["server"], Append(wire["server"], CloseNotify)}, FreeServer(out)
    PROVE  Buffers' /\ OwnPieces' /\ (received'["client"] = received["client"] => LostBefore')
<1>1. TypeOK /\ Buffers /\ LostBefore /\ OwnPieces /\ wire["server"] \in Seq(Records)
  BY SequenceTypes, EndFacts DEF Structure, Orderly
<1>2. out \in Seq(Records)
  BY <1>1, RecordFacts
<1>3. /\ \/ wire'["client"] = <<>> /\ wire'["server"] = <<>>
         \/ wire'["client"] = wire["client"] /\ wire'["server"] = out
      /\ state' \in [Ends -> States] /\ state'["server"] = "EMPTY"
      /\ state'["client"] = state["client"] /\ registered'["client"] = registered["client"]
      /\ UNCHANGED <<toWrite, unfinished, cache, stage, call, established, failed,
                     executing, keepAlive, refused>>
  <2>1. FreeServer(out) => UNCHANGED <<toWrite, unfinished, cache, client, server>>
    BY DEF FreeServer
  <2> QED
    BY <1>1, <1>2, <2>1, FreeServerFacts DEF client, server
<1>4. Buffers'
  BY <1>1, <1>3 DEF Buffers, Nothing, Handshaking, Ends
<1>5. OwnPieces'
  <2>1. \A o \in Ends : wire'[o] \in {wire[o], Append(wire[o], Flight), Append(wire[o], CloseNotify), <<>>}
    BY <1>3 DEF Ends
  <2> QED
    BY <1>1, <1>3, <2>1, UnreadKeepsOwn
<1>6. received'["client"] = received["client"] => LostBefore'
  BY <1>1, <1>3 DEF LostBefore, Handshaking
<1> QED
  BY <1>4, <1>5, <1>6

\* Nothing fails on a connection to which nothing has happened.
LEMMA FailsFacts ==
    ASSUME Structure, Orderly, NEW e \in Ends, Fails(e)
    PROVE  disturbed \/ ~(stage = "calling" \/ (stage = "idle" /\ ~refused))
<1>1. TypeOK /\ Closing /\ Placement
  BY DEF Structure
<1>2. /\ open[e] /\ (e = "server" => executing = {}) /\ (e = "client" => stage = "calling")
      /\ registered[e] # {}
      /\ \/ reset
         \/ Handshaking(e) /\ ~open[Other(e)]
         \/ state[e] = "SHUTDOWN" /\ flight[e] < Flights
         \/ state[e] = "WRITING" /\ (sent[e] \/ unfinished[e] = "moved")
  BY <1>1, ReactsFacts DEF Fails, EndOfStream
<1> SUFFICES ASSUME ~disturbed, stage = "calling" \/ (stage = "idle" /\ ~refused) PROVE FALSE
  OBVIOUS
<1>3. /\ Healthy
      /\ stage = "calling" => state["client"] \in {"CONNECTING", "WRITING", "READING"}
      /\ ~open["server"] => Answering \/ Resting
  BY UndisturbedFacts DEF Resting
<1>4. /\ ~reset /\ open["client"] /\ ~received[e] /\ unfinished[e] # "moved" /\ ~sent[e]
      /\ Handshaking(e) \/ flight[e] = Flights
  BY <1>1, <1>2, <1>3 DEF Healthy, InTurn, Closing, Ends
<1>5. state[e] = "SHUTDOWN" => ~(flight[e] < Flights)
  BY <1>1, <1>4, SessionAssumption DEF Handshaking, TypeOK
<1>6. Handshaking(e) => open[Other(e)]
  <2>1. CASE e = "client"
    BY <1>2, <1>3, <2>1, EndFacts DEF Answering, Resting, ClientAtWork, Handshaking
  <2>2. CASE e = "server"
    BY <1>4, <2>2, EndFacts
  <2> QED
    BY <2>1, <2>2 DEF Ends
<1> QED
  BY <1>2, <1>4, <1>5, <1>6

\* An operation of OpenSSL's fails: something had happened before.
LEMMA FailsKeepsOrder == ASSUME Structure, Orderly, NEW e \in Ends, Fails(e) PROVE Orderly'
<1>1. TypeOK /\ Placement /\ Undisturbed
  BY DEF Structure, Orderly
<1>2. /\ (e = "server" => executing = {}) /\ (e = "client" => stage = "calling")
      /\ Throws(e) /\ received' = received
  BY <1>1, ReactsFacts DEF Fails, Throws, tls
<1>3. disturbed \/ ~(stage = "calling" \/ (stage = "idle" /\ ~refused))
  BY FailsFacts
<1>4. CASE e = "server"
  <2>1. FreeServer(wire["server"]) /\ UNCHANGED <<stage, refused, failed, disturbed>>
    BY <1>2, <1>4 DEF Throws, FreeServer, client, server
  <2>2. Buffers' /\ OwnPieces' /\ LostBefore'
    BY <1>2, <1>4, <2>1, FreedOrder
  <2>3. Undisturbed'
    BY <1>1, <1>3, <2>1 DEF Undisturbed
  <2> QED
    BY <2>2, <2>3 DEF Orderly
<1>5. CASE e = "client"
  <2>1. /\ EndCall(Failure("error"), wire["server"]) /\ RegNothing("client", state["client"])
        /\ UNCHANGED <<toWrite, unfinished, disturbed>> /\ disturbed' /\ stage = "calling"
    BY <1>2, <1>3, <1>5, EndFacts DEF Throws, Incoming
  <2>2. state' = state
    BY <1>1, <2>1, EndFacts DEF RegNothing, TypeOK
  <2>3. Failure("error").kind # "answer"
    BY DEF Failure
  <2> QED
    BY <2>1, <2>2, <2>3, OutcomeFacts, CallFails
<1> QED
  BY <1>4, <1>5 DEF Ends

\* SSL_shutdown(): the server closes after its last response.
LEMMA ShutdownKeepsOrder ==
    ASSUME Structure, Orderly, NEW e \in Ends, Shutdown(e) PROVE Orderly'
<1>1. TypeOK /\ Placement /\ Buffers /\ LostBefore /\ OwnPieces /\ Undisturbed
  BY DEF Structure, Orderly
<1>2. /\ open[e] /\ (e = "server" => executing = {}) /\ (e = "client" => stage = "calling")
      /\ state[e] = "SHUTDOWN"
      /\ received' = [received EXCEPT ![e] = TRUE]
      /\ flight' = flight /\ Terminates(e, Append(wire[e], CloseNotify))
  BY <1>1, ReactsFacts DEF Shutdown
<1>3. CASE e = "client"
  <2>1. /\ RegNothing("client", state["client"])
        /\ UnderWay("client", Append(wire["client"], CloseNotify), wire["server"])
        /\ UNCHANGED <<toWrite, unfinished, cache, stage, call, established, failed,
                       executing, keepAlive, refused, disturbed>>
    BY <1>2, <1>3, EndFacts DEF Terminates, Incoming, client, server
  <2>2. state' = state /\ received'["client"]
    BY <1>1, <1>2, <1>3, <2>1, EndFacts DEF RegNothing, TypeOK
  <2>3. \A o \in Ends : wire'[o] \in {wire[o], Append(wire[o], CloseNotify)}
    BY <2>1 DEF UnderWay, Ends
  <2>4. Buffers'
    BY <1>1, <2>1, <2>2 DEF Buffers, Nothing, Handshaking
  <2>5. LostBefore'
    BY <1>1, <2>1, <2>2 DEF LostBefore, Handshaking
  <2>6. OwnPieces'
    BY <1>1, <2>1, <2>3, UnreadKeepsOwn
  <2>7. Undisturbed'
    BY <1>1, <1>2, <1>3, <2>1, UndisturbedFacts DEF Undisturbed
  <2> QED
    BY <2>4, <2>5, <2>6, <2>7 DEF Orderly
<1>4. CASE e = "server"
  <2>1. FreeServer(Append(wire["server"], CloseNotify))
    BY <1>2, <1>4 DEF Terminates
  <2>2. Append(wire["server"], CloseNotify) \in Seq(Records) /\ wire["server"] \in Seq(Records)
    BY <1>1, SequenceTypes, EndFacts, RecordFacts
  <2>3. received'["client"] = received["client"]
    BY <1>1, <1>2, <1>4, EndFacts DEF TypeOK
  <2>4. Buffers' /\ OwnPieces' /\ LostBefore'
    BY <1>2, <1>4, <2>1, <2>3, FreedOrder
  <2>5. /\ ~open'["server"] /\ open'["client"] = open["client"]
        /\ \/ wire["client"] # <<>>
           \/ reset' = reset /\ wire'["client"] = wire["client"]
              /\ wire'["server"] = Append(wire["server"], CloseNotify)
        /\ state'["server"] = "EMPTY" /\ state'["client"] = state["client"]
        /\ registered'["client"] = registered["client"]
        /\ UNCHANGED <<toWrite, unfinished, cache, stage, call, established, failed,
                       executing, keep, keepAlive, refused, disturbed>>
    BY <1>1, <2>1, <2>2, FreeServerFacts DEF client, server
  <2>6. Undisturbed'
    <3> SUFFICES ASSUME ~disturbed, stage = "calling" \/ (stage = "idle" /\ ~refused)
                 PROVE  stage = "calling" /\ Healthy' /\ Answering'
      BY <1>1, <2>5 DEF Undisturbed, Calling
    <3>1. /\ Healthy /\ (stage = "calling" => Calling) /\ (stage = "idle" => Resting)
      BY UndisturbedFacts
    <3>2. stage = "calling" /\ Answering /\ toWrite["server"] = <<>> /\ ~keepAlive
      BY <1>2, <1>4, <3>1
         DEF Calling, Greeting, Asking, Working, Answering, Resting, ServerReads, Handshaking
    <3>3. /\ reset' = reset /\ wire'["client"] = wire["client"]
          /\ wire'["server"] = Append(wire["server"], CloseNotify)
      BY <2>5, <3>2 DEF Answering, Quiet
    <3>4. Answering'
      <4>1. Covers("client") /\ wire'["server"] = Append(wire["server"], CloseNotify)
        BY <3>2, <3>3 DEF Answering
      <4>2. Covers("client")'
        BY <1>1, <2>5, <4>1, StreamUnread, EndFacts
      <4> QED
        BY <2>5, <3>2, <3>3, <4>2 DEF Answering, ClientAtWork, Quiet
    <3>5. Healthy'
      <4>1. InTurn'
        <5>1. \A x \in Ends : /\ NoFlight(wire[x]) => NoFlight(wire'[x])
                              /\ FlightFirst(wire[x]) => FlightFirst(wire'[x])
          BY <2>2, <3>3, FlightFacts, RecordFacts DEF Ends
        <5>2. \A x \in Ends : Handshaking(x) => Handshaking(x)'
          BY <1>2, <1>4, <2>5 DEF Handshaking, Ends
        <5> QED
          BY <1>2, <3>1, <5>1, <5>2, InTurnKept DEF Healthy
      <4> QED
        BY <2>3, <2>5, <3>1, <3>3, <4>1 DEF Healthy
    <3> QED
      BY <3>2, <3>4, <3>5
  <2> QED
    BY <2>4, <2>6 DEF Orderly
<1> QED
  BY <1>3, <1>4 DEF Ends

-----------------------------------------------------------------------------
(* The handshake keeps the order *)

\* A step of the handshake leaves it in turn, if nothing but flights is under way or the end
\* takes the last.
LEMMA HandshakeTurns ==
    ASSUME TypeOK, Sizes, NEW e \in Ends, Handshake(e), Level \/ AheadBy("client") \/ AheadBy("server"),
           \/ \A x \in Ends : NoFlight(wire[x]) => wire[x] = <<>>
           \/ AheadBy(Other(e)) /\ flight[Other(e)] = Flights
    PROVE  /\ Level' \/ AheadBy("client")' \/ AheadBy("server")'
           /\ AheadBy(Other(e)) /\ flight[Other(e)] = Flights => Reached(e) = Flights /\ wire'[e] = wire[e]
<1>1. PICK o \in Ends : o = Other(e) /\ e = Other(o) /\ o # e /\ \A x \in Ends : x = e \/ x = o
  BY EndFacts DEF Ends
<1>2. /\ flight'[e] = Reached(e) /\ flight'[o] = flight[o]
      /\ wire'[e] = IF Owes(e) /\ Room(e) THEN Append(wire[e], Flight) ELSE wire[e]
      /\ wire'[o] = IF Takes(e) THEN Tail(wire[o]) ELSE wire[o]
  BY <1>1, HandshakeFacts
<1>3. /\ flight[e] \in Nat /\ flight[o] \in Nat /\ flight[o] <= Flights /\ Flights \in Nat
      /\ wire[e] \in Seq(Records) /\ wire[o] \in Seq(Records)
  BY SequenceTypes, SessionAssumption DEF TypeOK
<1>4. /\ Level \/ AheadBy(e) \/ AheadBy(o)
      /\ \A x \in Ends : AheadBy(x)' => AheadBy("client")' \/ AheadBy("server")'
  <2>1. (e = "client" /\ o = "server") \/ (e = "server" /\ o = "client")
    BY <1>1, EndFacts DEF Ends
  <2> QED
    BY <2>1 DEF Ends
<1>5. /\ Takes(e) <=> Turn(flight[e]) # e /\ wire[o] # <<>>
      /\ Taken(e) = IF Takes(e) THEN flight[e] + 1 ELSE flight[e]
      /\ Owes(e) <=> Taken(e) < Flights /\ Turn(Taken(e)) = e
      /\ Reached(e) = IF Owes(e) /\ Room(e) THEN Taken(e) + 1 ELSE Taken(e)
  BY <1>1, <1>3 DEF Takes, Taken, Owes, Reached, Incoming
<1>6. FlightFirst(Append(<<>>, Flight)) /\ NoFlight(<<>>)
  BY FlightFacts
<1>7. /\ AheadBy(e) <=> /\ flight[e] = flight[o] + 1 /\ Turn(flight[o]) = e
                        /\ FlightFirst(wire[e]) /\ NoFlight(wire[o])
      /\ AheadBy(o) <=> /\ flight[o] = flight[e] + 1 /\ Turn(flight[e]) = o
                        /\ FlightFirst(wire[o]) /\ NoFlight(wire[e])
      /\ AheadBy(e)' <=> /\ flight'[e] = flight'[o] + 1 /\ Turn(flight'[o]) = e
                         /\ FlightFirst(wire'[e]) /\ NoFlight(wire'[o])
  BY <1>1 DEF AheadBy
<1>8. /\ Level <=> flight[e] = flight[o] /\ NoFlight(wire[e]) /\ NoFlight(wire[o])
      /\ Level' <=> flight'[e] = flight'[o] /\ NoFlight(wire'[e]) /\ NoFlight(wire'[o])
  <2>1. (e = "client" /\ o = "server") \/ (e = "server" /\ o = "client")
    BY <1>1, EndFacts DEF Ends
  <2> QED
    BY <2>1 DEF Level, Ends
<1>9. \/ \A x \in Ends : NoFlight(wire[x]) => wire[x] = <<>>
      \/ AheadBy(o) /\ flight[o] = Flights
  BY <1>1
<1>10. ASSUME Level \/ AheadBy(e)
       PROVE  ~AheadBy(o) /\ wire[o] = <<>> /\ (Level => wire[e] = <<>>)
  <2>1. ~AheadBy(o)
    BY <1>3, <1>7, <1>8, <1>10
  <2> QED
    BY <1>7, <1>8, <1>9, <1>10, <2>1
<1>11. CASE Level
  <2>1. flight[e] = flight[o] /\ ~Takes(e) /\ Taken(e) = flight[e]
    BY <1>5, <1>8, <1>10, <1>11
  <2>2. Owes(e) /\ Room(e) => AheadBy(e)'
    BY <1>2, <1>3, <1>5, <1>6, <1>7, <1>10, <1>11, <2>1
  <2>3. ~(Owes(e) /\ Room(e)) => Level'
    BY <1>2, <1>3, <1>5, <1>8, <1>11, <2>1
  <2> QED
    BY <1>1, <1>4, <1>10, <1>11, <2>2, <2>3
<1>12. CASE AheadBy(e)
  <2>1. Turn(flight[e]) # e /\ ~Takes(e) /\ Taken(e) = flight[e]
    BY <1>3, <1>5, <1>7, <1>10, <1>12, TurnFacts
  <2>2. AheadBy(e)'
    BY <1>2, <1>3, <1>5, <1>7, <1>12, <2>1
  <2> QED
    BY <1>1, <1>4, <1>10, <1>12, <2>2
<1>13. CASE AheadBy(o)
  <2>1. Takes(e) /\ Taken(e) = flight[o]
    BY <1>1, <1>5, <1>7, <1>13 DEF FlightFirst
  <2>2. NoFlight(Tail(wire[o]))
    BY <1>3, <1>7, <1>13, FlightFacts DEF FlightFirst
  <2>3. Owes(e) /\ Room(e) => flight[o] # Flights
    BY <1>3, <1>5, <2>1
  <2>4. ASSUME Owes(e) /\ Room(e) PROVE AheadBy(e)'
    <3>1. wire[e] = <<>>
      BY <1>7, <1>9, <1>13, <2>3, <2>4
    <3>2. flight'[e] = flight'[o] + 1 /\ Turn(flight'[o]) = e
      BY <1>2, <1>3, <1>5, <2>1, <2>4
    <3> QED
      BY <1>2, <1>6, <1>7, <2>1, <2>2, <2>4, <3>1, <3>2
  <2>5. ~(Owes(e) /\ Room(e)) => Level'
    BY <1>2, <1>3, <1>5, <1>7, <1>8, <1>13, <2>1, <2>2
  <2>6. flight[o] = Flights => Reached(e) = Flights /\ wire'[e] = wire[e]
    BY <1>2, <1>5, <2>1, <2>3
  <2> QED
    BY <1>1, <1>4, <2>4, <2>5, <2>6
<1> QED
  BY <1>4, <1>11, <1>12, <1>13

\* Where a handshake goes on while nothing has happened.
LEMMA HandshakeOrder ==
    ASSUME Structure, Orderly, ~disturbed, NEW e \in Ends, Handshake(e),
           stage = "calling" \/ (stage = "idle" /\ ~refused)
    PROVE  /\ stage = "calling" /\ Healthy
           /\ Greeting \/ (e = "server" /\ Asking /\ Reached(e) = Flights)
           /\ Level' \/ AheadBy("client")' \/ AheadBy("server")'
           /\ NoNotify(wire'["client"])
           /\ Asking /\ UNCHANGED <<toWrite, call>> => Covers("server")'
<1>1. /\ TypeOK /\ Sizes /\ Closing /\ Handshaking(e) /\ open[e]
      /\ (e = "server" => executing = {}) /\ (e = "client" => stage = "calling")
      /\ UNCHANGED cache
  BY ReactsFacts DEF Structure, Handshake
<1>2. /\ Healthy /\ InTurn /\ OwnResponse /\ (~refused => OwnRequest) /\ OneAfterAnother
      /\ (stage = "calling" => Calling) /\ (stage = "idle" => Resting)
  BY UndisturbedFacts DEF Healthy
<1>3. stage = "calling" /\ (Greeting \/ (e = "server" /\ Asking))
  BY <1>1, <1>2 DEF Calling, Asking, Working, Answering, Resting, ClientAtWork, Handshaking, Ends
<1>4. wire["client"] \in Seq(Records) /\ wire["server"] \in Seq(Records)
  BY <1>1, SequenceTypes, EndFacts
<1>5. /\ wire'["client"] \in {wire["client"], Append(wire["client"], Flight)}
         \/ (wire["client"] # <<>> /\ wire'["client"] = Tail(wire["client"]))
  BY <1>1, HandshakeFacts, EndFacts DEF Takes, Incoming, Ends, Other
<1>6. NoNotify(wire'["client"])
  <2>1. NoNotify(wire["client"])
    BY <1>2 DEF Healthy
  <2>2. NoNotify(Append(wire["client"], Flight))
    BY <1>4, <2>1, NotifyFacts, RecordFacts
  <2>3. wire["client"] # <<>> => NoNotify(Tail(wire["client"]))
    BY <1>4, <2>1, NotifyFacts
  <2> QED
    BY <1>5, <2>1, <2>2, <2>3
<1>7. CASE Greeting
  <2>1. \A x \in Ends : NoFlight(wire[x]) => wire[x] = <<>>
    <3>1. NoMessage("client") /\ NoMessage("server")
      BY <1>2, <1>7 DEF Greeting, OneAfterAnother
    <3>2. \A i \in DOMAIN wire["client"] : wire["client"][i] \notin Pieces
      BY <3>1, EndFacts DEF NoMessage, Absent
    <3>3. \A i \in DOMAIN wire["server"] : wire["server"][i] \notin Pieces
      BY <3>1, EndFacts DEF NoMessage, Absent
    <3>4. NoNotify(wire["client"]) /\ NoNotify(wire["server"])
      BY <1>1, <1>2, <1>7 DEF Healthy, Closing, Greeting, ServerReads
    <3>5. NoFlight(wire["client"]) => wire["client"] = <<>>
      BY <1>4, <3>2, <3>4, NothingLeft
    <3>6. NoFlight(wire["server"]) => wire["server"] = <<>>
      BY <1>4, <3>3, <3>4, NothingLeft
    <3> QED
      BY <3>5, <3>6 DEF Ends
  <2>2. Level' \/ AheadBy("client")' \/ AheadBy("server")'
    BY <1>1, <1>2, <2>1, HandshakeTurns DEF InTurn
  <2> QED
    BY <1>2, <1>3, <1>6, <1>7, <2>2 DEF Greeting, Asking
<1>8. CASE e = "server" /\ Asking
  <2>1. AheadBy("client") /\ flight["client"] = Flights
    <3>1. /\ flight["client"] = Flights /\ flight["server"] < Flights
          /\ flight["server"] \in Nat
      BY <1>1, <1>2, <1>8, EndFacts
         DEF InTurn, Asking, ClientAtWork, Handshaking, Sizes, TypeOK
    <3> QED
      BY <1>2, <3>1, SessionAssumption, EndFacts DEF InTurn, Level, AheadBy
  <2>2. /\ Level' \/ AheadBy("client")' \/ AheadBy("server")'
        /\ Reached(e) = Flights /\ wire'["server"] = wire["server"]
    BY <1>1, <1>2, <1>8, <2>1, HandshakeTurns, EndFacts DEF InTurn
  <2>3. wire["client"] # <<>> => wire["client"][1] \notin Pieces
    BY <2>1, RecordFacts DEF AheadBy, FlightFirst
  <2>4. Covers("server") /\ UNCHANGED <<toWrite, call>> => Covers("server")'
    <3>1. wire'["client"] \in {wire["client"], Append(wire["client"], Flight), Append(wire["client"], CloseNotify)}
          \/ (wire["client"] # <<>> /\ wire'["client"] = Tail(wire["client"]) /\ wire["client"][1] \notin Pieces)
      BY <1>5, <2>3
    <3> QED
      BY <1>1, <3>1, StreamUnread, EndFacts
  <2> QED
    BY <1>2, <1>3, <1>6, <1>8, <2>2, <2>4 DEF Asking
<1> QED
  BY <1>3, <1>7, <1>8

\* SSL_accept() or SSL_connect() waits for the next flight.
LEMMA HandshakeWaitsKeepsOrder ==
    ASSUME Structure, Orderly, NEW e \in Ends, HandshakeWaits(e) PROVE Orderly'
<1>1. TypeOK /\ Sizes /\ Buffers /\ LostBefore /\ OwnPieces /\ Undisturbed
  BY DEF Structure, Orderly
<1>2. /\ Handshake(e) /\ Reached(e) < Flights
      /\ UNCHANGED <<toWrite, unfinished, cache, open, reset, sent, received,
                     keep, timed, stage, call, result, established, failed,
                     executing, keepAlive, refused, disturbed>>
  BY DEF HandshakeWaits, Handshake, client, server
<1>3. /\ state' = state /\ registered'[e] # {}
      /\ \A x \in Ends \ {e} : registered'[x] = registered[x]
  <2>1. PICK ev \in {"INPUT", "OUTPUT"} : Reg(e, state[e], ev)
    BY DEF HandshakeWaits
  <2> QED
    BY <1>1, <2>1 DEF Reg, TypeOK
<1>4. \A o \in Ends :
         wire'[o] \in {wire[o], Append(wire[o], Flight)} \/ (wire[o] # <<>> /\ wire'[o] = Tail(wire[o]))
  BY <1>1, <1>2, HandshakeFacts, EndFacts DEF Takes, Incoming, Ends, Other
<1>5. Buffers'
  BY <1>1, <1>2, <1>3 DEF Buffers, Nothing, Handshaking
<1>6. LostBefore'
  BY <1>1, <1>2, <1>3 DEF LostBefore, Handshaking, Ends
<1>7. OwnPieces'
  BY <1>1, <1>2, <1>4, UnreadKeepsOwn
<1>8. Undisturbed'
  <2> SUFFICES ASSUME ~disturbed, stage = "calling" \/ (stage = "idle" /\ ~refused)
               PROVE  stage = "calling" /\ Healthy' /\ Greeting'
    BY <1>1, <1>2 DEF Undisturbed, Calling
  <2>1. /\ stage = "calling" /\ Healthy /\ Greeting
        /\ Level' \/ AheadBy("client")' \/ AheadBy("server")'
        /\ NoNotify(wire'["client"])
    BY <1>1, <1>2, HandshakeOrder, SessionAssumption
  <2>2. Greeting'
    BY <1>2, <1>3, <2>1 DEF Greeting, ServerReads, Handshaking, Ends
  <2>3. \A x \in Ends : Handshaking(x)' \/ flight'[x] = Flights
    <3>1. Handshaking("client") /\ Handshaking(e)
      BY <1>2, <2>1 DEF Greeting, Handshaking, Handshake
    <3>2. flight'[Other(e)] = flight[Other(e)]
      BY <1>1, <1>2, HandshakeFacts
    <3> QED
      BY <1>3, <2>1, <3>1, <3>2 DEF Healthy, InTurn, Handshaking, Ends, Other
  <2>4. Healthy'
    BY <1>2, <2>1, <2>3 DEF Healthy, InTurn
  <2> QED
    BY <2>1, <2>2, <2>4
<1> QED
  BY <1>5, <1>6, <1>7, <1>8 DEF Orderly

\* accept_succeed(): the server is ready for the request.
LEMMA AcceptedKeepsOrder == ASSUME Structure, Orderly, Accepted PROVE Orderly'
<1>1. TypeOK /\ Sizes /\ Buffers /\ LostBefore /\ OwnPieces /\ Undisturbed
  BY DEF Structure, Orderly
<1>2. /\ Handshake("server") /\ Reached("server") = Flights /\ Handshaking("server")
      /\ UNCHANGED <<toWrite, unfinished, cache, open, reset, sent, received,
                     keep, timed, stage, call, result, established, failed,
                     executing, keepAlive, refused, disturbed>>
  BY DEF Accepted, Handshake, client, server
<1>3. /\ state' \in [Ends -> States] /\ state'["server"] = "READING"
      /\ state'["client"] = state["client"]
      /\ registered'["client"] = registered["client"]
  BY <1>1, RegFacts, EndFacts DEF Accepted, RegRecv, States
<1>4. /\ \A o \in Ends : wire'[o] \in {wire[o], Append(wire[o], Flight)}
                         \/ (wire[o] # <<>> /\ wire'[o] = Tail(wire[o]))
      /\ flight'["server"] = Flights /\ flight'["client"] = flight["client"]
  BY <1>1, <1>2, HandshakeFacts, EndFacts DEF Takes, Incoming, Ends, Other
<1>5. Buffers'
  BY <1>1, <1>2, <1>3 DEF Buffers, Nothing, Handshaking, Ends
<1>6. LostBefore'
  BY <1>1, <1>2, <1>3 DEF LostBefore, Handshaking
<1>7. OwnPieces'
  BY <1>1, <1>2, <1>4, UnreadKeepsOwn
<1>8. Undisturbed'
  <2> SUFFICES ASSUME ~disturbed, stage = "calling" \/ (stage = "idle" /\ ~refused)
               PROVE  stage = "calling" /\ Healthy' /\ Calling'
    BY <1>1, <1>2 DEF Undisturbed
  <2>1. /\ stage = "calling" /\ Healthy /\ (Greeting \/ Asking)
        /\ Level' \/ AheadBy("client")' \/ AheadBy("server")'
        /\ NoNotify(wire'["client"])
        /\ Asking => Covers("server")'
    BY <1>1, <1>2, HandshakeOrder, EndFacts
  <2>2. Calling'
    <3>1. CASE Greeting
      BY <1>2, <1>3, <3>1 DEF Greeting, ServerReads, Calling
    <3>2. CASE Asking
      BY <1>2, <1>3, <2>1, <3>2 DEF Asking, ClientAtWork, ServerReads, Calling
    <3> QED
      BY <2>1, <3>1, <3>2
  <2>3. \A x \in Ends : Handshaking(x)' \/ flight'[x] = Flights
    BY <1>3, <1>4, <2>1, EndFacts DEF Healthy, InTurn, Handshaking, Ends
  <2>4. Healthy'
    BY <1>2, <2>1, <2>3 DEF Healthy, InTurn
  <2> QED
    BY <2>1, <2>2, <2>4
<1> QED
  BY <1>5, <1>6, <1>7, <1>8 DEF Orderly

\* connect_succeed(): the request is put to be written, behind nothing else.
LEMMA ConnectedKeepsOrder == ASSUME Structure, Orderly, Connected PROVE Orderly'
<1>1. TypeOK /\ Sizes /\ Buffers /\ LostBefore /\ OwnPieces /\ Undisturbed /\ call \in 0..MaxCalls
  BY SequenceTypes DEF Structure, Orderly
<1>2. /\ Handshake("client") /\ Reached("client") = Flights /\ Handshaking("client")
      /\ stage = "calling" /\ ~established /\ established' = TRUE
      /\ UNCHANGED <<cache, open, reset, sent, received, keep, timed, stage, call, result, failed,
                     executing, keepAlive, refused, disturbed>>
  BY <1>1 DEF Connected, Handshake, Reacts, LostBefore, server
<1>3. /\ state' \in [Ends -> States] /\ state'["client"] = "WRITING"
      /\ state'["server"] = state["server"]
      /\ registered'["client"] # {} /\ registered'["server"] = registered["server"]
  BY <1>1, RegFacts, EndFacts DEF Connected, RegSend, States
<1>4. /\ toWrite'["client"] = Message(call) /\ toWrite'["client"] # <<>>
      /\ unfinished'["client"] = "none"
      /\ toWrite'["server"] = toWrite["server"] /\ unfinished'["server"] = unfinished["server"]
  <2>1. unfinished["client"] = "none" /\ Prepare("client", Message(call))
    BY <1>1, <1>2, EndFacts DEF Buffers, Nothing, Connected, RegSend
  <2> QED
    BY <1>1, <2>1, PrepareFacts, EndFacts
<1>5. /\ \A o \in Ends : wire'[o] \in {wire[o], Append(wire[o], Flight)}
                         \/ (wire[o] # <<>> /\ wire'[o] = Tail(wire[o]))
      /\ flight'["client"] = Flights /\ flight'["server"] = flight["server"]
  BY <1>1, <1>2, HandshakeFacts, EndFacts DEF Takes, Incoming, Ends, Other
<1>6. Buffers'
  BY <1>1, <1>2, <1>3, <1>4 DEF Buffers, Nothing, Handshaking, Ends
<1>7. LostBefore'
  BY <1>2, <1>3 DEF LostBefore, Handshaking
<1>8. ASSUME ~failed
      PROVE  /\ executing = {} /\ NoMessage("client") /\ NoMessage("client")'
             /\ InOrder("client")' /\ InOrder("server")' /\ Covers("server")'
  <2>1. executing = {} /\ NoMessage("client") /\ NoMessage("server")
    BY <1>1, <1>2, <1>8 DEF OwnPieces, OneAfterAnother
  <2>2. NoMessage("client")'
    BY <1>1, <1>2, <1>4, <1>5, <2>1, StreamUnread, EndFacts
  <2>3. /\ cache["client"] \in Seq(Pieces) /\ toWrite'["server"] \in Seq(Pieces)
        /\ cache["server"] \in Seq(Pieces) /\ toWrite["client"] \in Seq(Pieces)
        /\ wire'["server"] \in Seq(Records) /\ wire'["client"] \in Seq(Records)
    BY <1>1, <1>2, <1>4, SequenceTypes, HandshakeFacts, EndFacts
  <2>4. InOrder("client")'
    <3>1. Absent(cache["client"], wire'["server"], toWrite'["server"])
      BY <1>2, <2>2, EndFacts DEF NoMessage
    <3>2. Ordered(cache["client"], wire'["server"], toWrite'["server"], call)
      BY <1>1, <2>3, <3>1, AbsentFacts
    <3> QED
      BY <1>2, <3>2, EndFacts DEF InOrder
  <2>5. InOrder("server")' /\ Covers("server")'
    <3>1. Absent(cache["server"], wire["client"], toWrite["client"])
      BY <2>1, EndFacts DEF NoMessage
    <3>2. Absent(cache["server"], wire'["client"], toWrite["client"])
      <4>1. /\ Flight \in Records \ Pieces /\ wire["client"] \in Seq(Records)
            /\ wire'["client"] \in {wire["client"], Append(wire["client"], Flight)}
               \/ (wire["client"] # <<>> /\ wire'["client"] = Tail(wire["client"]))
        BY <1>1, <1>5, SequenceTypes, RecordFacts, EndFacts
      <4> QED
        BY <1>1, <2>3, <3>1, <4>1, PutFacts, TakeFacts
    <3>3. /\ Ordered(cache["server"], wire'["client"], Message(call), call)
          /\ Covered(cache["server"], wire'["client"], Message(call))
      BY <1>1, <2>3, <3>2, AbsentFacts
    <3> QED
      BY <1>2, <1>4, <3>3, EndFacts DEF InOrder, Covers
  <2> QED
    BY <2>1, <2>2, <2>4, <2>5
<1>9. OwnPieces'
  BY <1>2, <1>8 DEF OwnPieces, OwnResponse, OwnRequest, OneAfterAnother
<1>10. Undisturbed'
  <2> SUFFICES ASSUME ~disturbed PROVE ~failed /\ Healthy' /\ Asking'
    BY <1>2 DEF Undisturbed, Calling
  <2>1. /\ ~failed /\ Healthy /\ Greeting
        /\ Level' \/ AheadBy("client")' \/ AheadBy("server")'
        /\ NoNotify(wire'["client"])
    BY <1>1, <1>2, HandshakeOrder, UndisturbedFacts, EndFacts
  <2>2. Asking'
    BY <1>2, <1>3, <1>4, <1>8, <2>1 DEF Greeting, Asking, ClientAtWork, ServerReads, Handshaking
  <2>3. \A x \in Ends : Handshaking(x)' \/ flight'[x] = Flights
    BY <1>3, <1>5, <2>1, EndFacts DEF Healthy, InTurn, Handshaking, Ends
  <2>4. Healthy'
    BY <1>2, <1>4, <2>1, <2>3 DEF Healthy, InTurn
  <2> QED
    BY <2>1, <2>2, <2>4
<1> QED
  BY <1>6, <1>7, <1>9, <1>10 DEF Orderly

-----------------------------------------------------------------------------
(* Writing keeps the order *)

\* What is written of a message stays in order, and the call goes on where it was.
LEMMA WritesKeepOrder ==
    ASSUME Structure, Orderly, NEW e \in Ends, Writes(e), NEW n \in 0..Len(toWrite[e]), n <= Free(e),
           UnderWay(e, wire[e] \o SubSeq(toWrite[e], 1, n), Incoming(e)),
           toWrite' = [toWrite EXCEPT ![e] = SubSeq(toWrite[e], n + 1, Len(toWrite[e]))],
           unfinished' \in [Ends -> {"none", "same", "moved"}], unfinished'[e] # "moved",
           unfinished'[Other(e)] = unfinished[Other(e)],
           state'[Other(e)] = state[Other(e)], ~Handshaking(e)'
    PROVE  /\ OwnPieces'
           /\ ~disturbed /\ (stage = "calling" \/ (stage = "idle" /\ ~refused)) =>
                 /\ stage = "calling" /\ Healthy'
                 /\ IF e = "client" THEN Asking /\ Covers("server")' ELSE Answering /\ Covers("client")'
<1>1. TypeOK /\ OwnPieces
  BY DEF Structure, Orderly
<1>2. PICK o \in Ends : o = Other(e) /\ e = Other(o) /\ o # e /\ \A x \in Ends : x = e \/ x = o
  BY EndFacts DEF Ends
<1>2a. PICK out : out = wire[e] \o SubSeq(toWrite[e], 1, n)
  OBVIOUS
<1>3. /\ wire'[e] = wire[e] \o SubSeq(toWrite[e], 1, n) /\ wire'[o] = wire[o]
      /\ open[e] /\ state[e] = "WRITING"
      /\ (e = "server" => executing = {}) /\ (e = "client" => stage = "calling")
      /\ UNCHANGED <<open, reset, cache, flight, sent, received, keep, timed, stage, call, result,
                     established, failed, executing, keepAlive, refused, disturbed>>
  <2>1. Writes(e) /\ n <= Free(e) /\ UnderWay(e, out, Incoming(e))
    BY <1>2a
  <2>2. /\ wire'[e] = out /\ wire'[Other(e)] = wire[Other(e)]
        /\ open[e] /\ state[e] = "WRITING"
        /\ (e = "server" => executing = {}) /\ (e = "client" => stage = "calling")
        /\ UNCHANGED <<open, reset, cache, flight, sent, received, keep, timed, stage, call, result,
                       established, failed, executing, keepAlive, refused, disturbed>>
    BY ONLY ZenonT(40), Structure, <1>2a, <2>1, WritesFacts, e \in Ends, n \in 0..Len(toWrite[e])
  <2> QED
    BY <1>2, <1>2a, <2>2
<1>4. /\ toWrite'[e] = SubSeq(toWrite[e], n + 1, Len(toWrite[e])) /\ toWrite'[o] = toWrite[o]
  BY <1>1, <1>2 DEF TypeOK
<1>5. /\ InOrder(o) => InOrder(o)'
      /\ NoMessage(o) => NoMessage(o)'
      /\ InOrder(o) /\ Covers(o) => Covers(o)'
      /\ NoFlight(wire[e]) => NoFlight(wire'[e])
      /\ FlightFirst(wire[e]) => FlightFirst(wire'[e])
      /\ NoNotify(wire[e]) => NoNotify(wire'[e])
  BY <1>1, <1>2, <1>3, <1>4, StreamWritten
<1>6. /\ InOrder(e) => InOrder(e)'
      /\ NoMessage(e) => NoMessage(e)'
  BY <1>1, <1>2, <1>3, <1>4, StreamUnread
<1>7. OwnPieces'
  <2>1. \A x \in Ends : (InOrder(x) => InOrder(x)') /\ (NoMessage(x) => NoMessage(x)')
    BY <1>2, <1>5, <1>6
  <2> QED
    BY <1>1, <1>3, <2>1, KeptOwn
<1>8. ASSUME ~disturbed, stage = "calling" \/ (stage = "idle" /\ ~refused)
      PROVE  /\ stage = "calling" /\ Healthy'
             /\ IF e = "client" THEN Asking /\ Covers("server")' ELSE Answering /\ Covers("client")'
  <2>1. /\ Healthy /\ (stage = "calling" => Calling) /\ (stage = "idle" => Resting)
        /\ OwnResponse /\ (~refused => OwnRequest)
    BY <1>8, UndisturbedFacts
  <2>1a. Healthy'
    <3>1. NoNotify(wire'["client"])
      BY <1>2, <1>3, <1>5, <2>1, EndFacts DEF Healthy
    <3>2. InTurn'
      <4>1. \A x \in Ends : /\ NoFlight(wire[x]) => NoFlight(wire'[x])
                            /\ FlightFirst(wire[x]) => FlightFirst(wire'[x])
        BY <1>2, <1>3, <1>5
      <4>2. \A x \in Ends : Handshaking(x) => Handshaking(x)'
        BY <1>2, <1>3 DEF Handshaking
      <4> QED
        BY <1>3, <2>1, <4>1, <4>2, InTurnKept DEF Healthy
    <3>3. /\ unfinished'["client"] # "moved" /\ (open["server"] => unfinished'["server"] # "moved")
      BY <1>2, <2>1, EndFacts DEF Healthy
    <3> QED
      BY <1>3, <2>1, <3>1, <3>2, <3>3 DEF Healthy
  <2>2. CASE e = "client"
    <3>1. Asking /\ stage = "calling" /\ o = "server"
      BY <1>2, <1>3, <2>1, <2>2, EndFacts
         DEF Calling, Greeting, Working, Answering, ClientAtWork, Quiet
    <3>2. InOrder(o) /\ Covers(o)
      BY <2>1, <3>1 DEF OwnRequest, Asking
    <3>3. Covers(o)'
      BY <1>5, <3>2
    <3>4. Covers("server")'
      BY <3>1, <3>3
    <3> QED
      BY <2>1a, <2>2, <3>1, <3>4
  <2>3. CASE e = "server"
    <3>1. Answering /\ stage = "calling" /\ o = "client"
      <4>1. state["server"] = "WRITING" /\ executing = {} /\ o = "client"
        BY <1>2, <1>3, <2>3, EndFacts
      <4> QED
        BY <1>8, <2>1, <4>1 DEF Calling, Greeting, Asking, Working, Resting, ServerReads, Handshaking
    <3>2. InOrder(o) /\ Covers(o)
      BY <2>1, <3>1 DEF OwnResponse, Answering
    <3>3. Covers(o)'
      BY <1>5, <3>2
    <3>4. Covers("client")'
      BY <3>1, <3>3
    <3> QED
      BY <2>1a, <2>3, <3>1, <3>4, EndFacts
  <2> QED
    BY <1>8, <2>2, <2>3 DEF Ends
<1> QED
  BY <1>7, <1>8

\* SSL_write() has written a part of a message.
LEMMA WriteWaitsKeepsOrder ==
    ASSUME Structure, Orderly, NEW e \in Ends, WriteWaits(e) PROVE Orderly'
<1>1. TypeOK /\ Sizes /\ Buffers /\ LostBefore /\ Undisturbed /\ toWrite[e] \in Seq(Pieces)
  BY SequenceTypes DEF Structure, Orderly
<1>2. /\ Free(e) \in 0..Len(toWrite[e]) /\ Free(e) < Len(toWrite[e])
  BY <1>1, SessionAssumption DEF WriteWaits, Free, TypeOK, Sizes
<1>3. PICK n \in 0..Len(toWrite[e]) : n = Free(e)
  BY <1>2
<1>4. /\ Writes(e) /\ UnderWay(e, wire[e] \o SubSeq(toWrite[e], 1, n), Incoming(e))
      /\ toWrite' = [toWrite EXCEPT ![e] = SubSeq(toWrite[e], n + 1, Len(toWrite[e]))]
      /\ unfinished' = [unfinished EXCEPT ![e] = "same"]
      /\ Reg(e, "WRITING", "OUTPUT")
  BY <1>3 DEF WriteWaits
<1>5. /\ open[e] /\ state[e] = "WRITING"
      /\ (e = "server" => executing = {}) /\ (e = "client" => stage = "calling")
      /\ UNCHANGED <<open, received, keep, stage, call, established, failed,
                     executing, keepAlive, refused, disturbed>>
  BY ReactsFacts DEF Structure, Writes, WriteWaits, tls, client, server
<1>6. /\ state' \in [Ends -> States] /\ state'[e] = "WRITING" /\ registered'[e] = {"OUTPUT"}
      /\ \A x \in Ends \ {e} : state'[x] = state[x] /\ registered'[x] = registered[x]
  BY <1>1, <1>4, RegFacts DEF States
<1>7. /\ unfinished' \in [Ends -> {"none", "same", "moved"}] /\ unfinished'[e] = "same"
      /\ unfinished'[Other(e)] = unfinished[Other(e)] /\ toWrite'[Other(e)] = toWrite[Other(e)]
      /\ state'[Other(e)] = state[Other(e)] /\ ~Handshaking(e)'
  BY <1>1, <1>4, <1>6, EndFacts DEF TypeOK, Handshaking
<1>8. toWrite'[e] # <<>>
  <2>1. Len(SubSeq(toWrite[e], n + 1, Len(toWrite[e]))) = Len(toWrite[e]) - n
    BY <1>1, RestFacts
  <2>2. toWrite'[e] = SubSeq(toWrite[e], n + 1, Len(toWrite[e]))
    BY <1>1, <1>4 DEF TypeOK
  <2> QED
    <3>1. Len(toWrite'[e]) # 0
      BY <1>1, <1>2, <1>3, <2>1, <2>2
    <3>2. Len(<<>>) = 0
      OBVIOUS
    <3> QED
      BY <3>1, <3>2
<1>9. /\ OwnPieces'
      /\ ~disturbed /\ (stage = "calling" \/ (stage = "idle" /\ ~refused)) =>
            /\ stage = "calling" /\ Healthy'
            /\ IF e = "client" THEN Asking /\ Covers("server")' ELSE Answering /\ Covers("client")'
  <2>1. n <= Free(e) /\ unfinished'[e] # "moved"
    BY <1>2, <1>3, <1>7
  <2> QED
    BY <1>4, <1>7, <2>1, WritesKeepOrder
<1>10. Buffers'
  BY <1>1, <1>5, <1>6, <1>7 DEF Buffers, Nothing, Handshaking, Ends, Other
<1>11. LostBefore'
  BY <1>1, <1>5, <1>6 DEF LostBefore, Handshaking, Ends
<1>12. Undisturbed'
  <2> SUFFICES ASSUME ~disturbed, stage = "calling" \/ (stage = "idle" /\ ~refused)
               PROVE  stage = "calling" /\ Healthy' /\ Calling'
    BY <1>1, <1>5 DEF Undisturbed
  <2>1. CASE e = "client"
    <3>1. Asking'
      BY <1>5, <1>6, <1>7, <1>8, <1>9, <2>1, EndFacts DEF Asking, ClientAtWork, ServerReads, Handshaking
    <3> QED
      BY <1>9, <2>1, <3>1 DEF Calling
  <2>2. CASE e = "server"
    <3>1. wire'["client"] = wire["client"]
      BY <1>4, <2>2, EndFacts DEF UnderWay, Incoming
    <3>2. Answering'
      BY <1>5, <1>6, <1>7, <1>8, <1>9, <2>2, <3>1, EndFacts DEF Answering, ClientAtWork, Quiet
    <3> QED
      BY <1>9, <2>2, <3>2 DEF Calling
  <2> QED
    BY <2>1, <2>2 DEF Ends
<1> QED
  BY <1>9, <1>10, <1>11, <1>12 DEF Orderly

\* SSL_write() has written the rest of a message.
LEMMA WriteSucceedsKeepsOrder ==
    ASSUME Structure, Orderly, NEW e \in Ends, WriteSucceeds(e) PROVE Orderly'
<1>1. TypeOK /\ Sizes /\ Buffers /\ LostBefore /\ Undisturbed /\ toWrite[e] \in Seq(Pieces)
  BY SequenceTypes DEF Structure, Orderly
<1>2. Len(toWrite[e]) \in 0..Len(toWrite[e])
  BY <1>1
<1>3. PICK n \in 0..Len(toWrite[e]) : n = Len(toWrite[e])
  BY <1>2
<1>4. SubSeq(toWrite[e], 1, n) = toWrite[e] /\ SubSeq(toWrite[e], n + 1, Len(toWrite[e])) = <<>>
  <2>1. SubSeq(toWrite[e], 1, n) = toWrite[e]
    BY <1>1, <1>3
  <2>2. Len(SubSeq(toWrite[e], n + 1, Len(toWrite[e]))) = 0
    BY <1>1, <1>3, RestFacts
  <2>3. SubSeq(toWrite[e], n + 1, Len(toWrite[e])) \in Seq(Pieces)
    BY <1>1, RestFacts
  <2> QED
    BY <2>1, <2>2, <2>3, EmptySeq
<1>5. /\ Writes(e) /\ UnderWay(e, wire[e] \o SubSeq(toWrite[e], 1, n), Incoming(e)) /\ n <= Free(e)
      /\ toWrite' = [toWrite EXCEPT ![e] = SubSeq(toWrite[e], n + 1, Len(toWrite[e]))]
      /\ unfinished' = [unfinished EXCEPT ![e] = "none"]
  <2>1. Free(e) \in Int
    BY <1>1, SessionAssumption DEF TypeOK, Free
  <2> QED
    BY <1>2, <1>3, <1>4, <2>1 DEF WriteSucceeds
<1>6. /\ open[e] /\ state[e] = "WRITING" /\ sent[e] \in BOOLEAN /\ received[e] \in BOOLEAN
      /\ (e = "server" => executing = {}) /\ (e = "client" => stage = "calling")
      /\ UNCHANGED <<open, received, keep, stage, call, established, failed,
                     executing, keepAlive, refused, disturbed>>
  BY ReactsFacts DEF Structure, Writes, WriteSucceeds, tls, client, server, TypeOK
<1>7. /\ state' \in [Ends -> States]
      /\ IF e = "client" \/ keepAlive THEN state'[e] = "READING" /\ registered'[e] # {}
         ELSE /\ state'[e] \in {"SHUTDOWN", "EMPTY"}
              /\ ~received[e] => state'[e] = "SHUTDOWN"
      /\ \A x \in Ends \ {e} : state'[x] = state[x] /\ registered'[x] = registered[x]
  <2>1. CASE e = "client" \/ keepAlive
    BY <1>1, <2>1, RegFacts DEF WriteSucceeds, RegRecv, States
  <2>2. CASE ~(e = "client" \/ keepAlive)
    <3>1. RegShutdown(e, sent[e], received[e])
      BY <2>2 DEF WriteSucceeds
    <3> QED
      BY <1>1, <1>6, <2>2, <3>1, RegShutdownFacts
  <2> QED
    BY <2>1, <2>2
<1>8. /\ unfinished' \in [Ends -> {"none", "same", "moved"}] /\ unfinished'[e] = "none" /\ toWrite'[e] = <<>>
      /\ unfinished'[Other(e)] = unfinished[Other(e)] /\ toWrite'[Other(e)] = toWrite[Other(e)]
      /\ state'[Other(e)] = state[Other(e)] /\ ~Handshaking(e)'
  BY <1>1, <1>4, <1>5, <1>7, EndFacts DEF TypeOK, Handshaking
<1>9. /\ OwnPieces'
      /\ ~disturbed /\ (stage = "calling" \/ (stage = "idle" /\ ~refused)) =>
            /\ stage = "calling" /\ Healthy'
            /\ IF e = "client" THEN Asking /\ Covers("server")' ELSE Answering /\ Covers("client")'
  BY <1>5, <1>8, WritesKeepOrder
<1>10. Buffers'
  BY <1>1, <1>6, <1>7, <1>8 DEF Buffers, Nothing, Handshaking, Ends, Other
<1>11. LostBefore'
  BY <1>1, <1>6, <1>7 DEF LostBefore, Handshaking, Ends
<1>12. Undisturbed'
  <2> SUFFICES ASSUME ~disturbed, stage = "calling" \/ (stage = "idle" /\ ~refused)
               PROVE  stage = "calling" /\ Healthy' /\ Calling'
    BY <1>1, <1>6 DEF Undisturbed
  <2>1. CASE e = "client"
    <3>1. Asking'
      BY <1>6, <1>7, <1>8, <1>9, <2>1, EndFacts DEF Asking, ClientAtWork, ServerReads, Handshaking
    <3> QED
      BY <1>9, <2>1, <3>1 DEF Calling
  <2>2. CASE e = "server"
    <3>1. wire'["client"] = wire["client"]
      BY <1>5, <2>2, EndFacts DEF UnderWay, Incoming
    <3>2. ~received["server"]
      BY <1>6, <2>2, UndisturbedFacts DEF Healthy
    <3>3. Answering'
      BY <1>6, <1>7, <1>8, <1>9, <2>2, <3>1, <3>2, EndFacts DEF Answering, ClientAtWork, Quiet
    <3> QED
      BY <1>9, <2>2, <3>3 DEF Calling
  <2> QED
    BY <2>1, <2>2 DEF Ends
<1> QED
  BY <1>9, <1>10, <1>11, <1>12 DEF Orderly

-----------------------------------------------------------------------------
(* The server's steps keep the order *)

\* What the server has after a piece of a request.
LEMMA RequestRead ==
    ASSUME Structure, Orderly, Receives("server"),
           UnderWay("server", wire["server"], Rest("server")), UNCHANGED <<open, reset>>
    PROVE  /\ ~refused /\ Nothing("server") /\ executing = {}
           /\ wire'["server"] = wire["server"]
           /\ wire["client"] # <<>> /\ wire'["client"] = Tail(wire["client"])
           /\ Cached("server") \in Seq(Pieces) /\ wire'["client"] \in Seq(Records)
           /\ ~failed =>
                 /\ NoMessage("client") /\ stage # "idle" /\ established
                 /\ Cached("server")[1].call = call /\ Asks(Cached("server")) = call
                 /\ Ordered(Cached("server"), wire'["client"], toWrite["client"], call)
                 /\ Complete("server") => Absent(<<>>, wire'["client"], toWrite["client"])
           /\ ~disturbed /\ (stage = "calling" \/ stage = "idle") =>
                 /\ stage = "calling" /\ Healthy /\ Asking
                 /\ Covered(Cached("server"), wire'["client"], toWrite["client"])
                 /\ NoNotify(wire'["client"]) /\ flight["client"] = flight["server"]
                 /\ \A x \in Ends : NoFlight(wire'[x])
                 /\ Complete("server") => toWrite["client"] = <<>> /\ wire'["client"] = <<>>
<1>1. /\ TypeOK /\ Sizes /\ Placement /\ Buffers /\ OwnPieces
      /\ cache["server"] \in Seq(Pieces) /\ toWrite["client"] \in Seq(Pieces)
      /\ wire["client"] \in Seq(Records) /\ wire["server"] \in Seq(Records) /\ call \in 0..MaxCalls
  BY SequenceTypes, EndFacts DEF Structure, Orderly
<1>2. /\ state["server"] = "READING" /\ executing = {}
      /\ wire'["server"] = wire["server"] /\ wire'["client"] = Tail(wire["client"])
      /\ wire["client"] # <<>> /\ wire["client"][1] \in Pieces
      /\ Cached("server") = Append(cache["server"], wire["client"][1])
      /\ Cached("server") \in Seq(Pieces) /\ Len(Cached("server")) = Len(cache["server"]) + 1
      /\ Len(cache["server"]) < Parts
      /\ wire'["client"] \in Seq(Records)
  <2>1. /\ wire'["server"] = wire["server"] /\ wire'["client"] = Rest("server")
        /\ wire' \in [Ends -> Seq(Records)]
    BY ServerReceivesFacts
  <2>2. /\ Incoming("server") = wire["client"] /\ wire["client"] # <<>>
        /\ Head(wire["client"]) \in Pieces
    BY EndFacts DEF Receives, Incoming
  <2>3. Head(wire["client"]) = wire["client"][1]
    BY <1>1, <2>2, TailFacts
  <2> QED
    BY <1>1, <2>1, <2>2, <2>3, ReceivesFacts, EndFacts DEF Rest, Cached
<1>3. ~refused /\ Nothing("server")
  BY <1>1, <1>2, EndFacts DEF Buffers
<1>4. ASSUME ~failed
      PROVE  /\ NoMessage("client") /\ stage # "idle" /\ established
             /\ Cached("server")[1].call = call /\ Asks(Cached("server")) = call
             /\ Ordered(Cached("server"), wire'["client"], toWrite["client"], call)
             /\ Complete("server") => Absent(<<>>, wire'["client"], toWrite["client"])
             /\ Covers("server") => Covered(Cached("server"), wire'["client"], toWrite["client"])
  <2>1. Ordered(cache["server"], wire["client"], toWrite["client"], call)
    BY <1>1, <1>3, <1>4, EndFacts DEF OwnPieces, OwnRequest, InOrder
  <2>2. /\ Ordered(Cached("server"), wire'["client"], toWrite["client"], call)
        /\ \A i \in DOMAIN Cached("server") : Cached("server")[i].call = call
        /\ ~Absent(cache["server"], wire["client"], toWrite["client"])
        /\ Len(cache["server"]) + 1 = Parts => Absent(<<>>, wire'["client"], toWrite["client"])
        /\ Covered(cache["server"], wire["client"], toWrite["client"]) =>
              Covered(Cached("server"), wire'["client"], toWrite["client"])
    <3>1. PICK h \in Seq(Pieces), w \in Seq(Records), l \in Seq(Pieces), k \in 0..MaxCalls :
             h = cache["server"] /\ w = wire["client"] /\ l = toWrite["client"] /\ k = call
      BY <1>1
    <3>2. w # <<>> /\ w[1] \in Pieces /\ Ordered(h, w, l, k)
      BY <1>2, <2>1, <3>1
    <3>3. /\ Ordered(Append(h, w[1]), Tail(w), l, k)
          /\ \A i \in DOMAIN Append(h, w[1]) : Append(h, w[1])[i].call = k
          /\ ~Absent(h, w, l)
          /\ Len(h) + 1 = Parts => Absent(<<>>, Tail(w), l)
          /\ Covered(h, w, l) => Covered(Append(h, w[1]), Tail(w), l)
      BY <3>2, ReadFacts
    <3>4. Append(h, w[1]) = Cached("server") /\ Tail(w) = wire'["client"]
      BY <1>2, <3>1
    <3> QED
      BY <3>1, <3>3, <3>4
  <2>3. 1 \in DOMAIN Cached("server")
    <3>1. DOMAIN Cached("server") = 1..(Len(cache["server"]) + 1) /\ Len(cache["server"]) \in Nat
      BY <1>1, <1>2
    <3> QED
      BY <3>1
  <2>4. ~NoMessage("server")
    BY <2>2, EndFacts DEF NoMessage
  <2>5. NoMessage("client") /\ stage # "idle" /\ established
    BY <1>1, <1>3, <1>4, <2>4 DEF OwnPieces, OwnRequest, OneAfterAnother
  <2>6. Cached("server")[1].call = call /\ Asks(Cached("server")) = call
    BY <2>2, <2>3 DEF Asks
  <2> QED
    BY <1>2, <2>2, <2>5, <2>6, EndFacts DEF Complete, Covers
<1>5. ASSUME ~disturbed, stage = "calling" \/ stage = "idle"
      PROVE  /\ stage = "calling" /\ Healthy /\ Asking
             /\ Covered(Cached("server"), wire'["client"], toWrite["client"])
             /\ NoNotify(wire'["client"]) /\ flight["client"] = flight["server"]
             /\ \A x \in Ends : NoFlight(wire'[x])
             /\ Complete("server") => toWrite["client"] = <<>> /\ wire'["client"] = <<>>
  <2>1. ~failed /\ Healthy /\ (stage = "calling" => Calling)
    BY <1>3, <1>5, UndisturbedFacts
  <2>2. stage = "calling" /\ Asking
    BY <1>2, <1>4, <1>5, <2>1 DEF Calling, Greeting, Working, Answering, Quiet
  <2>3. Covered(Cached("server"), wire'["client"], toWrite["client"])
    BY <1>4, <2>1, <2>2 DEF Asking
  <2>4. NoNotify(wire'["client"])
    BY <1>1, <1>2, <2>1, NotifyFacts DEF Healthy
  <2>5. /\ flight["client"] = flight["server"]
        /\ NoFlight(wire["client"]) /\ NoFlight(wire["server"])
    <3>1. flight["client"] = Flights /\ flight["server"] = Flights
      BY <1>2, <2>1, <2>2, EndFacts DEF Healthy, InTurn, Handshaking, Asking, ClientAtWork
    <3>2. Level
      BY <2>1, <3>1, SessionAssumption, EndFacts DEF Healthy, InTurn, AheadBy
    <3> QED
      BY <3>1, <3>2, EndFacts DEF Level
  <2>6. NoFlight(wire'["client"]) /\ NoFlight(wire'["server"])
    BY <1>1, <1>2, <2>5, FlightFacts
  <2>7. ASSUME Complete("server") PROVE toWrite["client"] = <<>> /\ wire'["client"] = <<>>
    <3>1. /\ toWrite["client"] = <<>>
          /\ \A i \in DOMAIN wire'["client"] : wire'["client"][i] \notin Pieces
      BY <1>4, <2>1, <2>7 DEF Absent
    <3> QED
      BY <1>2, <2>4, <2>6, <3>1, NothingLeft
  <2> QED
    BY <2>1, <2>2, <2>3, <2>4, <2>5, <2>6, <2>7 DEF Ends
<1> QED
  BY <1>2, <1>3, <1>4, <1>5

\* A response is put where there was none.
LEMMA ResponsePut ==
    ASSUME TypeOK, TypeOK', NoMessage("client"), cache'["client"] = cache["client"],
           wire'["server"] = wire["server"], call' = call, toWrite'["server"] = Message(call)
    PROVE  InOrder("client")' /\ Covers("client")'
<1>1. /\ cache["client"] \in Seq(Pieces) /\ wire["server"] \in Seq(Records)
      /\ toWrite["server"] \in Seq(Pieces) /\ call \in 0..MaxCalls
      /\ Absent(cache["client"], wire["server"], toWrite["server"])
  BY SequenceTypes, EndFacts DEF NoMessage
<1>2. /\ Ordered(cache["client"], wire["server"], Message(call), call)
      /\ Covered(cache["client"], wire["server"], Message(call))
  BY <1>1, AbsentFacts
<1> QED
  BY <1>2, EndFacts DEF InOrder, Covers

\* While a way has no message on it, its end reads none.
LEMMA NoMessageStays ==
    ASSUME NEW e \in Ends, NoMessage(e), cache'[e] = cache[e], wire'[Other(e)] = wire[Other(e)],
           toWrite'[Other(e)] = toWrite[Other(e)]
    PROVE  NoMessage(e)'
  BY DEF NoMessage

\* After the handshake a connection stays healthy.
LEMMA StaysHealthy ==
    ASSUME Healthy, UNCHANGED <<flight, reset, open, received>>, flight["client"] = flight["server"],
           \A x \in Ends : NoFlight(wire'[x]), NoNotify(wire'["client"]),
           \A x \in Ends : Handshaking(x) => Handshaking(x)' \/ flight[x] = Flights,
           unfinished'["client"] # "moved", open["server"] => unfinished'["server"] # "moved"
    PROVE  Healthy'
<1>1. Level' /\ \A x \in Ends : Handshaking(x)' \/ flight'[x] = Flights
  BY DEF Healthy, InTurn, Level
<1> QED
  BY <1>1 DEF Healthy, InTurn

\* A piece of a request is read, and it is the next of this call.
LEMMA ReadRequestPartKeepsOrder == ASSUME Structure, Orderly, ReadRequestPart PROVE Orderly'
<1>1. TypeOK /\ Buffers /\ LostBefore /\ OwnPieces /\ Undisturbed
  BY DEF Structure, Orderly
<1>2. /\ Receives("server") /\ UnderWay("server", wire["server"], Rest("server"))
      /\ cache' = [cache EXCEPT !["server"] = Cached("server")]
      /\ UNCHANGED <<toWrite, unfinished, open, reset, keep, stage, call, established, failed,
                     executing, keepAlive, refused, disturbed, flight, received>>
      /\ state["server"] = "READING"
  BY DEF ReadRequestPart, Receives, Keeps, client, server, tls
<1>3. /\ state' \in [Ends -> States] /\ state' = state /\ registered'["client"] = registered["client"]
      /\ state'["server"] = "READING"
  BY <1>1, <1>2, EndFacts DEF ReadRequestPart, RegRecv, Reg, TypeOK, States
<1>4. cache'["server"] = Cached("server") /\ cache'["client"] = cache["client"]
  BY <1>1, <1>2, EndFacts DEF TypeOK
<1>5. /\ ~refused /\ Nothing("server") /\ executing = {}
      /\ wire'["server"] = wire["server"]
      /\ ~failed =>
            /\ NoMessage("client") /\ stage # "idle" /\ established
            /\ Ordered(Cached("server"), wire'["client"], toWrite["client"], call)
      /\ ~disturbed /\ (stage = "calling" \/ stage = "idle") =>
            /\ stage = "calling" /\ Healthy /\ Asking
            /\ Covered(Cached("server"), wire'["client"], toWrite["client"])
            /\ NoNotify(wire'["client"]) /\ flight["client"] = flight["server"]
            /\ \A x \in Ends : NoFlight(wire'[x])
  BY <1>2, RequestRead
<1>6. Buffers'
  BY <1>1, <1>2, <1>3 DEF Buffers, Nothing, Handshaking
<1>7. LostBefore'
  BY <1>1, <1>2, <1>3 DEF LostBefore, Handshaking
<1>8. OwnPieces'
  <2> SUFFICES ASSUME ~failed PROVE OwnPieces'
    BY <1>2 DEF OwnPieces
  <2>1. NoMessage("client")'
    BY <1>2, <1>4, <1>5, NoMessageStays, EndFacts
  <2>2. InOrder("client")'
    BY <1>1, <1>2, <1>4, <1>5, EndFacts DEF OwnPieces, OwnResponse, InOrder
  <2>3. InOrder("server")'
    BY <1>2, <1>4, <1>5, EndFacts DEF InOrder
  <2> QED
    BY <1>2, <1>5, <2>1, <2>2, <2>3 DEF OwnPieces, OwnResponse, OwnRequest, OneAfterAnother
<1>9. Undisturbed'
  <2> SUFFICES ASSUME ~disturbed, stage = "calling" \/ stage = "idle"
               PROVE  stage = "calling" /\ Healthy' /\ Asking'
    BY <1>1, <1>2 DEF Undisturbed, Calling
  <2>1. Healthy'
    BY <1>2, <1>3, <1>5, StaysHealthy DEF Handshaking, Healthy
  <2>2. Covers("server")'
    BY <1>2, <1>4, <1>5, EndFacts DEF Covers
  <2>3. Asking'
    BY <1>2, <1>3, <1>5, <2>2 DEF Asking, ClientAtWork, ServerReads
  <2> QED
    BY <1>5, <2>1, <2>3
<1> QED
  BY <1>6, <1>7, <1>8, <1>9 DEF Orderly

\* A request is refused: if it was complete its client gets the error, otherwise that is
\* something that happened.
LEMMA RefuseRequestKeepsOrder == ASSUME Structure, Structure', Orderly, RefuseRequest PROVE Orderly'
<1>1. TypeOK /\ TypeOK' /\ Sizes /\ Buffers /\ LostBefore /\ OwnPieces /\ Undisturbed
  BY DEF Structure, Orderly
<1>2. /\ Receives("server") /\ UnderWay("server", wire["server"], Rest("server"))
      /\ cache' = [cache EXCEPT !["server"] = Cached("server")]
      /\ UNCHANGED <<open, reset, keep, stage, call, established, failed, executing, flight, received>>
      /\ ~keepAlive' /\ refused' /\ (disturbed' <=> disturbed \/ ~Complete("server"))
      /\ state["server"] = "READING"
  BY <1>1 DEF RefuseRequest, Receives, Keeps, client, tls, TypeOK
<1>3. /\ state'["server"] = "WRITING" /\ state'["client"] = state["client"]
      /\ registered'["client"] = registered["client"]
  BY <1>1, RegFacts, EndFacts DEF RefuseRequest, RegSend, States
<1>4. cache'["server"] = Cached("server") /\ cache'["client"] = cache["client"]
  BY <1>1, <1>2, EndFacts DEF TypeOK
<1>5. /\ ~refused /\ Nothing("server") /\ executing = {}
      /\ Cached("server") \in Seq(Pieces)
      /\ wire'["server"] = wire["server"]
      /\ ~failed =>
            /\ NoMessage("client") /\ stage # "idle" /\ established
            /\ Cached("server")[1].call = call
      /\ ~disturbed /\ (stage = "calling" \/ stage = "idle") =>
            /\ stage = "calling" /\ Healthy /\ Asking
            /\ NoNotify(wire'["client"]) /\ flight["client"] = flight["server"]
            /\ \A x \in Ends : NoFlight(wire'[x])
            /\ Complete("server") => toWrite["client"] = <<>> /\ wire'["client"] = <<>>
  BY <1>2, RequestRead
<1>6. /\ toWrite'["client"] = toWrite["client"] /\ unfinished'["client"] = unfinished["client"]
      /\ toWrite'["server"] # <<>> /\ unfinished'["server"] = "none"
      /\ Cached("server")[1].call = call => toWrite'["server"] = Message(call)
  <2>1. Cached("server")[1].call \in 0..MaxCalls
    BY <1>2, ServerReceivesFacts, RecordFacts
  <2>2. PICK k \in 0..MaxCalls : k = Cached("server")[1].call /\ Prepare("server", Message(k))
    BY <2>1 DEF RefuseRequest, RegSend
  <2>3. unfinished["server"] = "none"
    BY <1>5 DEF Nothing
  <2> QED
    BY <1>1, <2>2, <2>3, PrepareFacts, EndFacts
<1>7. Buffers'
  BY <1>1, <1>2, <1>3, <1>5, <1>6 DEF Buffers, Nothing, Handshaking, Ends
<1>8. LostBefore'
  BY <1>1, <1>2, <1>3 DEF LostBefore, Handshaking
<1>9. ~failed => InOrder("client")' /\ Covers("client")'
  BY <1>1, <1>2, <1>4, <1>5, <1>6, ResponsePut
<1>10. OwnPieces'
  BY <1>2, <1>5, <1>9 DEF OwnPieces, OwnResponse, OneAfterAnother
<1>11. Undisturbed'
  <2> SUFFICES ASSUME ~disturbed, Complete("server"), stage = "calling"
               PROVE  Healthy' /\ Answering'
    BY <1>1, <1>2 DEF Undisturbed, Calling
  <2>1. Healthy'
    <3>1. \A x \in Ends : Handshaking(x) => Handshaking(x)' \/ flight[x] = Flights
      BY <1>2, <1>3 DEF Handshaking, Ends
    <3> QED
      BY <1>2, <1>5, <1>6, <3>1, StaysHealthy DEF Healthy
  <2>2. Covers("client")'
    BY <1>1, <1>9 DEF Undisturbed
  <2>3. Answering'
    BY <1>2, <1>3, <1>5, <1>6, <2>2 DEF Asking, Answering, ClientAtWork, ServerReads, Quiet
  <2> QED
    BY <2>1, <2>3
<1> QED
  BY <1>7, <1>8, <1>10, <1>11 DEF Orderly

\* A request has been read.
LEMMA ReadRequestOrder ==
    ASSUME Structure, Orderly, ReadRequest, toWrite'["client"] = toWrite["client"]
    PROVE  /\ ~refused' /\ ~refused /\ Nothing("server") /\ executing = {} /\ keepAlive' = keep
           /\ wire'["server"] = wire["server"] /\ cache'["client"] = cache["client"]
           /\ UNCHANGED <<open, reset, flight, received, keep, stage, call, established, failed, disturbed>>
           /\ state["server"] = "READING"
           /\ ~failed =>
                 /\ NoMessage("client") /\ stage # "idle" /\ established
                 /\ Asks(Cached("server")) = call
                 /\ NoMessage("server")' /\ InOrder("server")'
           /\ ~disturbed /\ (stage = "calling" \/ stage = "idle") =>
                 /\ stage = "calling" /\ Healthy /\ Asking
                 /\ NoNotify(wire'["client"]) /\ flight["client"] = flight["server"]
                 /\ \A x \in Ends : NoFlight(wire'[x])
                 /\ toWrite["client"] = <<>> /\ wire'["client"] = <<>>
<1>1. TypeOK
  BY DEF Structure
<1>2. /\ Receives("server") /\ UnderWay("server", wire["server"], Rest("server")) /\ Complete("server")
      /\ cache' = [cache EXCEPT !["server"] = <<>>] /\ keepAlive' = keep
      /\ UNCHANGED <<open, reset, flight, received, keep, stage, call, established, failed,
                     refused, disturbed>>
      /\ state["server"] = "READING"
  BY DEF ReadRequest, Receives, Keeps, client, tls
<1>3. cache'["server"] = <<>> /\ cache'["client"] = cache["client"]
  BY <1>1, <1>2, EndFacts DEF TypeOK
<1>4. /\ ~refused /\ Nothing("server") /\ executing = {}
      /\ wire'["server"] = wire["server"] /\ wire'["client"] \in Seq(Records)
      /\ ~failed =>
            /\ NoMessage("client") /\ stage # "idle" /\ established
            /\ Asks(Cached("server")) = call
            /\ Absent(<<>>, wire'["client"], toWrite["client"])
      /\ ~disturbed /\ (stage = "calling" \/ stage = "idle") =>
            /\ stage = "calling" /\ Healthy /\ Asking
            /\ NoNotify(wire'["client"]) /\ flight["client"] = flight["server"]
            /\ \A x \in Ends : NoFlight(wire'[x])
            /\ toWrite["client"] = <<>> /\ wire'["client"] = <<>>
  BY <1>2, RequestRead
<1>5. ASSUME ~failed PROVE NoMessage("server")' /\ InOrder("server")'
  <2>1. /\ Absent(<<>>, wire'["client"], toWrite["client"])
        /\ <<>> \in Seq(Pieces) /\ toWrite["client"] \in Seq(Pieces) /\ call \in 0..MaxCalls
    BY <1>1, <1>4, <1>5, SequenceTypes, EndFacts
  <2>2. Ordered(<<>>, wire'["client"], toWrite["client"], call)
    BY <1>4, <2>1, AbsentFacts
  <2> QED
    BY <1>2, <1>3, <2>1, <2>2, EndFacts DEF NoMessage, InOrder
<1> QED
  BY <1>2, <1>3, <1>4, <1>5

\* The pool executes the request of the call that waits.
LEMMA ExecuteRequestKeepsOrder == ASSUME Structure, Orderly, ExecuteRequest PROVE Orderly'
<1>1. TypeOK /\ Buffers /\ LostBefore /\ OwnPieces /\ Undisturbed
  BY DEF Structure, Orderly
<1>2. /\ ReadRequest /\ executing' = {Asks(Cached("server"))}
      /\ UNCHANGED <<toWrite, unfinished>>
  BY DEF ExecuteRequest
<1>3. /\ state'["server"] = "EMPTY" /\ state'["client"] = state["client"]
      /\ registered'["client"] = registered["client"]
  BY <1>1, RegNothingFacts, EndFacts DEF ExecuteRequest, States
<1>4. /\ ~refused' /\ ~refused /\ Nothing("server") /\ executing = {} /\ keepAlive' = keep
      /\ wire'["server"] = wire["server"] /\ cache'["client"] = cache["client"]
      /\ UNCHANGED <<open, reset, flight, received, keep, stage, call, established, failed, disturbed>>
      /\ state["server"] = "READING"
      /\ ~failed =>
            /\ NoMessage("client") /\ stage # "idle" /\ established
            /\ Asks(Cached("server")) = call
            /\ NoMessage("server")' /\ InOrder("server")'
      /\ ~disturbed /\ (stage = "calling" \/ stage = "idle") =>
            /\ stage = "calling" /\ Healthy /\ Asking
            /\ NoNotify(wire'["client"]) /\ flight["client"] = flight["server"]
            /\ \A x \in Ends : NoFlight(wire'[x])
            /\ toWrite["client"] = <<>> /\ wire'["client"] = <<>>
  BY <1>2, ReadRequestOrder
<1>5. Buffers'
  BY <1>1, <1>2, <1>3, <1>4 DEF Buffers, Nothing, Handshaking, Ends
<1>6. LostBefore'
  BY <1>1, <1>3, <1>4 DEF LostBefore, Handshaking
<1>7. OwnPieces'
  <2> SUFFICES ASSUME ~failed PROVE OwnPieces'
    BY <1>4 DEF OwnPieces
  <2>1. NoMessage("client")' /\ InOrder("client")'
    BY <1>1, <1>2, <1>4, NoMessageStays, EndFacts DEF OwnPieces, OwnResponse, InOrder
  <2> QED
    BY <1>2, <1>4, <2>1 DEF OwnPieces, OwnResponse, OwnRequest, OneAfterAnother
<1>8. Undisturbed'
  <2> SUFFICES ASSUME ~disturbed, stage = "calling" \/ stage = "idle"
               PROVE  stage = "calling" /\ Healthy' /\ Working'
    BY <1>1, <1>4 DEF Undisturbed, Calling
  <2>1. Healthy'
    <3>1. \A x \in Ends : Handshaking(x) => Handshaking(x)' \/ flight[x] = Flights
      BY <1>3, <1>4 DEF Handshaking, Ends
    <3> QED
      BY <1>2, <1>4, <3>1, StaysHealthy DEF Healthy
  <2>2. Working'
    BY <1>2, <1>3, <1>4 DEF Asking, Working, ClientAtWork, Quiet
  <2> QED
    BY <1>4, <2>1, <2>2
<1> QED
  BY <1>5, <1>6, <1>7, <1>8 DEF Orderly

\* The request of the call that waits is executed at once.
LEMMA AnswerAtOnceKeepsOrder == ASSUME Structure, Structure', Orderly, AnswerAtOnce PROVE Orderly'
<1>1. TypeOK /\ TypeOK' /\ Sizes /\ Buffers /\ LostBefore /\ OwnPieces /\ Undisturbed
  BY DEF Structure, Orderly
<1>2. ReadRequest /\ executing' = executing /\ Receives("server")
  BY DEF AnswerAtOnce, ReadRequest
<1>3. /\ state'["server"] = "WRITING" /\ state'["client"] = state["client"]
      /\ registered'["client"] = registered["client"]
  BY <1>1, RegFacts, EndFacts DEF AnswerAtOnce, RegSend, States
<1>4. /\ toWrite'["client"] = toWrite["client"] /\ unfinished'["client"] = unfinished["client"]
      /\ toWrite'["server"] # <<>>
      /\ unfinished["server"] = "none" =>
            /\ unfinished'["server"] = "none"
            /\ Asks(Cached("server")) = call => toWrite'["server"] = Message(call)
  <2>1. Asks(Cached("server")) \in 0..MaxCalls
    <3>1. Cached("server") \in Seq(Pieces) /\ Len(Cached("server")) = Len(cache["server"]) + 1
          /\ Len(cache["server"]) \in Nat
      BY <1>1, <1>2, ReceivesFacts, SequenceTypes, EndFacts DEF Structure
    <3>2. Cached("server") # <<>>
      BY <3>1
    <3> QED
      BY <3>1, <3>2, AsksFacts
  <2>2. PICK k \in 0..MaxCalls : k = Asks(Cached("server")) /\ Prepare("server", Message(k))
    BY <2>1 DEF AnswerAtOnce, RegSend
  <2> QED
    BY <1>1, <2>2, PrepareFacts, EndFacts
<1>5. /\ ~refused' /\ ~refused /\ Nothing("server") /\ executing = {} /\ keepAlive' = keep
      /\ wire'["server"] = wire["server"] /\ cache'["client"] = cache["client"]
      /\ UNCHANGED <<open, reset, flight, received, keep, stage, call, established, failed, disturbed>>
      /\ state["server"] = "READING"
      /\ ~failed =>
            /\ NoMessage("client") /\ stage # "idle" /\ established
            /\ Asks(Cached("server")) = call
            /\ NoMessage("server")' /\ InOrder("server")'
      /\ ~disturbed /\ (stage = "calling" \/ stage = "idle") =>
            /\ stage = "calling" /\ Healthy /\ Asking
            /\ NoNotify(wire'["client"]) /\ flight["client"] = flight["server"]
            /\ \A x \in Ends : NoFlight(wire'[x])
            /\ toWrite["client"] = <<>> /\ wire'["client"] = <<>>
  BY <1>2, <1>4, ReadRequestOrder
<1>6. Buffers'
  BY <1>1, <1>2, <1>3, <1>4, <1>5 DEF Buffers, Nothing, Handshaking, Ends
<1>7. LostBefore'
  BY <1>1, <1>3, <1>5 DEF LostBefore, Handshaking
<1>8. ~failed => InOrder("client")' /\ Covers("client")'
  BY <1>1, <1>4, <1>5, ResponsePut DEF Nothing
<1>9. OwnPieces'
  BY <1>2, <1>5, <1>8 DEF OwnPieces, OwnResponse, OwnRequest, OneAfterAnother
<1>10. Undisturbed'
  <2> SUFFICES ASSUME ~disturbed, stage = "calling" \/ stage = "idle"
               PROVE  stage = "calling" /\ Healthy' /\ Answering'
    BY <1>1, <1>5 DEF Undisturbed, Calling
  <2>1. Healthy'
    <3>1. \A x \in Ends : Handshaking(x) => Handshaking(x)' \/ flight[x] = Flights
      BY <1>3, <1>5 DEF Handshaking, Ends
    <3> QED
      BY <1>4, <1>5, <3>1, StaysHealthy DEF Healthy, Nothing
  <2>2. Answering'
    BY <1>1, <1>3, <1>4, <1>5, <1>8 DEF Asking, Answering, ClientAtWork, ServerReads, Quiet, Undisturbed
  <2> QED
    BY <1>5, <2>1, <2>2
<1> QED
  BY <1>6, <1>7, <1>9, <1>10 DEF Orderly

\* The pool's answer is put to be written, behind nothing else.
LEMMA PoolAnswersKeepsOrder == ASSUME Structure, Structure', Orderly, PoolAnswers PROVE Orderly'
<1>1. TypeOK /\ TypeOK' /\ Sizes /\ Placement /\ Buffers /\ LostBefore /\ OwnPieces /\ Undisturbed
  BY DEF Structure, Orderly
<1>2. PICK k \in executing : RegSend("server", Message(k))
  BY DEF PoolAnswers
<1>3. /\ k \in 0..MaxCalls /\ executing # {} /\ executing' = {}
      /\ UNCHANGED <<cache, flight, sent, received, open, wire, reset, keep, stage, call, established,
                     failed, keepAlive, refused, disturbed>>
  BY <1>1 DEF PoolAnswers, tls, net, client, TypeOK
<1>4. /\ state'["server"] = "WRITING" /\ state'["client"] = state["client"]
      /\ registered'["client"] = registered["client"]
  BY <1>1, <1>2, RegFacts, EndFacts DEF RegSend, States
<1>5. Nothing("server") /\ ~refused /\ open["server"]
  BY <1>1, <1>3 DEF Buffers, Placement
<1>6. /\ toWrite'["client"] = toWrite["client"] /\ unfinished'["client"] = unfinished["client"]
      /\ toWrite'["server"] # <<>> /\ unfinished'["server"] = "none"
      /\ toWrite'["server"] = Message(k)
  BY <1>1, <1>2, <1>3, <1>5, PrepareFacts, EndFacts DEF RegSend, Nothing
<1>7. Buffers'
  BY <1>1, <1>3, <1>4, <1>5, <1>6 DEF Buffers, Nothing, Handshaking, Ends
<1>8. LostBefore'
  BY <1>1, <1>3, <1>4 DEF LostBefore, Handshaking
<1>9. ASSUME ~failed
      PROVE  /\ InOrder("client")' /\ Covers("client")' /\ InOrder("server")' /\ NoMessage("server")'
             /\ NoMessage("server") /\ NoMessage("client") /\ stage # "idle" /\ established
  <2>1. /\ k = call /\ NoMessage("client") /\ InOrder("server") /\ NoMessage("server")
        /\ stage # "idle" /\ established
    BY <1>1, <1>3, <1>5, <1>9 DEF OwnPieces, OwnResponse, OwnRequest, OneAfterAnother
  <2>2. InOrder("client")' /\ Covers("client")'
    BY <1>1, <1>3, <1>6, <2>1, ResponsePut
  <2>3. NoMessage("server")' /\ InOrder("server")'
    BY <1>3, <1>6, <2>1, EndFacts DEF NoMessage, InOrder
  <2> QED
    BY <2>1, <2>2, <2>3
<1>10. OwnPieces'
  BY <1>3, <1>9 DEF OwnPieces, OwnResponse, OwnRequest, OneAfterAnother
<1>11. Undisturbed'
  <2> SUFFICES ASSUME ~disturbed, stage = "calling" \/ stage = "idle"
               PROVE  stage = "calling" /\ Healthy' /\ Answering'
    BY <1>1, <1>3 DEF Undisturbed, Calling
  <2>1. /\ ~failed /\ stage = "calling" /\ Healthy /\ Calling
    BY <1>1, <1>5, <1>9 DEF Undisturbed
  <2>2. Working
    BY <1>3, <1>9, <2>1, CoversFacts, EndFacts DEF Calling, Greeting, Asking, Answering
  <2>3. Healthy'
    <3>1. InTurn'
      <4>1. \A x \in Ends : Handshaking(x) => Handshaking(x)' \/ flight[x] = Flights
        <5>1. ~Handshaking("server")
          BY <1>1, <1>3 DEF Buffers
        <5> QED
          BY <1>4, <5>1 DEF Handshaking, Ends
      <4> QED
        BY <1>3, <2>1, <4>1, InTurnKept DEF Healthy
    <3> QED
      BY <1>3, <1>6, <2>1, <3>1 DEF Healthy
  <2>4. Answering'
    BY <1>3, <1>4, <1>5, <1>6, <1>9, <2>1, <2>2 DEF Working, Answering, ClientAtWork, Quiet
  <2> QED
    BY <2>1, <2>3, <2>4
<1> QED
  BY <1>7, <1>8, <1>10, <1>11 DEF Orderly

-----------------------------------------------------------------------------
(* The client's steps keep the order *)

\* What the client has after a piece of a response.
LEMMA ResponseRead ==
    ASSUME Structure, Orderly, Receives("client")
    PROVE  /\ state["client"] = "READING" /\ stage = "calling" /\ established /\ Nothing("client")
           /\ Rest("client") = Tail(wire["server"]) /\ wire["server"] # <<>>
           /\ Cached("client") \in Seq(Pieces) /\ Rest("client") \in Seq(Records)
           /\ Cached("client")[1] \in Pieces
           /\ ~failed =>
                 /\ executing = {} /\ (~refused => NoMessage("server"))
                 /\ Cached("client")[1].call = call
                 /\ Ordered(Cached("client"), Rest("client"), toWrite["server"], call)
                 /\ Complete("client") => Absent(<<>>, Rest("client"), toWrite["server"])
           /\ ~disturbed =>
                 /\ Healthy /\ Answering
                 /\ Covered(Cached("client"), Rest("client"), toWrite["server"])
                 /\ NoFlight(Rest("client"))
                 /\ ~FlightFirst(wire["server"])
<1>1. /\ TypeOK /\ Sizes /\ Placement /\ Buffers /\ OwnPieces
      /\ cache["client"] \in Seq(Pieces) /\ toWrite["server"] \in Seq(Pieces)
      /\ wire["server"] \in Seq(Records) /\ call \in 0..MaxCalls
  BY SequenceTypes, EndFacts DEF Structure, Orderly
<1>2. /\ state["client"] = "READING" /\ stage = "calling" /\ registered["client"] # {}
      /\ wire["server"] # <<>> /\ wire["server"][1] \in Pieces
      /\ Rest("client") = Tail(wire["server"]) /\ Rest("client") \in Seq(Records)
      /\ Cached("client") = Append(cache["client"], wire["server"][1])
      /\ Cached("client") \in Seq(Pieces) /\ Len(Cached("client")) = Len(cache["client"]) + 1
      /\ Len(cache["client"]) < Parts /\ Cached("client")[1] \in Pieces
  <2>1. /\ Incoming("client") = wire["server"] /\ wire["server"] # <<>>
        /\ Head(wire["server"]) \in Pieces
    BY EndFacts DEF Receives, Incoming
  <2>2. Head(wire["server"]) = wire["server"][1]
    BY <1>1, <2>1, TailFacts
  <2> QED
    BY <1>1, <2>1, <2>2, ReceivesFacts, EndFacts DEF Rest, Cached
<1>3. established /\ Nothing("client")
  BY <1>1, <1>2, EndFacts DEF Orderly, LostBefore, Buffers
<1>4. ASSUME ~failed
      PROVE  /\ executing = {} /\ (~refused => NoMessage("server"))
             /\ Cached("client")[1].call = call
             /\ Ordered(Cached("client"), Rest("client"), toWrite["server"], call)
             /\ Complete("client") => Absent(<<>>, Rest("client"), toWrite["server"])
             /\ Covers("client") => Covered(Cached("client"), Rest("client"), toWrite["server"])
  <2>1. Ordered(cache["client"], wire["server"], toWrite["server"], call)
    BY <1>1, <1>4, EndFacts DEF OwnPieces, OwnResponse, InOrder
  <2>2. /\ Ordered(Cached("client"), Rest("client"), toWrite["server"], call)
        /\ \A i \in DOMAIN Cached("client") : Cached("client")[i].call = call
        /\ ~Absent(cache["client"], wire["server"], toWrite["server"])
        /\ Len(cache["client"]) + 1 = Parts => Absent(<<>>, Rest("client"), toWrite["server"])
        /\ Covered(cache["client"], wire["server"], toWrite["server"]) =>
              Covered(Cached("client"), Rest("client"), toWrite["server"])
    <3>1. PICK h \in Seq(Pieces), w \in Seq(Records), l \in Seq(Pieces), k \in 0..MaxCalls :
             h = cache["client"] /\ w = wire["server"] /\ l = toWrite["server"] /\ k = call
      BY <1>1
    <3>2. w # <<>> /\ w[1] \in Pieces /\ Ordered(h, w, l, k)
      BY <1>2, <2>1, <3>1
    <3>3. /\ Ordered(Append(h, w[1]), Tail(w), l, k)
          /\ \A i \in DOMAIN Append(h, w[1]) : Append(h, w[1])[i].call = k
          /\ ~Absent(h, w, l)
          /\ Len(h) + 1 = Parts => Absent(<<>>, Tail(w), l)
          /\ Covered(h, w, l) => Covered(Append(h, w[1]), Tail(w), l)
      BY <3>2, ReadFacts
    <3>4. Append(h, w[1]) = Cached("client") /\ Tail(w) = Rest("client")
      BY <1>2, <3>1
    <3> QED
      BY <3>1, <3>3, <3>4
  <2>3. 1 \in DOMAIN Cached("client")
    <3>1. DOMAIN Cached("client") = 1..(Len(cache["client"]) + 1) /\ Len(cache["client"]) \in Nat
      BY <1>1, <1>2
    <3> QED
      BY <3>1
  <2>4. ~NoMessage("client")
    BY <2>2, EndFacts DEF NoMessage
  <2>5. executing = {} /\ (~refused => NoMessage("server"))
    BY <1>1, <1>4, <2>4 DEF OwnPieces, OwnResponse, OwnRequest
  <2> QED
    BY <1>2, <2>2, <2>3, <2>5, EndFacts DEF Complete, Covers
<1>5. ASSUME ~disturbed
      PROVE  /\ Healthy /\ Answering
             /\ Covered(Cached("client"), Rest("client"), toWrite["server"])
             /\ NoFlight(Rest("client")) /\ ~FlightFirst(wire["server"])
  <2>1. ~failed /\ Healthy /\ Calling
    BY <1>2, <1>5, UndisturbedFacts
  <2>2. Answering
    BY <1>2, <1>3, <1>4, <2>1, CoversFacts, EndFacts
       DEF Calling, Greeting, Asking, Working
  <2>3. Covered(Cached("client"), Rest("client"), toWrite["server"])
    BY <1>4, <2>1, <2>2 DEF Answering
  <2>4. ~FlightFirst(wire["server"])
    BY <1>2, RecordFacts DEF FlightFirst
  <2>5. NoFlight(wire["server"])
    BY <2>1, <2>4, EndFacts DEF Healthy, InTurn, Level, AheadBy
  <2>6. NoFlight(Rest("client"))
    BY <1>1, <1>2, <2>5, FlightFacts
  <2> QED
    BY <2>1, <2>2, <2>3, <2>4, <2>6
<1> QED
  BY <1>2, <1>3, <1>4, <1>5

\* A piece of a response is read, and it is the next of this call's.
LEMMA ReadResponsePartKeepsOrder == ASSUME Structure, Orderly, ReadResponsePart PROVE Orderly'
<1>1. TypeOK /\ Buffers /\ LostBefore /\ OwnPieces /\ Undisturbed /\ wire["client"] \in Seq(Records)
  BY SequenceTypes, EndFacts DEF Structure, Orderly
<1>2. /\ Receives("client") /\ UnderWay("client", wire["client"], Rest("client"))
      /\ cache' = [cache EXCEPT !["client"] = Cached("client")]
      /\ UNCHANGED <<toWrite, unfinished, open, reset, keep, stage, call, established, failed,
                     executing, keepAlive, refused, disturbed, flight, received>>
  BY DEF ReadResponsePart, Receives, Keeps, client, server, tls
<1>3. /\ state["client"] = "READING" /\ stage = "calling" /\ established
      /\ Rest("client") \in Seq(Records)
      /\ ~failed =>
            /\ executing = {} /\ (~refused => NoMessage("server"))
            /\ Ordered(Cached("client"), Rest("client"), toWrite["server"], call)
      /\ ~disturbed =>
            /\ Healthy /\ Answering
            /\ Covered(Cached("client"), Rest("client"), toWrite["server"])
            /\ NoFlight(Rest("client")) /\ ~FlightFirst(wire["server"])
  BY <1>2, ResponseRead
<1>4. /\ state' = state /\ registered'["client"] # {}
  BY <1>1, <1>3, EndFacts DEF ReadResponsePart, RegRecv, Reg, TypeOK
<1>5. cache'["client"] = Cached("client") /\ cache'["server"] = cache["server"]
  BY <1>1, <1>2, EndFacts DEF TypeOK
<1>6. wire'["client"] = wire["client"] /\ wire'["server"] = Rest("client")
  BY <1>1, <1>2, <1>3, UnderWayFacts, EndFacts
<1>7. Buffers'
  BY <1>1, <1>2, <1>4 DEF Buffers, Nothing, Handshaking
<1>8. LostBefore'
  BY <1>1, <1>2, <1>4 DEF LostBefore, Handshaking
<1>9. OwnPieces'
  <2> SUFFICES ASSUME ~failed PROVE OwnPieces'
    BY <1>2 DEF OwnPieces
  <2>1. /\ NoMessage("server") => NoMessage("server")'
        /\ InOrder("server") => InOrder("server")'
    BY <1>2, <1>5, <1>6, EndFacts DEF NoMessage, InOrder
  <2>2. InOrder("client")'
    BY <1>2, <1>3, <1>5, <1>6, EndFacts DEF InOrder
  <2> QED
    BY <1>1, <1>2, <1>3, <2>1, <2>2 DEF OwnPieces, OwnResponse, OwnRequest, OneAfterAnother
<1>10. Undisturbed'
  <2> SUFFICES ASSUME ~disturbed PROVE Healthy' /\ Answering'
    BY <1>1, <1>2, <1>3 DEF Undisturbed, Calling
  <2>1. InTurn'
    <3>1. /\ NoFlight(wire["client"]) => NoFlight(wire'["client"])
          /\ FlightFirst(wire["client"]) => FlightFirst(wire'["client"])
          /\ NoFlight(wire["server"]) => NoFlight(wire'["server"])
          /\ FlightFirst(wire["server"]) => FlightFirst(wire'["server"])
      BY <1>3, <1>6
    <3>2. /\ \A x \in Ends : NoFlight(wire[x]) => NoFlight(wire'[x])
          /\ \A x \in Ends : FlightFirst(wire[x]) => FlightFirst(wire'[x])
          /\ \A x \in Ends : Handshaking(x) => Handshaking(x)'
      BY <1>4, <3>1 DEF Ends, Handshaking
    <3> QED
      BY <1>2, <1>3, <3>2, InTurnKept DEF Healthy
  <2>2. Healthy'
    BY <1>2, <1>3, <1>6, <2>1 DEF Healthy
  <2>3. Covers("client")'
    BY <1>2, <1>3, <1>5, <1>6, EndFacts DEF Covers
  <2>4. Answering'
    BY <1>2, <1>3, <1>4, <1>6, <2>3 DEF Answering, ClientAtWork, Quiet
  <2> QED
    BY <2>2, <2>4
<1> QED
  BY <1>7, <1>8, <1>9, <1>10 DEF Orderly

\* The response is complete: nothing of it is left on the connection.
LEMMA ReadResponseKeepsOrder == ASSUME Structure, Structure', Orderly, ReadResponse PROVE Orderly'
<1>1. /\ TypeOK /\ TypeOK' /\ Closing' /\ Buffers /\ LostBefore /\ OwnPieces /\ Undisturbed
      /\ wire["client"] \in Seq(Records) /\ toWrite["server"] \in Seq(Pieces)
      /\ cache["server"] \in Seq(Pieces) /\ toWrite["client"] \in Seq(Pieces) /\ call \in 0..MaxCalls
  BY SequenceTypes, EndFacts DEF Structure, Orderly
<1>2. /\ Receives("client") /\ Complete("client")
      /\ cache' = [cache EXCEPT !["client"] = <<>>]
      /\ RegNothing("client", "EMPTY")
      /\ EndCall(Answer(Cached("client")[1].call), Rest("client"))
      /\ UNCHANGED <<toWrite, unfinished, disturbed, flight, received>>
  BY DEF ReadResponse, Receives, Keeps, tls
<1>3. /\ state["client"] = "READING" /\ stage = "calling" /\ established /\ Nothing("client")
      /\ Rest("client") \in Seq(Records) /\ Cached("client")[1] \in Pieces
      /\ ~failed =>
            /\ executing = {} /\ (~refused => NoMessage("server"))
            /\ Absent(<<>>, Rest("client"), toWrite["server"])
      /\ ~disturbed => Healthy /\ Answering /\ NoFlight(Rest("client"))
  BY <1>2, ResponseRead
<1>4. /\ state'["client"] = "EMPTY" /\ state'["server"] = state["server"]
  BY <1>1, <1>2, RegNothingFacts, EndFacts DEF States
<1>5. cache'["client"] = <<>> /\ cache'["server"] = cache["server"]
  BY <1>1, <1>2, EndFacts DEF TypeOK
<1>6. /\ (failed' <=> failed)
      /\ stage' = IF keep THEN "idle" ELSE "over"
      /\ open'["server"] = open["server"] /\ (open'["client"] <=> open["client"] /\ keep)
      /\ \/ reset' /\ wire'["client"] = <<>> /\ wire'["server"] = <<>> /\ ~keep
         \/ reset' = reset /\ wire'["client"] = wire["client"] /\ wire'["server"] = Rest("client")
      /\ UNCHANGED <<keep, call, established, executing, keepAlive, refused>>
  <2>1. PICK outcome \in [kind : Outcomes, call : 0..MaxCalls] :
           outcome = Answer(Cached("client")[1].call) /\ outcome.kind = "answer"
    BY <1>3, RecordFacts, OutcomeFacts DEF Answer
  <2> QED
    BY <1>1, <1>2, <1>3, <2>1, EndCallFacts
<1>7. Buffers'
  BY <1>1, <1>2, <1>3, <1>4, <1>6 DEF Buffers, Nothing, Handshaking, Ends
<1>8. LostBefore'
  BY <1>3, <1>4, <1>6 DEF LostBefore, Handshaking
<1>9. ASSUME ~failed
      PROVE  /\ NoMessage("client")' /\ InOrder("client")'
             /\ ~refused => NoMessage("server")' /\ InOrder("server")'
  <2>1. /\ <<>> \in Seq(Pieces) /\ wire'["client"] \in Seq(Records) /\ wire'["server"] \in Seq(Records)
    <3>1. wire' \in [Ends -> Seq(Records)]
      BY <1>1 DEF TypeOK
    <3> QED
      BY <3>1, EndFacts
  <2>2. Absent(<<>>, wire'["server"], toWrite["server"])
    BY <1>1, <1>3, <1>6, <1>9, <2>1, LostFacts
  <2>3. Ordered(<<>>, wire'["server"], toWrite["server"], call)
    BY <1>1, <2>1, <2>2, AbsentFacts
  <2>4. ASSUME ~refused PROVE NoMessage("server")' /\ InOrder("server")'
    <3>1. Absent(cache["server"], wire["client"], toWrite["client"])
      BY <1>3, <1>9, <2>4, EndFacts DEF NoMessage
    <3>2. Absent(cache["server"], wire'["client"], toWrite["client"])
      BY <1>1, <1>6, <3>1, LostFacts
    <3>3. Ordered(cache["server"], wire'["client"], toWrite["client"], call)
      BY <1>1, <2>1, <3>2, AbsentFacts
    <3> QED
      BY <1>2, <1>5, <1>6, <3>2, <3>3, EndFacts DEF NoMessage, InOrder
  <2> QED
    BY <1>2, <1>5, <1>6, <2>2, <2>3, <2>4, EndFacts DEF NoMessage, InOrder
<1>10. OwnPieces'
  BY <1>3, <1>6, <1>9 DEF OwnPieces, OwnResponse, OwnRequest, OneAfterAnother
<1>11. Undisturbed'
  <2> SUFFICES ASSUME ~disturbed, keep, ~refused PROVE Healthy' /\ Resting'
    BY <1>1, <1>2, <1>6 DEF Undisturbed
  <2>1. /\ ~failed /\ Healthy /\ Answering /\ toWrite["server"] = <<>> /\ keepAlive
        /\ open["server"] /\ state["server"] = "READING"
        /\ reset' = reset /\ wire'["client"] = wire["client"] /\ wire'["server"] = Rest("client")
    <3>1. ~failed /\ Healthy /\ Answering
      BY <1>1, <1>3 DEF Undisturbed
    <3>2. toWrite["server"] = <<>>
      BY <1>3, <3>1 DEF Absent
    <3> QED
      BY <1>6, <3>1, <3>2 DEF Answering
  <2>2. wire'["server"] = <<>>
    <3>1. NoNotify(wire'["server"])
      BY <1>1, <1>6, <2>1 DEF Closing
    <3>2. \A i \in DOMAIN Rest("client") : Rest("client")[i] \notin Pieces
      BY <1>3, <2>1 DEF Absent
    <3> QED
      BY <1>3, <2>1, <3>1, <3>2, NothingLeft
  <2>3. Resting'
    BY <1>2, <1>3, <1>4, <1>6, <2>1, <2>2 DEF Resting, Answering, Quiet
  <2>4. InTurn'
    <3>1. flight["client"] = Flights /\ flight["server"] = Flights
      BY <1>3, <2>1, EndFacts DEF Healthy, InTurn, Handshaking
    <3>2. Level
      BY <2>1, <3>1, SessionAssumption, EndFacts DEF Healthy, InTurn, AheadBy
    <3>3. NoFlight(wire'["client"]) /\ NoFlight(wire'["server"])
      BY <1>3, <2>1, <3>2, EndFacts DEF Level
    <3> QED
      BY <1>2, <3>1, <3>3 DEF InTurn, Level, Ends
  <2>5. Healthy'
    BY <1>2, <1>6, <2>1, <2>4 DEF Healthy
  <2> QED
    BY <2>3, <2>5
<1> QED
  BY <1>7, <1>8, <1>10, <1>11 DEF Orderly

\* The next call is made on a connection on which nothing is under way.
LEMMA BeginCallKeepsOrder == ASSUME Structure, Structure', Orderly, BeginCall PROVE Orderly'
<1>1. /\ TypeOK /\ TypeOK' /\ Sizes /\ Buffers /\ LostBefore /\ OwnPieces /\ Undisturbed
  BY DEF Structure, Orderly
<1>1a. call' \in 0..MaxCalls
  BY <1>1, SessionAssumption DEF TypeOK
<1>2. /\ stage = "idle" /\ stage' = "calling" /\ call' \in 0..MaxCalls
      /\ (disturbed' <=> disturbed \/ refused)
      /\ UNCHANGED <<cache, flight, received, open, wire, reset, executing, keepAlive, refused,
                     keep, established, failed>>
  BY <1>1, <1>1a DEF BeginCall, TypeOK, tls, net, server
<1>3. CASE ~established
  <2>1. UNCHANGED <<state, registered, toWrite, unfinished>> /\ failed
    BY <1>1, <1>2, <1>3 DEF BeginCall, LostBefore
  <2>2. Buffers' /\ LostBefore'
    BY <1>1, <1>2, <2>1 DEF Buffers, Nothing, LostBefore, Handshaking
  <2>3. OwnPieces' /\ Undisturbed'
    BY <1>1, <1>2, <2>1 DEF OwnPieces, Undisturbed
  <2> QED
    BY <2>2, <2>3 DEF Orderly
<1>4. CASE established
  <2>1. /\ state' = [state EXCEPT !["client"] = "WRITING"]
        /\ registered' = [registered EXCEPT !["client"] = @ \cup {"OUTPUT"}]
        /\ Prepare("client", Message(call'))
    BY <1>4 DEF BeginCall
  <2>2. /\ state'["client"] = "WRITING" /\ state'["server"] = state["server"]
        /\ registered'["client"] # {} /\ ~Handshaking("client")
    BY <1>1, <1>4, <2>1, EndFacts DEF TypeOK, LostBefore
  <2>3. /\ toWrite'["server"] = toWrite["server"] /\ unfinished'["server"] = unfinished["server"]
        /\ toWrite'["client"] # <<>>
        /\ Nothing("client") => toWrite'["client"] = Message(call') /\ unfinished'["client"] = "none"
    <3>1. PICK k \in 0..MaxCalls : k = call'
      BY <1>2
    <3>2. Prepare("client", Message(k))
      BY <2>1, <3>1
    <3> QED
      BY <1>1, <3>1, <3>2, PrepareFacts, EndFacts DEF Nothing
  <2>4. Buffers'
    BY <1>1, <1>2, <2>2, <2>3 DEF Buffers, Nothing, Handshaking, Ends
  <2>5. LostBefore'
    BY <1>2, <1>4, <2>2 DEF LostBefore, Handshaking
  <2>6. ASSUME ~failed
        PROVE  /\ executing = {} /\ Nothing("client") /\ NoMessage("client")' /\ InOrder("client")'
               /\ ~refused => InOrder("server")' /\ Covers("server")'
    <3>1. executing = {} /\ Nothing("client") /\ NoMessage("client") /\ (~refused => NoMessage("server"))
      BY <1>1, <1>2, <2>6 DEF Buffers, OwnPieces, OneAfterAnother
    <3>2. NoMessage("client")'
      BY <1>2, <2>3, <3>1, NoMessageStays, EndFacts
    <3>3. /\ cache["client"] \in Seq(Pieces) /\ cache["server"] \in Seq(Pieces)
          /\ toWrite["client"] \in Seq(Pieces) /\ toWrite["server"] \in Seq(Pieces)
          /\ wire["client"] \in Seq(Records) /\ wire["server"] \in Seq(Records)
      BY <1>1, SequenceTypes, EndFacts
    <3>4. InOrder("client")'
      <4>1. Ordered(cache["client"], wire["server"], toWrite["server"], call')
        BY <1>2, <3>1, <3>3, AbsentFacts, EndFacts DEF NoMessage
      <4> QED
        BY <1>2, <2>3, <4>1, EndFacts DEF InOrder
    <3>5. ASSUME ~refused PROVE InOrder("server")' /\ Covers("server")'
      <4>1. /\ Ordered(cache["server"], wire["client"], Message(call'), call')
            /\ Covered(cache["server"], wire["client"], Message(call'))
        BY <1>2, <3>1, <3>3, <3>5, AbsentFacts, EndFacts DEF NoMessage
      <4> QED
        BY <1>2, <2>3, <3>1, <4>1, EndFacts DEF InOrder, Covers
    <3> QED
      BY <3>1, <3>2, <3>4, <3>5
  <2>7. OwnPieces'
    BY <1>2, <1>4, <2>6 DEF OwnPieces, OwnResponse, OwnRequest, OneAfterAnother
  <2>8. Undisturbed'
    <3> SUFFICES ASSUME ~disturbed, ~refused PROVE ~failed /\ Healthy' /\ Asking'
      BY <1>2 DEF Undisturbed, Calling
    <3>1. ~failed /\ Healthy /\ Resting
      BY <1>1, <1>2 DEF Undisturbed
    <3>2. Asking'
      BY <1>2, <1>4, <2>2, <2>3, <2>6, <3>1 DEF Asking, Resting, ClientAtWork, ServerReads
    <3>3. InTurn'
      <4>1. \A x \in Ends : Handshaking(x) => Handshaking(x)'
        BY <2>2 DEF Handshaking, Ends
      <4> QED
        BY <1>2, <3>1, <4>1, InTurnKept DEF Healthy
    <3>4. Healthy'
      BY <1>2, <2>3, <2>6, <3>1, <3>3 DEF Healthy
    <3> QED
      BY <3>1, <3>2, <3>4
  <2> QED
    BY <2>4, <2>5, <2>7, <2>8 DEF Orderly
<1> QED
  BY <1>3, <1>4

-----------------------------------------------------------------------------
(* Orderly is an invariant *)

\* The first call begins with the handshake.
LEMMA InitHasOrder == ASSUME Init PROVE Orderly
<1>1. /\ state["client"] = "CONNECTING" /\ state["server"] = "ACCEPTING"
      /\ registered["client"] # {}
      /\ \A e \in Ends : /\ open[e] /\ toWrite[e] = <<>> /\ unfinished[e] = "none" /\ cache[e] = <<>>
                         /\ flight[e] = 0 /\ ~received[e] /\ wire[e] = <<>>
      /\ ~reset /\ stage = "calling" /\ ~established /\ executing = {} /\ ~refused /\ ~failed /\ ~disturbed
  BY EndFacts DEF Init, Both
<1>2. Buffers /\ LostBefore
  BY <1>1, EndFacts DEF Buffers, Nothing, LostBefore, Handshaking, Ends
<1>3. \A e \in Ends : NoMessage(e)
  BY <1>1, EndFacts DEF NoMessage, Absent
<1>4. \A e \in Ends : InOrder(e)
  <2>1. <<>> \in Seq(Pieces) /\ <<>> \in Seq(Records) /\ call \in 0..MaxCalls
    BY SessionAssumption DEF Init
  <2>2. ASSUME NEW e \in Ends PROVE InOrder(e)
    <3>1. /\ cache[e] = <<>> /\ wire[Other(e)] = <<>> /\ toWrite[Other(e)] = <<>>
          /\ Absent(<<>>, <<>>, <<>>)
      BY <1>1, EndFacts DEF Absent
    <3>2. Ordered(<<>>, <<>>, <<>>, call)
      BY <2>1, <3>1, AbsentFacts
    <3> QED
      BY <3>1, <3>2 DEF InOrder
  <2> QED
    BY <2>2
<1>5. OwnPieces
  BY <1>1, <1>3, <1>4, EndFacts DEF OwnPieces, OwnResponse, OwnRequest, OneAfterAnother
<1>6. Undisturbed
  <2>1. Level /\ NoNotify(wire["client"])
    BY <1>1, EndFacts DEF Level, NoFlight, NoNotify
  <2>2. Healthy
    BY <1>1, <2>1, EndFacts DEF Healthy, InTurn, Handshaking, Ends
  <2>3. Greeting
    BY <1>1, EndFacts DEF Greeting, ServerReads, Handshaking
  <2> QED
    BY <1>1, <2>2, <2>3 DEF Undisturbed, Calling
<1> QED
  BY <1>2, <1>5, <1>6 DEF Orderly

\* Nothing happens.
LEMMA StutterKeepsOrder == ASSUME Orderly, UNCHANGED vars PROVE Orderly'
<1>1. UNCHANGED <<state, registered, toWrite, unfinished, cache, flight, sent, received,
                  open, wire, reset, keep, stage, call, established, failed,
                  executing, keepAlive, refused, disturbed>>
  BY DEF vars, machine, tls, net, client, server
<1>2. Buffers' /\ LostBefore'
  BY <1>1 DEF Orderly, Buffers, Nothing, LostBefore, Handshaking
<1>3. OwnPieces'
  BY <1>1 DEF Orderly, OwnPieces, OwnResponse, OwnRequest, OneAfterAnother, InOrder, NoMessage
<1>4. Healthy <=> Healthy'
  BY <1>1 DEF Healthy, InTurn, Level, AheadBy, Handshaking
<1>5. (Calling <=> Calling') /\ (Resting <=> Resting')
  BY <1>1 DEF Calling, Greeting, Asking, Working, Answering, Resting, ClientAtWork, ServerReads,
              Quiet, Covers, Handshaking
<1>6. Undisturbed'
  BY <1>1, <1>4, <1>5 DEF Orderly, Undisturbed
<1> QED
  BY <1>2, <1>3, <1>6 DEF Orderly

\* Orderly is inductive relative to Structure: one lemma per operation.
LEMMA StepKeepsOrder == Structure /\ Structure' /\ Orderly /\ [Next]_vars => Orderly'
<1> SUFFICES ASSUME Structure, Structure', Orderly, [Next]_vars PROVE Orderly'
  OBVIOUS
<1>1. ASSUME NEW e \in Ends, EndStep(e) PROVE Orderly'
  BY <1>1, HandshakeWaitsKeepsOrder, ConnectionClosesKeepsOrder, ShutdownKeepsOrder,
     ShutdownForgottenKeepsOrder, WriteWaitsKeepsOrder, WriteSucceedsKeepsOrder, FailsKeepsOrder
     DEF EndStep
<1>2. CASE ClientStep
  BY <1>1, <1>2, EndFacts, ConnectedKeepsOrder, ReadResponsePartKeepsOrder, ReadResponseKeepsOrder,
     TimesOutKeepsOrder, NothingRegisteredKeepsOrder DEF ClientStep
<1>3. CASE ServerStep
  BY <1>1, <1>3, EndFacts, AcceptedKeepsOrder, ReadRequestPartKeepsOrder, RefuseRequestKeepsOrder,
     ExecuteRequestKeepsOrder, AnswerAtOnceKeepsOrder DEF ServerStep
<1>4. CASE Drop \/ Leave
  BY <1>4, GoAwayKeepsOrder DEF Drop, Leave
<1>5. CASE UNCHANGED vars
  BY <1>5, StutterKeepsOrder
<1> QED
  BY <1>2, <1>3, <1>4, <1>5, PoolAnswersKeepsOrder, BeginCallKeepsOrder, ResetsKeepsOrder DEF Next

\* Every step keeps both: a message is read, under way and written in order and is of the
\* call that waits, and a connection to which nothing has happened is where its call is.
THEOREM OrderHolds == Spec => [](Structure /\ Orderly)
<1>1. Init => Structure /\ Orderly
  BY InitHasStructure, InitHasOrder
<1>2. Structure /\ Orderly /\ [Next]_vars => (Structure /\ Orderly)'
  BY StepKeepsStructure, StepKeepsOrder
<1> QED
  BY <1>1, <1>2, PTL DEF Spec

-----------------------------------------------------------------------------
(* What comes of a call *)

\* The steps that begin and end a call.
LEMMA ResultChanges ==
    ASSUME [Next]_vars, result' # result
    PROVE  ReadResponse \/ BeginCall \/ TimesOut \/ NothingRegistered \/ Fails("client")
<1>1. ASSUME NEW e \in Ends, EndStep(e), ~Fails("client") PROVE result' = result
  BY <1>1 DEF EndStep, HandshakeWaits, ConnectionCloses, Shutdown, Terminates, Fails, Throws, FreeServer,
        ShutdownForgotten, WriteWaits, WriteSucceeds, Writes, client, Ends
<1>2. CASE ClientStep
  BY <1>1, <1>2, EndFacts DEF ClientStep, Connected, ReadResponsePart, client
<1>3. CASE ServerStep
  BY <1>1, <1>3, EndFacts DEF ServerStep, Accepted, ReadRequestPart, RefuseRequest, ExecuteRequest,
        AnswerAtOnce, ReadRequest, client
<1>4. CASE PoolAnswers \/ Drop \/ Leave \/ ClosedEndResets \/ NetworkFails
  BY <1>4 DEF PoolAnswers, Drop, Leave, GoAway, ClosedEndResets, NetworkFails, Resets, client
<1>5. CASE UNCHANGED vars
  BY <1>5 DEF vars, client
<1> QED
  BY <1>2, <1>3, <1>4, <1>5 DEF Next

\* On a connection on which no call has failed a call returns the answer to its own request,
\* however messages are cut into records and whatever fits on the wire (https_client.cc:134-178).
THEOREM OwnAnswers == Spec => AnswerBelongsToCall
<1>1. ASSUME Structure, Orderly, [Next]_vars, result' # result, result'.kind = "answer", ~failed
      PROVE  result'.call = call
  <2>1. CASE ReadResponse
    <3>1. result' = Answer(Cached("client")[1].call) /\ Receives("client")
      BY <2>1 DEF ReadResponse, EndCall
    <3>2. Cached("client")[1].call = call
      BY <1>1, <3>1, ResponseRead
    <3> QED
      BY <3>1, <3>2 DEF Answer
  <2>2. CASE BeginCall \/ TimesOut \/ NothingRegistered \/ Fails("client")
    <3>1. \E k \in {"timeout", "error", "none"} : result' = Failure(k)
      BY <2>2 DEF BeginCall, TimesOut, NothingRegistered, Fails, Throws, EndCall
    <3> QED
      BY <1>1, <3>1 DEF Failure
  <2> QED
    BY <1>1, <2>1, <2>2, ResultChanges
<1> QED
  BY <1>1, OrderHolds, PTL DEF Spec, AnswerBelongsToCall

\* A call fails only when the network failed, its time was over, the server refused a
\* request before it had read it all, or the call comes after a refused request on the
\* same connection; and Client_timeout means that the time was over or
\* that the connection was closed or had failed before (https_client.cc:142-148).
THEOREM FailuresHaveCauses == Spec => FailuresExplained
<1>1. ASSUME Structure, Orderly, [Next]_vars, result' # result
      PROVE  /\ result'.kind \in {"timeout", "error"} => disturbed'
             /\ result'.kind = "timeout" => timed \/ failed \/ received["client"]
  <2>1. CASE ReadResponse \/ BeginCall
    <3>1. result'.kind \in {"answer", "none"}
      BY <2>1 DEF ReadResponse, BeginCall, EndCall, Answer, Failure
    <3> QED
      BY <3>1
  <2>2. CASE TimesOut
    BY <2>2 DEF TimesOut
  <2>3. CASE NothingRegistered
    <3>1. disturbed' = disturbed
      BY <2>3 DEF NothingRegistered
    <3> QED
      BY <1>1, <2>3, <3>1, NothingRegisteredFacts
  <2>4. CASE Fails("client")
    <3>1. stage = "calling" /\ disturbed' = disturbed /\ result' = Failure("error")
      BY <2>4 DEF Fails, Reacts, Throws, EndCall
    <3>2. disturbed
      BY <1>1, <2>4, <3>1, FailsFacts, EndFacts
    <3> QED
      BY <3>1, <3>2 DEF Failure
  <2> QED
    BY <1>1, <2>1, <2>2, <2>3, <2>4, ResultChanges
<1> QED
  BY <1>1, OrderHolds, PTL DEF Spec, FailuresExplained

=============================================================================
