---------------------------- MODULE PacketReader ----------------------------
(***************************************************************************)
(* One connection's Packet_reader (http.cc) under Server_connection        *)
(* (server_conn.cc): requests assembled from the pieces recv() returns.    *)
(*                                                                         *)
(* A request is a record that has, and may have more than, what the reader *)
(* tells apart: the length of its header, whether the header passes        *)
(* Request_header and the validators (`good'), whether it declares its     *)
(* length (`declared'), that length, and whether it expects "100-continue" *)
(* (HttpRequests gives it a header).  An empty line (`Separator' bytes)    *)
(* ends the header; the content holds `length' bytes and no empty line.    *)
(* Caches are counted in bytes: pieces are appended in the order of the    *)
(* stream, so a length says which bytes a cache holds.                     *)
(*                                                                         *)
(* The client sends its next request after the answer to the last one.     *)
(***************************************************************************)
EXTENDS Integers

CONSTANTS Requests,    \* what clients send
          Separator,   \* the length of the empty line
          MaxSizes     \* the limits of set_max_request_sz(), 0 is none

ASSUME RequestAssumption ==
    /\ \A r \in Requests :
          /\ r.head \in Nat /\ r.length \in Nat
          /\ r.good \in BOOLEAN /\ r.declared \in BOOLEAN /\ r.expect \in BOOLEAN
          /\ ~r.declared => r.length = 0
    /\ Separator \in Nat \ {0}
    /\ MaxSizes \subseteq Nat

VARIABLES
    headerCache, contentCache,   \* the lengths of the two caches
    parsed,                      \* is `header' not 0
    constructed, totalSz, continueSent,
    maxSize,     \* pkt_max_sz
    request,     \* the request on its way
    pos,         \* how much of it recv() has returned
    phase        \* of the connection: "reading", "executing", "error" (an HTTP
                 \* error waits to be sent, input is still read) or "closed"

readerVars == <<headerCache, contentCache, parsed, constructed, totalSz, continueSent>>
vars == <<readerVars, maxSize, request, pos, phase>>

HeaderSize(r)  == r.head + Separator
RequestSize(r) == HeaderSize(r) + r.length

-----------------------------------------------------------------------------
Init ==
    /\ headerCache = 0 /\ contentCache = 0 /\ totalSz = 0
    /\ parsed = FALSE /\ constructed = FALSE /\ continueSent = FALSE
    /\ maxSize \in MaxSizes
    /\ request \in Requests
    /\ pos = 0
    /\ phase = "reading"

-----------------------------------------------------------------------------
\* Mutant: nothing is cleared.
KeptAll(n) == n

\* read_packet() begins with clear() when it has constructed a packet: what
\* the rest of the call finds in the caches, and in `header'.
Kept(n) == IF constructed THEN 0 ELSE n

Header == parsed /\ ~constructed

\* content_length() is asked for and the header does not have it.
Undeclared == Header /\ ~request.declared

\* check_sz(): what the header announces is too large; what has come is.
Announced == Header /\ request.length + Kept(headerCache) >= maxSize
Exceeds(n) == Kept(totalSz) + n >= maxSize

\* Mutant: only what the header announces is looked at.
CheckAnnounced(n) == maxSize > 0 /\ (Undeclared \/ Announced)

CheckFails(n) == maxSize > 0 /\ (Undeclared \/ Announced \/ Exceeds(n))

\* check_sz() lets the piece pass, and counts it if there is a limit.
Passes(n) ==
    /\ ~CheckFails(n)
    /\ totalSz' = IF maxSize > 0 THEN Kept(totalSz) + n ELSE Kept(totalSz)

\* recv() returns the next n bytes, and read_request() is called with them.
Receive(n) ==
    /\ phase \in {"reading", "error"}
    /\ n \in 1..(RequestSize(request) - pos)
    /\ pos' = pos + n
    /\ UNCHANGED <<maxSize, request>>

-----------------------------------------------------------------------------
\* read_header() finds the empty line in this piece.
HeaderEnds(n) == ~Header /\ pos < HeaderSize(request) /\ pos + n >= HeaderSize(request)

\* Mutant: the empty line is looked for in the new piece.
SplitPiece(n) ==
    /\ headerCache' = request.head - pos
    /\ contentCache' = Kept(contentCache) + pos + n - HeaderSize(request)

\* It cuts header_cache at the empty line and moves the rest to content_cache.
SplitHeader(n) ==
    /\ headerCache' = Kept(headerCache) + request.head - pos
    /\ contentCache' = Kept(contentCache) + pos + n - HeaderSize(request)

\* The piece goes to content_cache.
AppendContent(n) ==
    /\ headerCache' = headerCache
    /\ contentCache' = contentCache + n

\* The call leaves a header: it had one, or the one in the cache is good.
HeaderThere(n) ==
    \/ Header /\ AppendContent(n)
    \/ HeaderEnds(n) /\ request.good /\ SplitHeader(n)

\* handle_input() catches the Error_response and schedules it.
ScheduleError ==
    /\ phase' = "error"
    /\ UNCHANGED continueSent

\* check_sz() throws: Length_required or Request_too_large.  The piece is counted
\* when the comparison of the total is reached.
RefuseBySize(n) ==
    /\ Receive(n)
    /\ CheckFails(n)
    /\ totalSz' = IF Undeclared \/ Announced THEN Kept(totalSz) ELSE Kept(totalSz) + n
    /\ headerCache' = Kept(headerCache) /\ contentCache' = Kept(contentCache)
    /\ parsed' = Header /\ constructed' = FALSE
    /\ ScheduleError

\* The constructor of Request_header throws: `header' stays 0, the caches have
\* been split.
RefuseHeader(n) ==
    /\ Receive(n)
    /\ Passes(n)
    /\ HeaderEnds(n) /\ ~request.good
    /\ SplitHeader(n)
    /\ parsed' = FALSE /\ constructed' = FALSE
    /\ ScheduleError

\* content_length() throws Length_required.
RefuseLength(n) ==
    /\ Receive(n)
    /\ Passes(n)
    /\ HeaderThere(n)
    /\ ~request.declared
    /\ parsed' = TRUE /\ constructed' = FALSE
    /\ ScheduleError

\* The empty line has not come yet (or was cut off with a bad header).
ReadHeaderPart(n) ==
    /\ Receive(n)
    /\ Passes(n)
    /\ ~Header /\ ~HeaderEnds(n)
    /\ headerCache' = Kept(headerCache) + n
    /\ contentCache' = Kept(contentCache)
    /\ parsed' = FALSE /\ constructed' = FALSE
    /\ UNCHANGED <<continueSent, phase>>

\* Content is missing; a request that expects it is told to go on, once a connection.
ReadContentPart(n) ==
    /\ Receive(n)
    /\ Passes(n)
    /\ HeaderThere(n)
    /\ request.declared
    /\ contentCache' < request.length
    /\ parsed' = TRUE /\ constructed' = FALSE
    /\ continueSent' = (continueSent \/ request.expect)
    /\ UNCHANGED phase

\* Mutant: the packet is complete with the byte before the last.
DeliverEarly(n) ==
    /\ Receive(n)
    /\ Passes(n)
    /\ HeaderThere(n)
    /\ request.declared
    /\ contentCache' + 1 >= request.length
    /\ parsed' = TRUE /\ constructed' = TRUE
    /\ phase' = "executing"
    /\ UNCHANGED continueSent

\* The content is complete: the packet is handed to schedule_execute().
Deliver(n) ==
    /\ Receive(n)
    /\ Passes(n)
    /\ HeaderThere(n)
    /\ request.declared
    /\ contentCache' >= request.length
    /\ parsed' = TRUE /\ constructed' = TRUE
    /\ phase' = "executing"
    /\ UNCHANGED continueSent

-----------------------------------------------------------------------------
\* The response has been sent on a connection that is kept, and the client
\* sends another request.
NextRequest ==
    /\ phase = "executing"
    /\ phase' = "reading"
    /\ request' \in Requests
    /\ pos' = 0
    /\ UNCHANGED <<readerVars, maxSize>>

\* The response or the error has been sent on a connection that is not kept,
\* or the client has closed it.
Close ==
    /\ phase # "closed"
    /\ phase' = "closed"
    /\ UNCHANGED <<readerVars, maxSize, request, pos>>

ReadRequest(n) ==
    \/ RefuseBySize(n) \/ RefuseHeader(n) \/ RefuseLength(n)
    \/ ReadHeaderPart(n) \/ ReadContentPart(n) \/ Deliver(n)

Next ==
    \/ \E n \in 1..(RequestSize(request) - pos) : ReadRequest(n)
    \/ NextRequest
    \/ Close

Spec == Init /\ [][Next]_vars

-----------------------------------------------------------------------------
TypeOK ==
    /\ headerCache \in Nat /\ contentCache \in Nat /\ totalSz \in Nat
    /\ parsed \in BOOLEAN /\ constructed \in BOOLEAN /\ continueSent \in BOOLEAN
    /\ maxSize \in MaxSizes
    /\ request \in Requests
    /\ pos \in 0..RequestSize(request)
    /\ phase \in {"reading", "executing", "error", "closed"}

\* However the stream is cut into pieces and whatever the client goes on to send
\* after an error, the reader never keeps as much as the limit (check_sz() is
\* called before anything is cached, http.cc:417-429, 458-469).
MemoryBounded == maxSize > 0 => headerCache + contentCache < maxSize

Acceptable(r) ==
    /\ r.good /\ r.declared
    /\ maxSize > 0 => RequestSize(r) < maxSize

\* Whether a request is executed or refused depends on the request and not on
\* the pieces it comes in or on the requests before it on the connection; a
\* complete request does not wait, an incomplete one is not executed, a refused
\* one is not executed when more of it comes (http.cc:408-492).
VerdictIndependentOfPieces ==
    /\ phase = "executing" => Acceptable(request) /\ pos = RequestSize(request)
    /\ phase = "error" => ~Acceptable(request)
    /\ phase = "reading" => pos < RequestSize(request)

\* What the reader holds while it reads is what came of this request, split
\* where its header ends: nothing of an earlier one is left over and no byte is
\* lost between pieces (http.cc:431-450, 455-486).
CachesFollowStream ==
    phase = "reading" /\ pos > 0 =>
        /\ parsed <=> pos >= HeaderSize(request)
        /\ headerCache = IF parsed THEN request.head ELSE pos
        /\ contentCache = IF parsed THEN pos - HeaderSize(request) ELSE 0
        /\ maxSize > 0 => totalSz = pos

\* The caches are bounded, and hold what they should.
CachesSound == MemoryBounded /\ CachesFollowStream
=============================================================================
