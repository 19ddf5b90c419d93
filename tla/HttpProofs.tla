----------------------------- MODULE HttpProofs -----------------------------
(***************************************************************************)
(* Proofs about PacketReader, HttpRequests and Conversions.                *)
(*                                                                         *)
(* The packet reader bounds its memory, follows the stream, and decides    *)
(* about a request independently of the pieces it comes in: for requests   *)
(* of any size, any limit, and any empty line.  The invariant adds to the  *)
(* properties when the next call will clear() (ClearsOnce), that the total *)
(* counts what is cached (CountsCaches), and why an error repeats itself   *)
(* with every further piece (ErrorSticks).                                 *)
(*                                                                         *)
(* The library reads back what it writes: binary data, credentials among   *)
(* them, dates, and headers.  Of a header, dump() writes a line for each   *)
(* option (Dumped), parse() makes the same options of the lines            *)
(* (AssignedDump) and refuses none of them (ParseDump).                    *)
(*                                                                         *)
(* Induction over numbers is an argument about a set of them (NatInd): one *)
(* that is not all of Nat has a smallest number missing.                   *)
(***************************************************************************)
EXTENDS HttpRequests, FiniteSetTheorems, NaturalsInduction, WellFoundedInduction, TLAPS

\* The reader starts a request from nothing or from a constructed packet, and
\* has cleared that once it has read.
ClearsOnce ==
    /\ phase = "executing" => constructed
    /\ phase = "error" \/ (phase = "reading" /\ pos > 0) => ~constructed
    /\ phase = "reading" /\ pos = 0 /\ ~constructed =>
           headerCache = 0 /\ contentCache = 0 /\ totalSz = 0 /\ ~parsed

\* With a limit, whatever is cached has been counted.
CountsCaches == maxSize > 0 => headerCache + contentCache <= totalSz

\* `header' is a good header that has come completely.
HeaderOfRequest == Header => request.good /\ pos >= HeaderSize(request)

\* A request that is refused although nothing is wrong with its header, or before
\* its header is complete, has failed check_sz(), and will again.
ErrorSticks ==
    phase = "error" =>
        \/ ~(request.good /\ request.declared) /\ pos >= HeaderSize(request)
        \/ maxSize > 0 /\ totalSz >= maxSize
        \/ maxSize > 0 /\ parsed /\ request.length + headerCache >= maxSize

IInv ==
    /\ TypeOK
    /\ MemoryBounded
    /\ VerdictIndependentOfPieces
    /\ CachesFollowStream
    /\ ClearsOnce
    /\ CountsCaches
    /\ HeaderOfRequest
    /\ ErrorSticks

-----------------------------------------------------------------------------
\* What the assumptions say of the request on its way.
LEMMA RequestFacts ==
    ASSUME TypeOK
    PROVE  /\ request.head \in Nat /\ request.length \in Nat
           /\ request.good \in BOOLEAN /\ request.declared \in BOOLEAN
           /\ request.expect \in BOOLEAN
           /\ ~request.declared => request.length = 0
           /\ Separator \in Nat /\ Separator > 0
           /\ maxSize \in Nat
           /\ HeaderSize(request) = request.head + Separator
           /\ RequestSize(request) = request.head + Separator + request.length
           /\ pos \in Nat /\ pos <= request.head + Separator + request.length
<1>1. /\ request.head \in Nat /\ request.length \in Nat
      /\ request.good \in BOOLEAN /\ request.declared \in BOOLEAN /\ request.expect \in BOOLEAN
  BY RequestAssumption DEF TypeOK
<1>2. maxSize \in Nat /\ Separator \in Nat /\ Separator > 0
  BY RequestAssumption DEF TypeOK
<1>3. ~request.declared => request.length = 0
  BY RequestAssumption DEF TypeOK
<1> QED
  BY <1>1, <1>2, <1>3 DEF TypeOK, HeaderSize, RequestSize

\* What read_packet() finds when it has cleared: whatever has been constructed
\* before, the caches hold what came of this request.
LEMMA ReadingFacts ==
    ASSUME IInv, phase = "reading"
    PROVE  /\ Header => /\ pos >= HeaderSize(request)
                        /\ Kept(headerCache) = request.head
                        /\ Kept(contentCache) = pos - HeaderSize(request)
           /\ ~Header => /\ pos < HeaderSize(request)
                         /\ Kept(headerCache) = pos
                         /\ Kept(contentCache) = 0
           /\ maxSize > 0 => Kept(totalSz) = pos
<1> USE DEF IInv
<1>0. TypeOK OBVIOUS
<1>1. CASE pos = 0 /\ constructed
  BY <1>0, <1>1, RequestFacts DEF Kept, Header, TypeOK
<1>2. CASE pos = 0 /\ ~constructed
  BY <1>0, <1>2, RequestFacts DEF Kept, Header, TypeOK, ClearsOnce
<1>3. CASE pos > 0
  BY <1>0, <1>3, RequestFacts DEF Kept, Header, TypeOK, ClearsOnce, CachesFollowStream
<1> QED
  BY <1>0, <1>1, <1>2, <1>3, RequestFacts

\* Nothing passes check_sz() after an error by size, and no header is read after
\* any error.
LEMMA ErrorFacts ==
    ASSUME IInv, phase = "error", NEW n \in Nat, Passes(n)
    PROVE  /\ ~(request.good /\ request.declared)
           /\ pos >= HeaderSize(request)
           /\ ~HeaderEnds(n)
<1>0. TypeOK BY DEF IInv
<1>1. ~constructed BY DEF IInv, ClearsOnce
<1>2. ~(maxSize > 0 /\ totalSz >= maxSize)
  BY <1>0, <1>1, RequestFacts DEF Passes, CheckFails, Exceeds, Kept, TypeOK
<1>3. ~(maxSize > 0 /\ parsed /\ request.length + headerCache >= maxSize)
  BY <1>0, <1>1, RequestFacts DEF Passes, CheckFails, Announced, Header, Kept, TypeOK
<1>4. ~(request.good /\ request.declared) /\ pos >= HeaderSize(request)
  BY <1>2, <1>3 DEF IInv, ErrorSticks
<1> QED
  BY <1>0, <1>4, RequestFacts DEF HeaderEnds

-----------------------------------------------------------------------------
\* A connection begins with an empty reader.
LEMMA InitInvariant == Init => IInv
<1> SUFFICES ASSUME Init PROVE IInv
  OBVIOUS
<1>1. TypeOK
  <2>1. request \in Requests /\ maxSize \in MaxSizes BY DEF Init
  <2>2. request.head \in Nat /\ request.length \in Nat /\ Separator \in Nat
    BY <2>1, RequestAssumption
  <2>3. pos \in 0..RequestSize(request)
    BY <2>2 DEF Init, HeaderSize, RequestSize
  <2> QED
    BY <2>1, <2>3 DEF Init, TypeOK, HeaderSize, RequestSize
<1>2. maxSize \in Nat /\ 0 < RequestSize(request)
  BY <1>1, RequestFacts
<1> QED
  BY <1>1, <1>2
     DEF Init, IInv, MemoryBounded, VerdictIndependentOfPieces, CachesFollowStream,
         ClearsOnce, CountsCaches, HeaderOfRequest, Header, ErrorSticks

\* The piece is a part of the request, which stays the same.
LEMMA PieceFacts ==
    ASSUME IInv, NEW n \in Int, Receive(n)
    PROVE  /\ n \in Nat /\ n > 0
           /\ pos' = pos + n /\ pos' \in 0..RequestSize(request)
           /\ request' = request /\ maxSize' = maxSize
           /\ HeaderSize(request)' = HeaderSize(request)
           /\ RequestSize(request)' = RequestSize(request)
           /\ phase = "reading" \/ phase = "error"
<1>1. TypeOK BY DEF IInv
<1> QED
  BY <1>1, RequestFacts DEF Receive, HeaderSize, RequestSize

\* What clear() leaves is counted and bounded as before.
LEMMA KeptFacts ==
    ASSUME IInv
    PROVE  /\ Kept(headerCache) \in Nat /\ Kept(contentCache) \in Nat
           /\ Kept(totalSz) \in Nat
           /\ maxSize > 0 => /\ Kept(headerCache) + Kept(contentCache) <= Kept(totalSz)
                             /\ Kept(headerCache) + Kept(contentCache) < maxSize
<1>1. TypeOK BY DEF IInv
<1> QED
  BY <1>1, RequestFacts DEF IInv, Kept, TypeOK, CountsCaches, MemoryBounded

\* A piece that passes is counted, below the limit.
LEMMA PassesFacts ==
    ASSUME IInv, NEW n \in Nat, Passes(n)
    PROVE  /\ totalSz' \in Nat
           /\ maxSize > 0 => totalSz' = Kept(totalSz) + n /\ totalSz' < maxSize
<1>1. TypeOK BY DEF IInv
<1> QED
  BY <1>1, KeptFacts, RequestFacts DEF Passes, CheckFails, Exceeds

\* The two conditions on memory hold after a step that changes no limit.
LEMMA MemoryFacts ==
    ASSUME TypeOK', maxSize \in Nat, maxSize' = maxSize,
           maxSize > 0 => /\ headerCache' + contentCache' <= totalSz'
                          /\ headerCache' + contentCache' < maxSize
    PROVE  MemoryBounded' /\ CountsCaches'
  BY DEF MemoryBounded, CountsCaches

\* What is in the caches when the header is there: it has been split, or there is
\* more content.
LEMMA HeaderThereFacts ==
    ASSUME IInv, NEW n \in Int, Receive(n), Passes(n), HeaderThere(n)
    PROVE  /\ request.good
           /\ pos' >= HeaderSize(request)
           /\ headerCache' \in Nat /\ contentCache' \in Nat
           /\ headerCache' + contentCache' <= Kept(headerCache) + Kept(contentCache) + n
           /\ phase = "reading" => /\ headerCache' = request.head
                                   /\ contentCache' = pos' - HeaderSize(request)
<1>0. TypeOK BY DEF IInv
<1>1. CASE Header /\ AppendContent(n)
  <2>1. headerCache' = Kept(headerCache) /\ contentCache' = Kept(contentCache) + n
    BY <1>1 DEF AppendContent, Header, Kept
  <2>2. request.good /\ pos >= HeaderSize(request)
    BY <1>1 DEF IInv, HeaderOfRequest
  <2> QED
    BY <1>0, <1>1, <2>1, <2>2, PieceFacts, KeptFacts, ReadingFacts, RequestFacts
<1>2. CASE HeaderEnds(n) /\ request.good /\ SplitHeader(n)
  <2>1. phase = "reading"
    BY <1>2, ErrorFacts, PieceFacts
  <2> QED
    BY <1>0, <1>2, <2>1, PieceFacts, KeptFacts, ReadingFacts, RequestFacts
       DEF SplitHeader, HeaderEnds
<1> QED
  BY <1>1, <1>2 DEF HeaderThere

-----------------------------------------------------------------------------
\* The calls of read_packet() that return, one by one: they keep the total, the
\* caches and the phase in step.
LEMMA DeliverStep ==
    ASSUME IInv, NEW n \in Int, Deliver(n)
    PROVE  IInv'
<1> USE DEF Deliver
<1>0. TypeOK BY DEF IInv
<1>1. phase = "reading" /\ request.good /\ request.declared
  BY PieceFacts, HeaderThereFacts, ErrorFacts
<1>2. contentCache' >= request.length /\ pos' <= RequestSize(request)
  BY PieceFacts
<1>3. /\ headerCache' = request.head /\ contentCache' = request.length
      /\ pos' = RequestSize(request) /\ pos' >= HeaderSize(request)
  BY <1>0, <1>1, <1>2, HeaderThereFacts, PieceFacts, RequestFacts
<1>4. TypeOK'
  BY <1>0, <1>3, PieceFacts, PassesFacts, RequestFacts DEF TypeOK, HeaderSize, RequestSize
<1>5. maxSize > 0 => /\ totalSz' = pos' /\ totalSz' < maxSize
                     /\ headerCache' + contentCache' <= totalSz'
                     /\ headerCache' + contentCache' < maxSize
  BY <1>0, <1>1, <1>3, ReadingFacts, PassesFacts, PieceFacts, RequestFacts
<1>6. Acceptable(request)'
  BY <1>1, <1>3, <1>5, PieceFacts DEF Acceptable
<1>7. MemoryBounded' /\ CountsCaches'
  BY <1>0, <1>4, <1>5, PieceFacts, RequestFacts, MemoryFacts
<1> QED
  BY <1>3, <1>4, <1>6, <1>7, PieceFacts
     DEF IInv, VerdictIndependentOfPieces, CachesFollowStream, ClearsOnce,
         HeaderOfRequest, Header, ErrorSticks

\* A piece of the content is kept.
LEMMA ReadContentPartStep ==
    ASSUME IInv, NEW n \in Int, ReadContentPart(n)
    PROVE  IInv'
<1> USE DEF ReadContentPart
<1>0. TypeOK BY DEF IInv
<1>1. phase = "reading" /\ phase' = "reading" /\ request.good /\ request.declared
  BY PieceFacts, HeaderThereFacts, ErrorFacts
<1>2. /\ headerCache' = request.head /\ contentCache' = pos' - HeaderSize(request)
      /\ pos' > 0 /\ pos' >= HeaderSize(request) /\ pos' < RequestSize(request)
  BY <1>0, <1>1, HeaderThereFacts, PieceFacts, RequestFacts
<1>3. TypeOK'
  BY <1>0, <1>1, <1>2, PieceFacts, PassesFacts, HeaderThereFacts, RequestFacts
     DEF TypeOK, HeaderSize, RequestSize
<1>4. maxSize > 0 => /\ totalSz' = pos' /\ totalSz' < maxSize
                     /\ headerCache' + contentCache' <= totalSz'
                     /\ headerCache' + contentCache' < maxSize
  BY <1>0, <1>1, <1>2, ReadingFacts, PassesFacts, PieceFacts, RequestFacts
<1>5. MemoryBounded' /\ CountsCaches'
  BY <1>0, <1>3, <1>4, PieceFacts, RequestFacts, MemoryFacts
<1> QED
  BY <1>1, <1>2, <1>3, <1>4, <1>5, PieceFacts
     DEF IInv, VerdictIndependentOfPieces, CachesFollowStream, ClearsOnce,
         HeaderOfRequest, Header, ErrorSticks

\* A piece of the header is kept: the empty line has not come yet.
LEMMA ReadHeaderPartStep ==
    ASSUME IInv, NEW n \in Int, ReadHeaderPart(n)
    PROVE  IInv'
<1> USE DEF ReadHeaderPart
<1>0. TypeOK BY DEF IInv
<1>1. TypeOK'
  <2>1. headerCache' \in Nat /\ contentCache' \in Nat /\ totalSz' \in Nat
    BY PieceFacts, PassesFacts, KeptFacts
  <2> QED
    BY <1>0, <2>1, PieceFacts DEF TypeOK
<1>2. MemoryBounded' /\ CountsCaches'
  <2>1. maxSize > 0 => /\ headerCache' + contentCache' <= totalSz'
                       /\ headerCache' + contentCache' < maxSize
    BY <1>0, PieceFacts, PassesFacts, KeptFacts, RequestFacts
  <2> QED
    BY <1>0, <1>1, <2>1, PieceFacts, RequestFacts, MemoryFacts
<1>3. phase' = phase /\ ~parsed' /\ ~constructed' /\ pos' > 0
  BY <1>0, PieceFacts DEF TypeOK
<1>4. CASE phase = "reading"
  <2>1. /\ ~(pos' >= HeaderSize(request)) /\ pos' < RequestSize(request)
        /\ headerCache' = pos' /\ contentCache' = 0
        /\ maxSize > 0 => totalSz' = pos'
    BY <1>0, <1>4, PieceFacts, PassesFacts, ReadingFacts, RequestFacts DEF HeaderEnds
  <2> QED
    BY <1>1, <1>2, <1>3, <1>4, <2>1, PieceFacts
       DEF IInv, VerdictIndependentOfPieces, CachesFollowStream, ClearsOnce,
           HeaderOfRequest, Header, ErrorSticks
<1>5. CASE phase = "error"
  <2>1. ~(request.good /\ request.declared) /\ pos' >= HeaderSize(request)
    BY <1>0, <1>5, PieceFacts, ErrorFacts, RequestFacts
  <2> QED
    BY <1>1, <1>2, <1>3, <1>5, <2>1, PieceFacts
       DEF IInv, VerdictIndependentOfPieces, Acceptable, CachesFollowStream, ClearsOnce,
           HeaderOfRequest, Header, ErrorSticks
<1> QED
  BY <1>4, <1>5, PieceFacts

\* The calls that throw: the error stays, and what is cached stays counted.
LEMMA RefuseBySizeStep ==
    ASSUME IInv, NEW n \in Int, RefuseBySize(n)
    PROVE  IInv'
<1> USE DEF RefuseBySize, ScheduleError
<1>0. TypeOK BY DEF IInv
<1>1. /\ headerCache' \in Nat /\ contentCache' \in Nat /\ totalSz' \in Nat
      /\ totalSz' >= Kept(totalSz)
  BY PieceFacts, KeptFacts
<1>2. TypeOK'
  BY <1>0, <1>1, PieceFacts DEF TypeOK, Header
<1>3. MemoryBounded' /\ CountsCaches'
  <2>1. maxSize > 0 => /\ headerCache' + contentCache' <= totalSz'
                       /\ headerCache' + contentCache' < maxSize
    BY <1>1, KeptFacts
  <2> QED
    BY <1>0, <1>2, <2>1, PieceFacts, RequestFacts, MemoryFacts
<1>4. HeaderOfRequest'
  <2>1. Header => request.good /\ pos' >= HeaderSize(request)
    BY <1>0, PieceFacts, RequestFacts DEF IInv, HeaderOfRequest
  <2> QED
    BY <2>1, PieceFacts DEF HeaderOfRequest, Header
<1>5. ErrorSticks'
  <2>1. CASE Undeclared
    BY <1>4, <2>1, PieceFacts DEF ErrorSticks, Undeclared, HeaderOfRequest, Header
  <2>2. CASE Announced
    BY <2>2, PieceFacts DEF ErrorSticks, Announced, Header, CheckFails
  <2>3. CASE ~Undeclared /\ ~Announced
    BY <2>3, PieceFacts DEF ErrorSticks, CheckFails, Exceeds
  <2> QED
    BY <2>1, <2>2, <2>3
<1>6. ~Acceptable(request)
  <2>1. CASE phase = "error"
    BY <2>1 DEF IInv, VerdictIndependentOfPieces
  <2>2. CASE phase = "reading" /\ Undeclared
    BY <2>2 DEF Acceptable, Undeclared
  <2>3. CASE phase = "reading" /\ Announced
    <3>1. RequestSize(request) >= maxSize
      BY <1>0, <2>3, ReadingFacts, RequestFacts DEF Announced
    <3> QED
      BY <1>0, <3>1, RequestFacts DEF Acceptable, CheckFails
  <2>4. CASE phase = "reading" /\ Exceeds(n)
    <3>1. maxSize > 0 => RequestSize(request) >= maxSize
      BY <1>0, <2>4, ReadingFacts, RequestFacts, PieceFacts DEF Exceeds
    <3> QED
      BY <1>0, <3>1, RequestFacts DEF Acceptable, CheckFails
  <2> QED
    BY <2>1, <2>2, <2>3, <2>4, PieceFacts DEF CheckFails
<1> QED
  BY <1>2, <1>3, <1>4, <1>5, <1>6, PieceFacts
     DEF IInv, VerdictIndependentOfPieces, Acceptable, CachesFollowStream, ClearsOnce

\* The header is refused when it has come.
LEMMA RefuseHeaderStep ==
    ASSUME IInv, NEW n \in Int, RefuseHeader(n)
    PROVE  IInv'
<1> USE DEF RefuseHeader, ScheduleError
<1>0. TypeOK BY DEF IInv
<1>1. phase = "reading" /\ ~Header
  BY PieceFacts, ErrorFacts DEF HeaderEnds
<1>2. /\ headerCache' \in Nat /\ contentCache' \in Nat
      /\ headerCache' + contentCache' <= Kept(headerCache) + Kept(contentCache) + n
      /\ pos' >= HeaderSize(request)
  BY <1>0, <1>1, PieceFacts, ReadingFacts, RequestFacts DEF SplitHeader, HeaderEnds
<1>3. TypeOK'
  BY <1>0, <1>2, PieceFacts, PassesFacts DEF TypeOK
<1>4. MemoryBounded' /\ CountsCaches'
  <2>1. maxSize > 0 => /\ headerCache' + contentCache' <= totalSz'
                       /\ headerCache' + contentCache' < maxSize
    BY <1>0, <1>2, PieceFacts, PassesFacts, KeptFacts, RequestFacts
  <2> QED
    BY <1>0, <1>3, <2>1, PieceFacts, RequestFacts, MemoryFacts
<1> QED
  BY <1>2, <1>3, <1>4, PieceFacts
     DEF IInv, VerdictIndependentOfPieces, Acceptable, CachesFollowStream, ClearsOnce,
         HeaderOfRequest, Header, ErrorSticks

\* A request without a Content-length is refused.
LEMMA RefuseLengthStep ==
    ASSUME IInv, NEW n \in Int, RefuseLength(n)
    PROVE  IInv'
<1> USE DEF RefuseLength, ScheduleError
<1>0. TypeOK BY DEF IInv
<1>1. TypeOK'
  BY <1>0, PieceFacts, PassesFacts, HeaderThereFacts DEF TypeOK
<1>2. MemoryBounded' /\ CountsCaches'
  <2>1. maxSize > 0 => /\ headerCache' + contentCache' <= totalSz'
                       /\ headerCache' + contentCache' < maxSize
    BY <1>0, PieceFacts, PassesFacts, HeaderThereFacts, KeptFacts, RequestFacts
  <2> QED
    BY <1>0, <1>1, <2>1, PieceFacts, RequestFacts, MemoryFacts
<1>3. request.good /\ pos' >= HeaderSize(request)
  BY PieceFacts, HeaderThereFacts
<1> QED
  BY <1>1, <1>2, <1>3, PieceFacts
     DEF IInv, VerdictIndependentOfPieces, Acceptable, CachesFollowStream, ClearsOnce,
         HeaderOfRequest, Header, ErrorSticks

-----------------------------------------------------------------------------
\* After the answer the next request comes, and the reader clears itself before it reads.
LEMMA NextRequestStep ==
    ASSUME IInv, NextRequest
    PROVE  IInv'
<1> USE DEF NextRequest
<1>0. TypeOK /\ constructed BY DEF IInv, ClearsOnce
<1>1. /\ RequestSize(request)' \in Nat /\ RequestSize(request)' > 0
  <2>1. /\ request'.head \in Nat /\ request'.length \in Nat
        /\ Separator \in Nat /\ Separator > 0
    BY RequestAssumption
  <2> QED
    BY <2>1 DEF RequestSize, HeaderSize
<1>2. TypeOK'
  <2>1. pos' \in 0..RequestSize(request)'
    BY <1>1
  <2> QED
    BY <1>0, <2>1 DEF TypeOK, readerVars
<1> QED
  BY <1>0, <1>1, <1>2
     DEF IInv, readerVars, MemoryBounded, VerdictIndependentOfPieces, CachesFollowStream,
         ClearsOnce, CountsCaches, HeaderOfRequest, Header, ErrorSticks

\* The connection is closed.
LEMMA CloseStep ==
    ASSUME IInv, Close
    PROVE  IInv'
  BY DEF Close, IInv, readerVars, TypeOK, MemoryBounded, VerdictIndependentOfPieces,
         CachesFollowStream, ClearsOnce, CountsCaches, HeaderOfRequest, Header,
         HeaderSize, RequestSize, ErrorSticks

\* Nothing is received.
LEMMA StutterStep ==
    ASSUME IInv, UNCHANGED vars
    PROVE  IInv'
  BY DEF vars, IInv, readerVars, TypeOK, MemoryBounded, VerdictIndependentOfPieces,
         Acceptable, CachesFollowStream, ClearsOnce, CountsCaches, HeaderOfRequest, Header,
         HeaderSize, RequestSize, ErrorSticks

\* All of it holds after every piece of every request (http.cc:408-492).
THEOREM InvariantHolds == Spec => []IInv
<1>1. IInv /\ [Next]_vars => IInv'
  <2> SUFFICES ASSUME IInv, [Next]_vars PROVE IInv'
    OBVIOUS
  <2>1. ASSUME NEW n \in 1..(RequestSize(request) - pos), ReadRequest(n)
        PROVE  IInv'
    <3>1. n \in Int
      OBVIOUS
    <3> QED
      BY <2>1, <3>1, RefuseBySizeStep, RefuseHeaderStep, RefuseLengthStep,
         ReadHeaderPartStep, ReadContentPartStep, DeliverStep DEF ReadRequest
  <2> QED
    BY <2>1, NextRequestStep, CloseStep, StutterStep DEF Next
<1> QED
  BY <1>1, InitInvariant, PTL DEF Spec

\* Every variable keeps its type.
THEOREM ReaderTypeCorrect == Spec => []TypeOK
<1>1. IInv => TypeOK BY DEF IInv
<1> QED BY <1>1, InvariantHolds, PTL

\* The reader never keeps as much as the limit, whatever it receives
\* (http.cc:417-429).
THEOREM MemoryIsBounded == Spec => []MemoryBounded
<1>1. IInv => MemoryBounded BY DEF IInv
<1> QED BY <1>1, InvariantHolds, PTL

\* Whether a request is executed depends on the request alone
\* (http.cc:408-492).
THEOREM VerdictIsIndependent == Spec => []VerdictIndependentOfPieces
<1>1. IInv => VerdictIndependentOfPieces BY DEF IInv
<1> QED BY <1>1, InvariantHolds, PTL

\* The caches hold what came of the request (http.cc:431-450, 455-486).
THEOREM CachesAreFaithful == Spec => []CachesFollowStream
<1>1. IInv => CachesFollowStream BY DEF IInv
<1> QED BY <1>1, InvariantHolds, PTL

\* Both (http.cc:417-450, 455-486).
THEOREM CachesAreSound == Spec => []CachesSound
<1>1. MemoryBounded /\ CachesFollowStream => CachesSound BY DEF CachesSound
<1> QED BY <1>1, MemoryIsBounded, CachesAreFaithful, PTL

-----------------------------------------------------------------------------
(* Base64 and dates *)

\* A byte between characters.
LEMMA Halves ==
    /\ \A n \in Byte : \E h \in 0..63, l \in 0..3 : n = h * 4 + l
    /\ \A n \in Byte : \E h \in 0..15, l \in 0..15 : n = h * 16 + l
    /\ \A n \in Byte : \E h \in 0..3, l \in 0..63 : n = h * 64 + l
<1>1. ASSUME NEW n \in Byte PROVE \E h \in 0..63, l \in 0..3 : n = h * 4 + l
  <2>1. n \div 4 \in 0..63 /\ n % 4 \in 0..3 /\ n = (n \div 4) * 4 + (n % 4)
    BY DEF Byte
  <2> QED
    BY <2>1
<1>2. ASSUME NEW n \in Byte PROVE \E h \in 0..15, l \in 0..15 : n = h * 16 + l
  <2>1. n \div 16 \in 0..15 /\ n % 16 \in 0..15 /\ n = (n \div 16) * 16 + (n % 16)
    BY DEF Byte
  <2> QED
    BY <2>1
<1>3. ASSUME NEW n \in Byte PROVE \E h \in 0..3, l \in 0..63 : n = h * 64 + l
  <2>1. n \div 64 \in 0..3 /\ n % 64 \in 0..63 /\ n = (n \div 64) * 64 + (n % 64)
    BY DEF Byte
  <2> QED
    BY <2>1
<1> QED
  BY <1>1, <1>2, <1>3

\* The bits of three bytes in four characters, and back.
LEMMA Bits ==
    ASSUME NEW a \in Byte, NEW b \in Byte, NEW e \in Byte
    PROVE  LET c  == a * 65536 + b * 256 + e
               c1 == c \div 262144
               c2 == (c \div 4096) % 64
               c3 == (c \div 64) % 64
               c4 == c % 64
           IN  /\ c1 \in Index /\ c2 \in Index /\ c3 \in Index /\ c4 \in Index
               /\ (c1 * 64 + c2) \div 16 = a
               /\ ((c2 * 64 + c3) \div 4) % 256 = b
               /\ (c3 * 64 + c4) % 256 = e
<1>1. PICK a1 \in 0..63, a2 \in 0..3 : a = a1 * 4 + a2
  BY Halves
<1>2. PICK b1 \in 0..15, b2 \in 0..15 : b = b1 * 16 + b2
  BY Halves
<1>3. PICK e1 \in 0..3, e2 \in 0..63 : e = e1 * 64 + e2
  BY Halves
<1> DEFINE c == a * 65536 + b * 256 + e
<1>4. c = a1 * 262144 + (a2 * 16 + b1) * 4096 + (b2 * 4 + e1) * 64 + e2
  BY <1>1, <1>2, <1>3
<1> HIDE DEF c
<1>5. c \div 262144 = a1
  BY <1>4
<1>6. (c \div 4096) % 64 = a2 * 16 + b1
  <2>1. c \div 4096 = a1 * 64 + (a2 * 16 + b1)
    BY <1>4
  <2> QED
    BY <2>1
<1>7. (c \div 64) % 64 = b2 * 4 + e1
  <2>1. c \div 64 = (a1 * 64 + (a2 * 16 + b1)) * 64 + (b2 * 4 + e1)
    BY <1>4
  <2> QED
    BY <2>1
<1>8. c % 64 = e2
  BY <1>4
<1>9. /\ (a1 * 64 + (a2 * 16 + b1)) \div 16 = a
      /\ (((a2 * 16 + b1) * 64 + (b2 * 4 + e1)) \div 4) % 256 = b
      /\ ((b2 * 4 + e1) * 64 + e2) % 256 = e
  <2>1. (a1 * 64 + (a2 * 16 + b1)) \div 16 = a
    BY <1>1
  <2>2. ((a2 * 16 + b1) * 64 + (b2 * 4 + e1)) \div 4 = a2 * 256 + b
    BY <1>2
  <2>3. (a2 * 256 + b) % 256 = b
    BY DEF Byte
  <2>4. (b2 * 4 + e1) * 64 + e2 = b2 * 256 + e
    BY <1>3
  <2>5. (b2 * 256 + e) % 256 = e
    BY DEF Byte
  <2> QED
    BY <2>1, <2>2, <2>3, <2>4, <2>5
<1>10. a1 \in Index /\ a2 * 16 + b1 \in Index /\ b2 * 4 + e1 \in Index /\ e2 \in Index
  BY DEF Index
<1> DEFINE c1 == c \div 262144
           c2 == (c \div 4096) % 64
           c3 == (c \div 64) % 64
           c4 == c % 64
<1>11. c1 = a1 /\ c2 = a2 * 16 + b1 /\ c3 = b2 * 4 + e1 /\ c4 = e2
  BY <1>5, <1>6, <1>7, <1>8
<1> HIDE DEF c1, c2, c3, c4
<1>12. /\ c1 \in Index /\ c2 \in Index /\ c3 \in Index /\ c4 \in Index
       /\ (c1 * 64 + c2) \div 16 = a
       /\ ((c2 * 64 + c3) \div 4) % 256 = b
       /\ (c3 * 64 + c4) % 256 = e
  BY <1>9, <1>10, <1>11, SMT
<1> QED
  BY <1>12, SMT DEF c, c1, c2, c3, c4

\* Three bytes, or the last one or two, become four characters that become the same
\* bytes (Binary_data::encode(), decode_four()).
THEOREM GroupsReadBack ==
    ASSUME NEW data \in Seq(Byte), NEW i \in 1..Len(data)
    PROVE  DecodeFour(FourFrom(data, i)) =
              {IF i + 2 <= Len(data) THEN <<data[i], data[i + 1], data[i + 2]>>
               ELSE IF i + 1 <= Len(data) THEN <<data[i], data[i + 1]>>
               ELSE <<data[i]>>}
<1> DEFINE a == data[i]
           b == IF i + 1 <= Len(data) THEN data[i + 1] ELSE 0
           e == IF i + 2 <= Len(data) THEN data[i + 2] ELSE 0
           c == a * 65536 + b * 256 + e
           c1 == c \div 262144
           c2 == (c \div 4096) % 64
           c3 == (c \div 64) % 64
           c4 == c % 64
<1>1. a \in Byte /\ b \in Byte /\ e \in Byte
  <2>1. 0 \in Byte
    BY DEF Byte
  <2>2. i + 1 <= Len(data) => i + 1 \in 1..Len(data)
    OBVIOUS
  <2>3. i + 2 <= Len(data) => i + 2 \in 1..Len(data)
    OBVIOUS
  <2> QED
    BY <2>1, <2>2, <2>3
<1>2. FourFrom(data, i) = << c1, c2, IF i + 1 <= Len(data) THEN c3 ELSE Pad,
                             IF i + 2 <= Len(data) THEN c4 ELSE Pad >>
  BY DEF FourFrom
<1> HIDE DEF a, b, e
<1>3. /\ c1 \in Index /\ c2 \in Index /\ c3 \in Index /\ c4 \in Index
      /\ (c1 * 64 + c2) \div 16 = a
      /\ ((c2 * 64 + c3) \div 4) % 256 = b
      /\ (c3 * 64 + c4) % 256 = e
  BY <1>1, Bits
<1> HIDE DEF c1, c2, c3, c4
<1>4. Pad \notin Index
  BY DEF Pad, Index
<1>5. CASE i + 2 <= Len(data)
  <2>1. FourFrom(data, i) = <<c1, c2, c3, c4>>
    BY <1>2, <1>5
  <2>2. DecodeFour(<<c1, c2, c3, c4>>) = {<<a, b, e>>}
    BY <1>3, <1>4 DEF DecodeFour
  <2>3. b = data[i + 1] /\ e = data[i + 2] /\ a = data[i]
    BY <1>5 DEF a, b, e
  <2> QED
    BY <1>5, <2>1, <2>2, <2>3
<1>6. CASE i + 1 = Len(data)
  <2>1. FourFrom(data, i) = <<c1, c2, c3, Pad>>
    BY <1>2, <1>6
  <2>2. DecodeFour(<<c1, c2, c3, Pad>>) = {<<a, b>>}
    BY <1>3, <1>4 DEF DecodeFour
  <2>3. b = data[i + 1] /\ a = data[i]
    BY <1>6 DEF a, b
  <2> QED
    BY <1>6, <2>1, <2>2, <2>3
<1>7. CASE i = Len(data)
  <2>1. FourFrom(data, i) = <<c1, c2, Pad, Pad>>
    BY <1>2, <1>7
  <2>2. DecodeFour(<<c1, c2, Pad, Pad>>) = {<<a>>}
    BY <1>3, <1>4 DEF DecodeFour
  <2>3. a = data[i]
    BY DEF a
  <2> QED
    BY <1>7, <2>1, <2>2, <2>3
<1> QED
  BY <1>5, <1>6, <1>7

\* A set of numbers has a smallest one.
LEMMA NatMin ==
    ASSUME NEW S \in SUBSET Nat, S # {}
    PROVE  \E x \in S : \A y \in S : x <= y
<1> DEFINE R == OpToRel(<, Nat)
<1>1. IsWellFoundedOn(R, Nat)
  BY NatLessThanWellFounded
<1>2. \A x, y \in Nat : <<x, y>> \in R <=> x < y
  BY DEF OpToRel
<1> HIDE DEF R
<1>3. \E x \in S : \A y \in S : ~ (<<y, x>> \in R)
  BY <1>1, WFMin
<1>4. PICK x \in S : \A y \in S : ~ (<<y, x>> \in R)
  BY <1>3
<1>5. ASSUME NEW y \in S PROVE x <= y
  <2>1. x \in Nat /\ y \in Nat
    OBVIOUS
  <2>2. ~(y < x)
    BY <1>2, <1>4, <2>1
  <2> QED
    BY <2>1, <2>2
<1> QED
  BY <1>5

\* Induction, for a set of numbers.
LEMMA NatInd ==
    ASSUME NEW S \in SUBSET Nat, 0 \in S, \A n \in S : n + 1 \in S
    PROVE  S = Nat
<1>1. ASSUME Nat \ S # {} PROVE FALSE
  <2>1. PICK x \in Nat \ S : \A y \in Nat \ S : x <= y
    BY <1>1, NatMin
  <2>2. x # 0 /\ x - 1 \in Nat /\ x - 1 \notin Nat \ S
    BY <2>1
  <2> QED
    BY <2>1, <2>2
<1> QED
  BY <1>1

\* A sequence cut in two, and put together.
LEMMA NextPiece ==
    ASSUME NEW A, NEW d \in Seq(A), NEW m \in Nat, NEW k \in Nat, m <= k, k <= Len(d)
    PROVE  /\ SubSeq(d, 1, m) \o SubSeq(d, m + 1, k) = SubSeq(d, 1, k)
           /\ SubSeq(d, 1, k) \in Seq(A)
<1> DEFINE l == SubSeq(d, 1, m)
           r == SubSeq(d, m + 1, k)
           a == SubSeq(d, 1, k)
<1>1. /\ l \in Seq(A) /\ Len(l) = m /\ \A i \in 1..m : l[i] = d[i]
  OBVIOUS
<1>2. /\ r \in Seq(A) /\ Len(r) = k - m /\ \A i \in 1..(k - m) : r[i] = d[m + i]
  OBVIOUS
<1>3. /\ a \in Seq(A) /\ Len(a) = k /\ \A i \in 1..k : a[i] = d[i]
  OBVIOUS
<1> HIDE DEF l, r, a
<1> DEFINE c == l \o r
<1>4. /\ c \in Seq(A) /\ Len(c) = k
      /\ \A i \in 1..k : c[i] = IF i <= m THEN l[i] ELSE r[i - m]
  BY <1>1, <1>2
<1> HIDE DEF c
<1>5. ASSUME NEW i \in 1..k PROVE c[i] = a[i]
  <2>1. CASE i <= m
    BY <1>1, <1>3, <1>4, <2>1
  <2>2. CASE m < i
    <3>1. PICK j \in 1..(k - m) : i = m + j
      BY <2>2
    <3>2. c[i] = r[j] /\ a[i] = d[i]
      BY <1>3, <1>4, <2>2, <3>1
    <3> QED
      BY <1>2, <3>1, <3>2
  <2> QED
    BY <2>1, <2>2
<1>6. c = a
  BY <1>3, <1>4, <1>5
<1> QED
  BY <1>3, <1>6 DEF c, l, r, a

\* A sequence cut into pieces, and put together.
LEMMA FlattenPieces ==
    ASSUME NEW A, NEW d \in Seq(A), NEW n \in Nat, NEW s, DOMAIN s = 1..n, Len(s) = n,
           NEW cut \in [0..n -> Nat], cut[0] = 0, cut[n] = Len(d),
           \A i \in 1..n : /\ cut[i - 1] <= cut[i] /\ cut[i] <= Len(d)
                           /\ s[i] = SubSeq(d, cut[i - 1] + 1, cut[i]),
           n = 0 => s = <<>>
    PROVE  FlattenSeq(s) = d
<1>1. CASE n = 0
  <2>1. d = <<>>
    BY <1>1
  <2> QED
    BY <1>1, <2>1 DEF FlattenSeq
<1>2. CASE n # 0
  <2> DEFINE flatten[i \in 1..Len(s)] ==
                IF i = 1 THEN s[i] ELSE flatten[i-1] \o s[i]
             upTo == [i \in 1..Len(s) |-> SubSeq(d, 1, cut[i])]
  <2>1. FlattenSeq(s) = flatten[Len(s)]
    BY <1>2 DEF FlattenSeq
  <2>2. ASSUME NEW i \in 1..n PROVE SubSeq(d, 1, cut[i]) = IF i = 1 THEN s[i] ELSE SubSeq(d, 1, cut[i - 1]) \o s[i]
    <3>0. i \in 0..n /\ i - 1 \in 0..n
      OBVIOUS
    <3>1. PICK m \in Nat, k \in Nat : m = cut[i - 1] /\ k = cut[i]
      BY <3>0
    <3>2. m <= k /\ k <= Len(d) /\ s[i] = SubSeq(d, m + 1, k)
      BY <3>1
    <3>3. SubSeq(d, 1, m) \o SubSeq(d, m + 1, k) = SubSeq(d, 1, k)
      BY <3>2, NextPiece, ZenonT(60)
    <3>4. i = 1 => m = 0
      BY <3>1
    <3>5. i = 1 => SubSeq(d, m + 1, k) = SubSeq(d, 1, k)
      BY <3>4
    <3> QED
      BY <3>1, <3>2, <3>3, <3>5
  <2>3. upTo = [i \in 1..Len(s) |-> IF i = 1 THEN s[i] ELSE upTo[i-1] \o s[i]]
    <3>1. ASSUME NEW i \in 1..n PROVE upTo[i] = IF i = 1 THEN s[i] ELSE upTo[i-1] \o s[i]
      <4>1. i # 1 => i - 1 \in 1..n
        OBVIOUS
      <4> QED
        BY <2>2, <4>1
    <3> QED
      BY <3>1
  <2> HIDE DEF upTo
  <2>4. \E f : f = [i \in 1..Len(s) |-> IF i = 1 THEN s[i] ELSE f[i-1] \o s[i]]
    BY <2>3
  <2>5. flatten = [i \in 1..Len(s) |-> IF i = 1 THEN s[i] ELSE flatten[i-1] \o s[i]]
    BY <2>4
  <2> HIDE DEF flatten
  <2> DEFINE S == {k \in Nat : k + 1 \in 1..n => flatten[k + 1] = SubSeq(d, 1, cut[k + 1])}
  <2>6. 0 \in S
    BY <2>2, <2>5
  <2>7. ASSUME NEW k \in S PROVE k + 1 \in S
    <3>0. k \in Nat /\ k + 1 \in Nat
      OBVIOUS
    <3>1. ASSUME NEW i \in 1..n, i = k + 1 + 1 PROVE flatten[i] = SubSeq(d, 1, cut[i])
      <4>1. i # 1 /\ i - 1 = k + 1 /\ k + 1 \in 1..n
        BY <3>0, <3>1
      <4>2. flatten[k + 1] = SubSeq(d, 1, cut[k + 1])
        BY <4>1
      <4>3. flatten[i] = flatten[i - 1] \o s[i]
        BY <2>5, <4>1
      <4>4. SubSeq(d, 1, cut[i]) = SubSeq(d, 1, cut[i - 1]) \o s[i]
        BY <2>2, <4>1
      <4> QED
        BY <4>1, <4>2, <4>3, <4>4
    <3> QED
      BY <3>0, <3>1
  <2> HIDE DEF S
  <2>8. S = Nat
    <3>1. S \in SUBSET Nat BY DEF S
    <3> QED BY <2>6, <2>7, <3>1, NatInd
  <2>9. n - 1 \in S
    BY <1>2, <2>8
  <2>10. flatten[n] = SubSeq(d, 1, Len(d))
    <3>1. n - 1 + 1 = n /\ n \in 1..n
      BY <1>2
    <3> QED
      BY <2>9, <3>1 DEF S
  <2>11. SubSeq(d, 1, Len(d)) = d
    OBVIOUS
  <2> QED
    BY <2>1, <2>10, <2>11
<1> QED
  BY <1>1, <1>2

\* The characters encode() writes.
Written == Index \cup {Pad}

\* A piece of a sequence.
LEMMA Piece ==
    ASSUME NEW A, NEW d \in Seq(A), NEW m \in Nat, NEW k \in Nat, m <= k, k <= Len(d)
    PROVE  /\ SubSeq(d, m + 1, k) \in Seq(A) /\ Len(SubSeq(d, m + 1, k)) = k - m
           /\ \A i \in 1..(k - m) : SubSeq(d, m + 1, k)[i] = d[m + i]
OBVIOUS

\* Sequences of up to three elements.
LEMMA Short ==
    ASSUME NEW A, NEW t \in Seq(A)
    PROVE  /\ Len(t) = 1 => t = <<t[1]>>
           /\ Len(t) = 2 => t = <<t[1], t[2]>>
           /\ Len(t) = 3 => t = <<t[1], t[2], t[3]>>
OBVIOUS

\* An element of a sequence.
LEMMA Element ==
    ASSUME NEW A, NEW t \in Seq(A), NEW i \in 1..Len(t)
    PROVE  t[i] \in A
OBVIOUS

\* A piece of up to three elements.
LEMMA ShortPieces ==
    ASSUME NEW A, NEW d \in Seq(A), NEW i \in 1..Len(d)
    PROVE  /\ SubSeq(d, i, i) = <<d[i]>>
           /\ i + 1 <= Len(d) => SubSeq(d, i, i + 1) = <<d[i], d[i + 1]>>
           /\ i + 2 <= Len(d) => SubSeq(d, i, i + 2) = <<d[i], d[i + 1], d[i + 2]>>
<1>1. PICK m \in Nat : i = m + 1 /\ m + 1 <= Len(d)
  <2>1. i - 1 \in Nat /\ i = i - 1 + 1
    OBVIOUS
  <2> QED
    BY <2>1
<1>2. SubSeq(d, m + 1, m + 1) = <<d[m + 1]>>
  <2>1. /\ SubSeq(d, m + 1, m + 1) \in Seq(A) /\ Len(SubSeq(d, m + 1, m + 1)) = 1
        /\ SubSeq(d, m + 1, m + 1)[1] = d[m + 1]
    BY <1>1, Piece
  <2>2. PICK t \in Seq(A) : t = SubSeq(d, m + 1, m + 1)
    BY <2>1
  <2>3. t = <<t[1]>>
    BY <2>1, <2>2, Short
  <2> QED
    BY <2>1, <2>2, <2>3
<1>3. m + 2 <= Len(d) => SubSeq(d, m + 1, m + 2) = <<d[m + 1], d[m + 2]>>
  <2> SUFFICES ASSUME m + 2 <= Len(d) PROVE SubSeq(d, m + 1, m + 2) = <<d[m + 1], d[m + 2]>>
    OBVIOUS
  <2>1. /\ SubSeq(d, m + 1, m + 2) \in Seq(A) /\ Len(SubSeq(d, m + 1, m + 2)) = 2
        /\ SubSeq(d, m + 1, m + 2)[1] = d[m + 1] /\ SubSeq(d, m + 1, m + 2)[2] = d[m + 2]
    BY <1>1, Piece
  <2>2. PICK t \in Seq(A) : t = SubSeq(d, m + 1, m + 2)
    BY <2>1
  <2>3. t = <<t[1], t[2]>>
    BY <2>1, <2>2, Short
  <2> QED
    BY <2>1, <2>2, <2>3
<1>4. m + 3 <= Len(d) => SubSeq(d, m + 1, m + 3) = <<d[m + 1], d[m + 2], d[m + 3]>>
  <2> SUFFICES ASSUME m + 3 <= Len(d)
               PROVE  SubSeq(d, m + 1, m + 3) = <<d[m + 1], d[m + 2], d[m + 3]>>
    OBVIOUS
  <2>1. /\ SubSeq(d, m + 1, m + 3) \in Seq(A) /\ Len(SubSeq(d, m + 1, m + 3)) = 3
        /\ SubSeq(d, m + 1, m + 3)[1] = d[m + 1] /\ SubSeq(d, m + 1, m + 3)[2] = d[m + 2]
        /\ SubSeq(d, m + 1, m + 3)[3] = d[m + 3]
    BY <1>1, Piece
  <2>2. PICK t \in Seq(A) : t = SubSeq(d, m + 1, m + 3)
    BY <2>1
  <2>3. t = <<t[1], t[2], t[3]>>
    BY <2>1, <2>2, Short
  <2> QED
    BY <2>1, <2>2, <2>3
<1>5. i + 1 = m + 2 /\ i + 2 = m + 3
  BY <1>1
<1> QED
  BY <1>1, <1>2, <1>3, <1>4, <1>5

\* What encode() makes of a group has four characters, none of them white.
LEMMA FourCharacters ==
    ASSUME NEW data \in Seq(Byte), NEW i \in 1..Len(data)
    PROVE  /\ FourFrom(data, i) \in Seq(Written) /\ Len(FourFrom(data, i)) = 4
<1> DEFINE a == data[i]
           b == IF i + 1 <= Len(data) THEN data[i + 1] ELSE 0
           e == IF i + 2 <= Len(data) THEN data[i + 2] ELSE 0
           c == a * 65536 + b * 256 + e
           c1 == c \div 262144
           c2 == (c \div 4096) % 64
           c3 == (c \div 64) % 64
           c4 == c % 64
<1>1. a \in Byte /\ b \in Byte /\ e \in Byte
  <2>1. 0 \in Byte
    BY DEF Byte
  <2>2. i + 1 <= Len(data) => i + 1 \in 1..Len(data)
    OBVIOUS
  <2>3. i + 2 <= Len(data) => i + 2 \in 1..Len(data)
    OBVIOUS
  <2> QED
    BY <2>1, <2>2, <2>3
<1>2. FourFrom(data, i) = << c1, c2, IF i + 1 <= Len(data) THEN c3 ELSE Pad,
                             IF i + 2 <= Len(data) THEN c4 ELSE Pad >>
  BY DEF FourFrom
<1> HIDE DEF a, b, e
<1>3. /\ c1 \in Index /\ c2 \in Index /\ c3 \in Index /\ c4 \in Index
  BY <1>1, Bits
<1> HIDE DEF c1, c2, c3, c4
<1>4. Index \subseteq Written /\ Pad \in Written
  BY DEF Written
<1>5. PICK d3 \in Written, d4 \in Written : FourFrom(data, i) = <<c1, c2, d3, d4>>
  BY <1>2, <1>3, <1>4
<1>6. c1 \in Written /\ c2 \in Written
  BY <1>3, <1>4
<1> QED
  BY <1>5, <1>6

\* The characters of a text are those of its groups.
LEMMA GroupOf ==
    ASSUME NEW g \in Nat, NEW j \in 1..4, g > 0
    PROVE  (4 * (g - 1) + j - 1) \div 4 = g - 1 /\ (4 * (g - 1) + j - 1) % 4 = j - 1
OBVIOUS

\* Binary data of any length is decoded from what it is encoded as
\* (Binary_data::encode(), decode()).
THEOREM Base64ReadsBack ==
    ASSUME NEW data \in Seq(Byte)
    PROVE  Decode(Encode(data)) = {data}
<1>1. PICK len \in Nat : len = Len(data)
  OBVIOUS
<1>2. PICK n \in Nat : /\ n = (len + 2) \div 3
                       /\ 3 * n >= len /\ 3 * n <= len + 2
  <2>1. (len + 2) \div 3 \in Nat /\ 3 * ((len + 2) \div 3) >= len /\ 3 * ((len + 2) \div 3) <= len + 2
    OBVIOUS
  <2> QED
    BY <2>1
<1> DEFINE four(g) == FourFrom(data, 3 * g - 2)
           text == [i \in 1..(4 * n) |-> four(((i - 1) \div 4) + 1)[((i - 1) % 4) + 1]]
<1>3. ASSUME NEW g \in 1..n
      PROVE  /\ 3 * g - 2 \in 1..Len(data)
             /\ four(g) \in Seq(Written) /\ Len(four(g)) = 4
  <2>1. 3 * g - 2 \in 1..Len(data)
    BY <1>1, <1>2
  <2> QED
    BY <2>1, FourCharacters
<1>4. text \in Seq(Written) /\ Len(text) = 4 * n
  <2>1. ASSUME NEW i \in 1..(4 * n)
        PROVE  four(((i - 1) \div 4) + 1)[((i - 1) % 4) + 1] \in Written
    <3>1. PICK g \in 1..n, j \in 1..4 : g = ((i - 1) \div 4) + 1 /\ j = ((i - 1) % 4) + 1
      <4>1. ((i - 1) \div 4) + 1 \in 1..n /\ ((i - 1) % 4) + 1 \in 1..4
        OBVIOUS
      <4> QED
        BY <4>1
    <3>2. four(g) \in Seq(Written) /\ Len(four(g)) = 4
      BY <1>3
    <3> HIDE DEF four
    <3>4. PICK f \in Seq(Written) : f = four(g) /\ Len(f) = 4
      BY <3>2
    <3>3. f[j] \in Written
      <4>1. j \in 1..Len(f)
        BY <3>4
      <4> QED
        BY <4>1, Element
    <3> QED
      BY <3>1, <3>3, <3>4
  <2>2. 4 * n \in Nat
    OBVIOUS
  <2> HIDE DEF four
  <2> QED
    BY <2>1, <2>2
<1>5. ASSUME NEW g \in 1..n
      PROVE  four(g) = SubSeq(text, 4 * g - 3, 4 * g)
  <2>1. PICK lo \in Nat, hi \in Nat : lo = 4 * g - 3 /\ hi = 4 * g /\ 1 <= lo /\ hi = lo + 3 /\ hi <= 4 * n
    <3>1. 4 * g - 3 \in Nat /\ 4 * g \in Nat /\ 1 <= 4 * g - 3 /\ 4 * g <= 4 * n
      OBVIOUS
    <3> QED
      BY <3>1
  <2>2. ASSUME NEW j \in 1..4
        PROVE  text[lo + j - 1] = four(g)[j]
    <3>1. lo + j - 1 \in 1..(4 * n) /\ lo + j - 1 - 1 = 4 * (g - 1) + j - 1
      BY <2>1
    <3>2. (4 * (g - 1) + j - 1) \div 4 = g - 1 /\ (4 * (g - 1) + j - 1) % 4 = j - 1
      BY GroupOf
    <3>3. text[lo + j - 1] = four(((lo + j - 1 - 1) \div 4) + 1)[((lo + j - 1 - 1) % 4) + 1]
      BY <3>1
    <3> HIDE DEF text, four
    <3> QED
      BY <3>1, <3>2, <3>3
  <2>3. four(g) \in Seq(Written) /\ Len(four(g)) = 4
    BY <1>3
  <2> HIDE DEF text, four
  <2>4. /\ SubSeq(text, lo, hi) \in Seq(Written) /\ Len(SubSeq(text, lo, hi)) = 4
        /\ \A j \in 1..4 : SubSeq(text, lo, hi)[j] = text[lo + j - 1]
    <3>1. PICK m \in Nat : lo = m + 1 /\ hi = m + 4
      <4>1. lo - 1 \in Nat /\ lo = lo - 1 + 1 /\ hi = lo - 1 + 4
        BY <2>1
      <4> QED
        BY <4>1
    <3>2. m <= hi /\ hi <= Len(text) /\ hi - m = 4
      BY <1>4, <2>1, <3>1
    <3>3. \A j \in 1..4 : lo + j - 1 = m + j
      BY <3>1
    <3>4. /\ SubSeq(text, m + 1, hi) \in Seq(Written) /\ Len(SubSeq(text, m + 1, hi)) = hi - m
          /\ \A j \in 1..(hi - m) : SubSeq(text, m + 1, hi)[j] = text[m + j]
      BY <1>4, <3>2, Piece
    <3> QED
      BY <3>1, <3>2, <3>3, <3>4
  <2>5. SubSeq(text, lo, hi) = four(g)
    BY SMTT(30), <2>2, <2>3, <2>4
  <2> QED
    BY <2>1, <2>5
<1> DEFINE fours == [g \in 1..n |-> four(g)]
<1>6. Encode(data) = FlattenSeq(fours)
  BY <1>1, <1>2 DEF Encode
<1> HIDE DEF text, four
<1>7. FlattenSeq(fours) = text
  <2> DEFINE cut == [g \in 0..n |-> 4 * g]
  <2>1. cut \in [0..n -> Nat] /\ cut[0] = 0 /\ cut[n] = Len(text)
    BY <1>4
  <2>2. ASSUME NEW g \in 1..n
        PROVE  /\ cut[g - 1] <= cut[g] /\ cut[g] <= Len(text)
               /\ fours[g] = SubSeq(text, cut[g - 1] + 1, cut[g])
    <3>1. cut[g - 1] = 4 * g - 4 /\ cut[g] = 4 * g /\ 4 * g <= 4 * n /\ 4 * g - 4 + 1 = 4 * g - 3
      OBVIOUS
    <3> HIDE DEF cut
    <3>2. fours[g] = SubSeq(text, 4 * g - 3, 4 * g)
      BY <1>5
    <3>3. cut[g - 1] <= cut[g] /\ cut[g] <= Len(text)
      BY <1>4, <3>1
    <3> QED
      BY <3>1, <3>2, <3>3
  <2>3. DOMAIN fours = 1..n /\ Len(fours) = n /\ (n = 0 => fours = <<>>)
    OBVIOUS
  <2> HIDE DEF cut, fours
  <2> QED
    BY <1>4, <2>1, <2>2, <2>3, FlattenPieces
<1> DEFINE dark == [i \in DOMAIN text |-> IF text[i] = White THEN <<>> ELSE <<text[i]>>]
<1>8. FlattenSeq(dark) = text
  <2>0. PICK l \in Nat : l = 4 * n /\ DOMAIN text = 1..l /\ Len(text) = l
    BY <1>4
  <2> DEFINE cut == [i \in 0..l |-> i]
  <2>1. cut \in [0..l -> Nat] /\ cut[0] = 0 /\ cut[l] = Len(text)
    BY <2>0
  <2>2. ASSUME NEW i \in 1..l
        PROVE  /\ cut[i - 1] <= cut[i] /\ cut[i] <= Len(text)
               /\ dark[i] = SubSeq(text, cut[i - 1] + 1, cut[i])
    <3>1. cut[i - 1] = i - 1 /\ cut[i] = i /\ i - 1 + 1 = i /\ i <= l
      OBVIOUS
    <3>2. i \in 1..Len(text)
      BY <2>0
    <3>5. PICK c \in Written : text[i] = c
      <4> HIDE DEF cut, dark
      <4> QED
        BY <1>4, <3>2, Element
    <3>6. c # White
      BY DEF White, Written, Index, Pad
    <3>3. dark[i] = <<text[i]>>
      BY <2>0, <3>5, <3>6
    <3>4. SubSeq(text, i, i) = <<text[i]>>
      BY <1>4, <3>2, ShortPieces
    <3> HIDE DEF cut, dark
    <3> QED
      BY <2>0, <3>1, <3>3, <3>4
  <2>3. DOMAIN dark = 1..l /\ Len(dark) = l /\ (l = 0 => dark = <<>>)
    BY <2>0
  <2> HIDE DEF cut, dark
  <2> QED
    BY <1>4, <2>1, <2>2, <2>3, FlattenPieces
<1> DEFINE groups == [g \in 1..(Len(text) \div 4) |-> DecodeFour(SubSeq(text, 4 * g - 3, 4 * g))]
           bytes == [g \in DOMAIN groups |-> CHOOSE b \in groups[g] : TRUE]
           to(g) == IF g = n THEN len ELSE 3 * g
<1>9. Len(text) % 4 = 0 /\ Len(text) \div 4 = n
  BY <1>4
<1>10. ASSUME NEW g \in 1..n
       PROVE  groups[g] = {SubSeq(data, 3 * g - 2, to(g))}
  <2>1. PICK lo \in 1..len : lo = 3 * g - 2 /\ lo \in 1..Len(data)
    BY <1>1, <1>3
  <2>2. groups[g] = DecodeFour(FourFrom(data, lo))
    BY <1>5, <1>9, <2>1 DEF four
  <2>3. DecodeFour(FourFrom(data, lo)) =
              {IF lo + 2 <= Len(data) THEN <<data[lo], data[lo + 1], data[lo + 2]>>
               ELSE IF lo + 1 <= Len(data) THEN <<data[lo], data[lo + 1]>>
               ELSE <<data[lo]>>}
    BY <2>1, GroupsReadBack
  <2> HIDE DEF groups
  <2>4. CASE lo + 2 <= len
    <3>1. to(g) = lo + 2
      BY <1>2, <2>1, <2>4
    <3>2. SubSeq(data, lo, lo + 2) = <<data[lo], data[lo + 1], data[lo + 2]>>
      BY <1>1, <2>1, <2>4, ShortPieces
    <3> QED
      BY <1>1, <2>1, <2>2, <2>3, <2>4, <3>1, <3>2
  <2>5. CASE lo + 1 = len
    <3>1. to(g) = lo + 1
      BY <1>2, <2>1, <2>5
    <3>2. SubSeq(data, lo, lo + 1) = <<data[lo], data[lo + 1]>>
      BY <1>1, <2>1, <2>5, ShortPieces
    <3> HIDE DEF to
    <3> QED
      <4>1. DecodeFour(FourFrom(data, lo)) = {SubSeq(data, lo, to(g))}
        BY <1>1, <2>3, <2>5, <3>1, <3>2
      <4> QED
        BY <2>1, <2>2, <4>1
  <2>6. CASE lo = len
    <3>1. to(g) = lo
      BY <1>2, <2>1, <2>6
    <3>2. SubSeq(data, lo, lo) = <<data[lo]>>
      BY <1>1, <2>1, <2>6, ShortPieces
    <3> HIDE DEF to
    <3> QED
      <4>1. DecodeFour(FourFrom(data, lo)) = {SubSeq(data, lo, to(g))}
        BY <1>1, <2>3, <2>6, <3>1, <3>2
      <4> QED
        BY <2>1, <2>2, <4>1
  <2> QED
    BY <2>1, <2>4, <2>5, <2>6
<1>11. DOMAIN groups = 1..n /\ ~ \E g \in DOMAIN groups : groups[g] = {}
  <2>1. DOMAIN groups = 1..n
    BY <1>9
  <2> HIDE DEF groups
  <2> QED
    BY <1>10, <2>1
<1>12. Decode(text) = {FlattenSeq(bytes)}
  <2>1. Decode(text) = LET found == FlattenSeq(dark)
                           parts == [g \in 1..(Len(found) \div 4) |-> DecodeFour(SubSeq(found, 4 * g - 3, 4 * g))]
                       IN  IF Len(found) % 4 # 0 \/ \E g \in DOMAIN parts : parts[g] = {} THEN {}
                           ELSE {FlattenSeq([g \in DOMAIN parts |-> CHOOSE b \in parts[g] : TRUE])}
    BY DEF Decode
  <2> HIDE DEF dark
  <2>2. Decode(text) = IF Len(text) % 4 # 0 \/ \E g \in DOMAIN groups : groups[g] = {} THEN {}
                           ELSE {FlattenSeq(bytes)}
    BY <1>8, <2>1
  <2> HIDE DEF groups, bytes
  <2> QED
    BY <1>9, <1>11, <2>2
<1>13. FlattenSeq(bytes) = data
  <2> DEFINE cut == [g \in 0..n |-> to(g)]
  <2>1. cut \in [0..n -> Nat] /\ cut[0] = 0 /\ cut[n] = Len(data)
    <3>1. n = 0 => len = 0
      BY <1>2
    <3> QED
      BY <1>1, <3>1
  <2>2. ASSUME NEW g \in 1..n
        PROVE  /\ cut[g - 1] <= cut[g] /\ cut[g] <= Len(data)
               /\ bytes[g] = SubSeq(data, cut[g - 1] + 1, cut[g])
    <3>1. cut[g - 1] = 3 * g - 3 /\ cut[g] = to(g) /\ 3 * g - 3 + 1 = 3 * g - 2
      OBVIOUS
    <3>2. 3 * g - 3 <= to(g) /\ to(g) <= Len(data)
      BY <1>1, <1>2
    <3>3. bytes[g] = SubSeq(data, 3 * g - 2, to(g))
      <4>1. groups[g] = {SubSeq(data, 3 * g - 2, to(g))}
        BY <1>10
      <4> HIDE DEF groups, to
      <4>2. bytes[g] = CHOOSE b \in {SubSeq(data, 3 * g - 2, to(g))} : TRUE
        BY <1>11, <4>1
      <4> HIDE DEF bytes
      <4> QED
        BY <4>2
    <3> HIDE DEF cut, bytes, to
    <3> QED
      BY <3>1, <3>2, <3>3
  <2>3. DOMAIN bytes = 1..n /\ Len(bytes) = n /\ (n = 0 => bytes = <<>>)
    BY <1>11
  <2>4. 0..255 = Byte
    BY DEF Byte
  <2> HIDE DEF cut, bytes
  <2> QED
    BY <2>1, <2>2, <2>3, FlattenPieces
<1> QED
  BY <1>6, <1>7, <1>12, <1>13

\* A date the library accepts or builds, up to the year 9999, is read as what was
\* written (Date_time::to_string(), Date_time(const std::string&)).
THEOREM DatesReadBack == \A tm \in Dates : DateOf(DateText(tm)) = {tm}
<1> SUFFICES ASSUME NEW tm \in Dates PROVE DateOf(DateText(tm)) = {tm}
  OBVIOUS
<1>1. ASSUME NEW n \in 0..99
      PROVE  /\ Tens(n) \in Digit /\ n % 10 \in Digit
             /\ Atoi2(Tens(n), n % 10) = n
  <2>1. Tens(n) = n \div 10
    BY DEF Tens
  <2>2. n \div 10 \in Digit /\ n % 10 \in Digit /\ n = 10 * (n \div 10) + (n % 10)
    BY DEF Digit
  <2> QED
    BY <2>1, <2>2 DEF Atoi2
<1> DEFINE s == DateText(tm)
<1>2. /\ tm.mon \in 0..11 /\ tm.mday \in 1..31 /\ tm.hour \in 0..23 /\ tm.min \in 0..59
      /\ tm.sec \in 0..61 /\ tm.year \in 0..8099
  BY SMTT(30) DEF Dates
<1>r. tm = [year |-> tm.year, mon |-> tm.mon, mday |-> tm.mday, hour |-> tm.hour,
            min |-> tm.min, sec |-> tm.sec]
  BY DEF Dates
<1>y. PICK k \in 0..8099 : tm.year = k
  <2>1. tm.year \in 0..8099
    BY SMTT(30), <1>2
  <2> QED
    BY SMTT(30), <2>1
<1> DEFINE y == k + 1900
<1>z. y \in 1900..9999 /\ y - 1900 = k
  OBVIOUS
<1>3. /\ Len(s) = 17 /\ s[1] = y \div 1000 /\ s[2] = (y \div 100) % 10 /\ s[3] = Tens(y)
      /\ s[4] = y % 10 /\ s[5] = Tens(tm.mon + 1) /\ s[6] = (tm.mon + 1) % 10
      /\ s[7] = Tens(tm.mday) /\ s[8] = tm.mday % 10 /\ s[9] = T
      /\ s[10] = Tens(tm.hour) /\ s[11] = tm.hour % 10 /\ s[12] = Colon
      /\ s[13] = Tens(tm.min) /\ s[14] = tm.min % 10 /\ s[15] = Colon
      /\ s[16] = Tens(tm.sec) /\ s[17] = tm.sec % 10
  BY <1>y DEF DateText
<1> HIDE DEF s
<1>4. /\ s[1] \in Digit /\ s[2] \in Digit /\ s[3] \in Digit /\ s[4] \in Digit
      /\ 1000 * s[1] + 100 * s[2] + 10 * s[3] + s[4] = y
  <2> HIDE DEF y
  <2>0. y \in 1900..9999
    BY <1>z
  <2>1. y \div 100 = 10 * (y \div 1000) + ((y \div 100) % 10)
    BY <2>0
  <2>2. y \div 10 = 10 * (y \div 100) + ((y \div 10) % 10)
    BY <2>0
  <2>3. y = 10 * (y \div 10) + (y % 10)
    BY <2>0
  <2>4. y \div 1000 \in 0..9
    BY <2>0
  <2>5. (y \div 100) % 10 \in 0..9 /\ (y \div 10) % 10 \in 0..9 /\ y % 10 \in 0..9
    BY <2>0
  <2> QED
    BY <2>0, <1>3, <2>1, <2>2, <2>3, <2>4, <2>5 DEF Tens, Digit
<1>5. Year(s) = y
  BY <1>4 DEF Year
<1>6. /\ Atoi2(s[5], s[6]) = tm.mon + 1 /\ Atoi2(s[7], s[8]) = tm.mday
      /\ Atoi2(s[10], s[11]) = tm.hour /\ Atoi2(s[13], s[14]) = tm.min
      /\ Atoi2(s[16], s[17]) = tm.sec
      /\ \A i \in {5, 6, 7, 8, 10, 11, 13, 14, 16} : s[i] \in Digit
  <2>1. tm.mon + 1 \in 0..99 /\ tm.mday \in 0..99 /\ tm.hour \in 0..99 /\ tm.min \in 0..99
        /\ tm.sec \in 0..99
    BY <1>2
  <2> QED
    BY <1>1, <1>3, <2>1, SMTT(40)
<1>7. \A i \in 1..16 : s[i] # Alien
  <2>1. \A i \in 1..16 : s[i] \in Digit \cup {T, Colon}
    BY <1>3, <1>4, <1>6
  <2> QED
    BY <2>1 DEF Digit, T, Colon, Alien
<1>8. tm.mon + 1 - 1 = tm.mon
  BY <1>2
<1> HIDE DEF y
<1>9. [year |-> Year(s) - 1900, mon |-> Atoi2(s[5], s[6]) - 1,
       mday |-> Atoi2(s[7], s[8]), hour |-> Atoi2(s[10], s[11]),
       min |-> Atoi2(s[13], s[14]), sec |-> Atoi2(s[16], s[17])] = tm
  BY <1>2, <1>r, <1>y, <1>z, <1>5, <1>6, <1>8
<1>10. DateOf(s) = {tm}
  <2>1. Len(s) = 17 /\ s[9] = T
    BY <1>3
  <2> QED
    BY <1>7, <1>9, <2>1, SMTT(30) DEF DateOf
<1> QED
  BY <1>10 DEF s

-----------------------------------------------------------------------------
(* Headers *)

\* A sequence over a set is one over a larger set.
LEMMA Wider ==
    ASSUME NEW A, NEW B, A \subseteq B, NEW t \in Seq(A)
    PROVE  t \in Seq(B)
OBVIOUS

\* What dump() has written when it has come to the options `s': one line for each.
Dumped(options, s, lines) ==
    /\ lines \in Seq([name : s, value : {options[n] : n \in s}, colon : {TRUE}])
    /\ Len(lines) = Cardinality(s)
    /\ \A i \in 1..Len(lines) : lines[i] = Line(lines[i].name, options[lines[i].name])
    /\ \A n \in s : \E i \in 1..Len(lines) : lines[i].name = n
    /\ \A i, j \in 1..Len(lines) : lines[i].name = lines[j].name => i = j

\* One more line.
LEMMA DumpedOne ==
    ASSUME NEW options, NEW s, NEW x \in s, IsFiniteSet(s), NEW lines,
           Dumped(options, s \ {x}, lines)
    PROVE  Dumped(options, s, Append(lines, Line(x, options[x])))
<1> DEFINE one == Line(x, options[x])
           more == Append(lines, one)
           L(t) == [name : t, value : {options[n] : n \in t}, colon : {TRUE}]
<1>1. one \in L(s) /\ one.name = x /\ one = Line(one.name, options[one.name])
  BY DEF Line
<1>2. L(s \ {x}) \subseteq L(s)
  OBVIOUS
<1>3. lines \in Seq(L(s \ {x}))
  BY DEF Dumped
<1>4. lines \in Seq(L(s))
  <2> HIDE DEF L
  <2> QED
    BY <1>2, <1>3, Wider
<1>5. ASSUME NEW i \in 1..Len(lines) PROVE lines[i].name \in s \ {x}
  <2>1. lines[i] \in L(s \ {x})
    <3> HIDE DEF L
    <3> QED
      BY <1>3, Element
  <2> QED
    BY <2>1
<1> HIDE DEF L, one
<1>6. PICK k \in Nat : k = Len(lines)
  BY <1>4
<1>7. /\ more \in Seq(L(s)) /\ Len(more) = k + 1
      /\ more[k + 1] = one /\ \A i \in 1..k : more[i] = lines[i]
  BY <1>1, <1>4, <1>6
<1>8. Len(more) = Cardinality(s)
  <2>1. Cardinality(s \ {x}) = Cardinality(s) - 1 /\ Cardinality(s) \in Nat
    BY FS_RemoveElement, FS_CardinalityType
  <2>2. k = Cardinality(s \ {x})
    BY <1>6 DEF Dumped
  <2> QED
    BY <1>7, <2>1, <2>2
<1>9. \A i \in 1..(k + 1) : i \in 1..k \/ i = k + 1
  BY <1>6
<1> HIDE DEF more
<1>10. \A i \in 1..(k + 1) : more[i] = Line(more[i].name, options[more[i].name])
  BY <1>1, <1>6, <1>7, <1>9 DEF Dumped
<1>11. \A n \in s : \E i \in 1..(k + 1) : more[i].name = n
  <2>1. ASSUME NEW n \in s, n # x PROVE \E i \in 1..(k + 1) : more[i].name = n
    <3>1. PICK i \in 1..k : lines[i].name = n
      BY <1>6, <2>1 DEF Dumped
    <3> QED
      BY <1>7, <3>1
  <2>2. k + 1 \in 1..(k + 1) /\ more[k + 1].name = x
    BY <1>1, <1>7
  <2> QED
    BY <2>1, <2>2
<1>12. ASSUME NEW i \in 1..(k + 1), NEW j \in 1..(k + 1), more[i].name = more[j].name
       PROVE  i = j
  <2>1. CASE i \in 1..k /\ j \in 1..k
    BY <1>6, <1>7, <1>12, <2>1 DEF Dumped
  <2>2. CASE i \in 1..k /\ j = k + 1
    BY <1>1, <1>5, <1>6, <1>7, <1>12, <2>2
  <2>3. CASE i = k + 1 /\ j \in 1..k
    BY <1>1, <1>5, <1>6, <1>7, <1>12, <2>3
  <2> QED
    BY <1>9, <2>1, <2>2, <2>3
<1> QED
  BY <1>7, <1>8, <1>10, <1>11, <1>12 DEF Dumped, more, one, L

\* dump() writes one line for each option.
LEMMA DumpIsDumped ==
    ASSUME NEW options, IsFiniteSet(DOMAIN options)
    PROVE  Dumped(options, DOMAIN options, Dump(options))
<1> DEFINE D == DOMAIN options
           Pick(s) == CHOOSE n \in s : TRUE
           iter[s \in SUBSET D] ==
               IF s = {} THEN <<>>
               ELSE LET n == Pick(s) IN Append(iter[s \ {n}], Line(n, options[n]))
           Body(g, s) == IF s = {} THEN <<>> ELSE Append(g[s \ {Pick(s)}], Line(Pick(s), options[Pick(s)]))
           Upto(k) == {s \in SUBSET D : Cardinality(s) <= k}
           K == {k \in Nat : \E g : g = [s \in Upto(k) |-> Body(g, s)]}
<1>1. Dump(options) = iter[D]
  BY DEF Dump, FoldSet, MapThenFoldSet
<1>2. ASSUME NEW s \in SUBSET D
      PROVE  /\ IsFiniteSet(s) /\ Cardinality(s) \in Nat /\ Cardinality(s) <= Cardinality(D)
             /\ s # {} => /\ Pick(s) \in s
                          /\ s \ {Pick(s)} \in SUBSET D
                          /\ Cardinality(s \ {Pick(s)}) = Cardinality(s) - 1
             /\ Cardinality(s) = 0 <=> s = {}
  <2>1. IsFiniteSet(s) /\ Cardinality(s) <= Cardinality(D)
    BY FS_Subset
  <2>2. s # {} => Pick(s) \in s
    OBVIOUS
  <2> HIDE DEF Pick
  <2>3. s # {} => Cardinality(s \ {Pick(s)}) = Cardinality(s) - 1
    BY <2>1, <2>2, FS_RemoveElement
  <2> QED
    BY <2>1, <2>2, <2>3, FS_CardinalityType, FS_EmptySet
<1> HIDE DEF Pick
<1>3. 0 \in K
  <2>1. ASSUME NEW s \in Upto(0) PROVE s = {}
    <3>1. Cardinality(s) \in Nat /\ Cardinality(s) <= 0
      BY <1>2
    <3>2. Cardinality(s) = 0
      BY <3>1
    <3> QED
      BY <1>2, <3>2
  <2> DEFINE g == [s \in Upto(0) |-> <<>>]
  <2>2. g = [s \in Upto(0) |-> Body(g, s)]
    BY <2>1
  <2> HIDE DEF g, Body, Upto
  <2> QED
    BY <2>2
<1>4. ASSUME NEW k \in K PROVE k + 1 \in K
  <2>1. PICK g : g = [s \in Upto(k) |-> Body(g, s)]
    OBVIOUS
  <2> DEFINE h == [s \in Upto(k + 1) |-> Body(g, s)]
  <2>2. ASSUME NEW s \in Upto(k) PROVE s \in Upto(k + 1) /\ h[s] = g[s]
    <3>0. PICK c \in Nat : c = Cardinality(s) /\ c <= k
      BY <1>2
    <3>2. c <= k + 1
      BY <3>0
    <3>1. s \in Upto(k + 1)
      BY <3>0, <3>2
    <3> HIDE DEF Body, Upto
    <3> QED
      BY <2>1, <3>1
  <2>3. ASSUME NEW s \in Upto(k + 1) PROVE Body(g, s) = Body(h, s)
    <3>0. PICK c \in Nat : c = Cardinality(s) /\ c <= k + 1
      BY <1>2
    <3>3. c - 1 <= k
      BY <3>0
    <3>1. s # {} => s \ {Pick(s)} \in Upto(k)
      BY <1>2, <3>0, <3>3
    <3>2. s # {} => h[s \ {Pick(s)}] = g[s \ {Pick(s)}]
      BY <2>2, <3>1
    <3> HIDE DEF h
    <3> QED
      BY <3>2
  <2>4. h = [s \in Upto(k + 1) |-> Body(h, s)]
    <3> HIDE DEF Body, Upto
    <3> QED
      BY <2>3
  <2> HIDE DEF h, Body, Upto
  <2> QED
    BY <2>4
<1>5. K = Nat
  <2>1. K \in SUBSET Nat
    OBVIOUS
  <2> HIDE DEF K
  <2> QED
    BY <1>3, <1>4, <2>1, NatInd
<1>6. \E g : g = [s \in SUBSET D |-> Body(g, s)]
  <2>1. Cardinality(D) \in Nat
    BY FS_CardinalityType
  <2>2. Upto(Cardinality(D)) = SUBSET D
    BY <1>2
  <2>3. Cardinality(D) \in K
    BY <1>5, <2>1
  <2> HIDE DEF Body, Upto
  <2> QED
    BY <2>2, <2>3
<1>7. iter = [s \in SUBSET D |-> Body(iter, s)]
  BY <1>6
<1> HIDE DEF iter, K
<1> DEFINE M == {k \in Nat : \A s \in SUBSET D : Cardinality(s) = k => Dumped(options, s, iter[s])}
<1>8. 0 \in M
  <2>1. ASSUME NEW s \in SUBSET D, Cardinality(s) = 0 PROVE Dumped(options, s, iter[s])
    <3>1. s = {} /\ iter[s] = <<>>
      BY <1>2, <1>7, <2>1
    <3> QED
      BY <2>1, <3>1 DEF Dumped
  <2> QED
    BY <2>1
<1>9. ASSUME NEW k \in M PROVE k + 1 \in M
  <2>1. ASSUME NEW s \in SUBSET D, Cardinality(s) = k + 1 PROVE Dumped(options, s, iter[s])
    <3>1. /\ s # {} /\ Pick(s) \in s /\ IsFiniteSet(s) /\ s \ {Pick(s)} \in SUBSET D
          /\ Cardinality(s \ {Pick(s)}) = k
      BY <1>2, <2>1
    <3>2. Dumped(options, s \ {Pick(s)}, iter[s \ {Pick(s)}])
      BY <3>1
    <3>3. iter[s] = Append(iter[s \ {Pick(s)}], Line(Pick(s), options[Pick(s)]))
      BY <1>7, <3>1
    <3> QED
      BY <3>1, <3>2, <3>3, DumpedOne
  <2> QED
    BY <2>1
<1>10. M = Nat
  <2>1. M \in SUBSET Nat
    OBVIOUS
  <2> HIDE DEF M
  <2> QED
    BY <1>8, <1>9, <2>1, NatInd
<1>11. Cardinality(D) \in M
  BY <1>10, FS_CardinalityType
<1> QED
  BY <1>1, <1>11

\* Sequences with the same elements.
LEMMA Same ==
    ASSUME NEW A, NEW s \in Seq(A), NEW t \in Seq(A), Len(s) = Len(t), \A i \in 1..Len(s) : s[i] = t[i]
    PROVE  s = t
OBVIOUS

\* The lines of a header that is written.
LEMMA DumpFacts ==
    ASSUME NEW options, IsFiniteSet(DOMAIN options)
    PROVE  LET lines == Dump(options) IN
           /\ DOMAIN lines = 1..Len(lines) /\ Len(lines) \in Nat
           /\ \A i \in DOMAIN lines :
                 /\ lines[i].name \in DOMAIN options /\ lines[i].colon = TRUE
                 /\ lines[i].value = options[lines[i].name]
           /\ \A n \in DOMAIN options : \E i \in DOMAIN lines : lines[i].name = n
           /\ \A i, j \in DOMAIN lines : lines[i].name = lines[j].name => i = j
<1> DEFINE lines == Dump(options)
           L == [name : DOMAIN options, value : {options[n] : n \in DOMAIN options}, colon : {TRUE}]
<1>1. Dumped(options, DOMAIN options, lines)
  BY DumpIsDumped
<1> HIDE DEF lines
<1>2. lines \in Seq(L) /\ DOMAIN lines = 1..Len(lines) /\ Len(lines) \in Nat
  BY <1>1 DEF Dumped
<1>3. ASSUME NEW i \in DOMAIN lines
      PROVE  /\ lines[i].name \in DOMAIN options /\ lines[i].colon = TRUE
             /\ lines[i].value = options[lines[i].name]
  <2>1. lines[i] \in L
    <3> HIDE DEF L
    <3> QED
      BY <1>2, Element
  <2>2. lines[i] = Line(lines[i].name, options[lines[i].name])
    BY <1>1, <1>2 DEF Dumped
  <2>3. PICK n \in DOMAIN options : lines[i].name = n
    BY <2>1
  <2> QED
    BY <2>2, <2>3 DEF Line
<1>4. /\ \A n \in DOMAIN options : \E i \in DOMAIN lines : lines[i].name = n
      /\ \A i, j \in DOMAIN lines : lines[i].name = lines[j].name => i = j
  BY <1>1, <1>2 DEF Dumped
<1> QED
  BY <1>2, <1>3, <1>4 DEF lines

\* Options in lower case are read as they were written (Header::dump(), parse()).
LEMMA AssignedDump ==
    ASSUME NEW options, IsFiniteSet(DOMAIN options),
           \A n \in DOMAIN options : n \notin DOMAIN Lower
    PROVE  /\ DOMAIN Assigned(Dump(options)) = DOMAIN options
           /\ \A n \in DOMAIN options : Assigned(Dump(options))[n] = options[n]
<1> DEFINE lines == Dump(options)
           named(n) == {i \in DOMAIN lines : ToLower(lines[i].name) = n}
           last(n) == CHOOSE i \in named(n) : \A j \in named(n) : j <= i
           all == Assigned(lines)
<1>1. /\ DOMAIN lines = 1..Len(lines) /\ Len(lines) \in Nat
      /\ \A i \in DOMAIN lines :
            /\ lines[i].name \in DOMAIN options
            /\ lines[i].value = options[lines[i].name]
      /\ \A n \in DOMAIN options : \E i \in DOMAIN lines : lines[i].name = n
      /\ \A i, j \in DOMAIN lines : lines[i].name = lines[j].name => i = j
  BY DumpFacts
<1>2. all = [n \in {ToLower(lines[i].name) : i \in DOMAIN lines} |-> lines[last(n)].value]
  BY DEF Assigned
<1> HIDE DEF lines, all
<1>3. \A i \in DOMAIN lines : ToLower(lines[i].name) = lines[i].name
  BY <1>1 DEF ToLower
<1>4. {ToLower(lines[i].name) : i \in DOMAIN lines} = DOMAIN options
  <2>1. ASSUME NEW i \in DOMAIN lines PROVE ToLower(lines[i].name) \in DOMAIN options
    BY <1>1, <1>3
  <2>2. ASSUME NEW n \in DOMAIN options PROVE \E i \in DOMAIN lines : n = ToLower(lines[i].name)
    BY <1>1, <1>3
  <2> QED
    BY <2>1, <2>2
<1>5. ASSUME NEW n \in DOMAIN options PROVE lines[last(n)].value = options[n]
  <2>1. PICK k \in DOMAIN lines : lines[k].name = n
    BY <1>1
  <2>2. named(n) = {k}
    BY <1>1, <1>3, <2>1
  <2>3. k <= k
    BY <1>1
  <2> HIDE DEF named
  <2>4. last(n) = k
    BY <2>2, <2>3
  <2> HIDE DEF last
  <2> QED
    BY <1>1, <2>1, <2>4
<1> HIDE DEF last
<1> QED
  BY <1>2, <1>4, <1>5 DEF all, lines

\* And without an error, when every value is one its validator accepts.
LEMMA ParseDump ==
    ASSUME NEW level, NEW options, IsFiniteSet(DOMAIN options),
           \A n \in DOMAIN options : n \notin DOMAIN Lower /\ Validated(level, n, options[n]) = "none"
    PROVE  Parse(level, Dump(options)) =
               [error |-> "none", options |-> Over(Assigned(Dump(options)), NoOptions)]
<1> DEFINE lines == Dump(options)
           refused == {i \in DOMAIN lines : LineError(level, lines[i]) # "none"}
<1>1. \A i \in DOMAIN lines :
            /\ lines[i].name \in DOMAIN options /\ lines[i].colon = TRUE
            /\ lines[i].value = options[lines[i].name]
  BY DumpFacts
<1> HIDE DEF lines
<1>2. ASSUME NEW i \in DOMAIN lines PROVE LineError(level, lines[i]) = "none"
  BY <1>1 DEF LineError, ToLower
<1>3. refused = {}
  BY <1>2
<1> QED
  BY <1>3 DEF Parse, lines

\* Options that are put over others.
LEMMA OverDomain ==
    ASSUME NEW some, NEW others
    PROVE  DOMAIN Over(some, others) = DOMAIN some \cup DOMAIN others
  BY DEF Over

\* Their values are kept.
LEMMA OverSome ==
    ASSUME NEW some, NEW others, NEW n \in DOMAIN some
    PROVE  Over(some, others)[n] = some[n]
  BY DEF Over

\* The others' are, where they have none.
LEMMA OverOthers ==
    ASSUME NEW some, NEW others, NEW n \in DOMAIN others, n \notin DOMAIN some
    PROVE  Over(some, others)[n] = others[n]
  BY DEF Over

\* One option.
LEMMA OneFacts ==
    ASSUME NEW n, NEW v
    PROVE  DOMAIN One(n, v) = {n} /\ One(n, v)[n] = v
  BY DEF One

\* An option is set.
LEMMA SetDomain ==
    ASSUME NEW options, NEW n, NEW v
    PROVE  DOMAIN SetOption(options, n, v) = DOMAIN options \cup {n}
<1>1. DOMAIN One(n, v) = {n}
  BY OneFacts
<1>2. DOMAIN SetOption(options, n, v) = DOMAIN One(n, v) \cup DOMAIN options
  BY OverDomain DEF SetOption
<1> QED
  BY <1>1, <1>2

\* It has its value.
LEMMA SetSame ==
    ASSUME NEW options, NEW n, NEW v
    PROVE  SetOption(options, n, v)[n] = v
<1>1. n \in DOMAIN One(n, v) /\ One(n, v)[n] = v
  BY OneFacts
<1> QED
  BY <1>1, OverSome DEF SetOption

\* The others keep theirs.
LEMMA SetOther ==
    ASSUME NEW options, NEW n, NEW v, NEW m \in DOMAIN options, m # n
    PROVE  SetOption(options, n, v)[m] = options[m]
<1>1. m \notin DOMAIN One(n, v)
  BY OneFacts
<1> QED
  BY <1>1, OverOthers DEF SetOption

\* Options are finitely many.
LEMMA SetFinite ==
    ASSUME NEW options, NEW n, NEW v, IsFiniteSet(DOMAIN options)
    PROVE  IsFiniteSet(DOMAIN SetOption(options, n, v))
<1>1. DOMAIN SetOption(options, n, v) = DOMAIN options \cup {n}
  BY SetDomain
<1>2. IsFiniteSet(DOMAIN options \cup {n})
  BY FS_AddElement
<1> QED
  BY <1>1, <1>2

\* Where the name of a user ends.
LEMMA CutAtColon ==
    ASSUME NEW user \in Seq(Byte \ {ColonByte}), NEW password \in Seq(Byte)
    PROVE  LET data   == user \o <<ColonByte>> \o password
               colons == {i \in DOMAIN data : data[i] = ColonByte}
               cut    == CHOOSE i \in colons : \A j \in colons : i <= j
           IN  /\ data \in Seq(Byte)
               /\ colons # {}
               /\ SubSeq(data, 1, cut - 1) = user
               /\ SubSeq(data, cut + 1, Len(data)) = password
<1> DEFINE data   == user \o <<ColonByte>> \o password
           colons == {i \in DOMAIN data : data[i] = ColonByte}
           cut    == CHOOSE i \in colons : \A j \in colons : i <= j
<1>1. PICK m \in Nat, k \in Nat : m = Len(user) /\ k = Len(password)
  OBVIOUS
<1>2. user \in Seq(Byte) /\ \A i \in 1..m : user[i] # ColonByte
  BY <1>1
<1>3. /\ data \in Seq(Byte) /\ Len(data) = m + 1 + k /\ DOMAIN data = 1..(m + 1 + k)
      /\ \A i \in 1..m : data[i] = user[i]
      /\ data[m + 1] = ColonByte
      /\ \A i \in 1..k : data[m + 1 + i] = password[i]
  <2>1. ColonByte \in Byte
    BY DEF ColonByte, Byte
  <2> HIDE DEF ColonByte
  <2> DEFINE left == user \o <<ColonByte>>
  <2>2. /\ left \in Seq(Byte) /\ Len(left) = m + 1
        /\ \A i \in 1..m : left[i] = user[i]
        /\ left[m + 1] = ColonByte
    BY <1>1, <1>2, <2>1
  <2> HIDE DEF left
  <2>3. data = left \o password
    BY DEF left
  <2>4. /\ left \o password \in Seq(Byte) /\ Len(left \o password) = m + 1 + k
        /\ \A i \in 1..(m + 1) : (left \o password)[i] = left[i]
        /\ \A i \in 1..k : (left \o password)[m + 1 + i] = password[i]
    BY <1>1, <2>2
  <2> HIDE DEF data
  <2>5. m + 1 \in 1..(m + 1) /\ \A i \in 1..m : i \in 1..(m + 1)
    OBVIOUS
  <2> QED
    BY <2>2, <2>3, <2>4, <2>5
<1> HIDE DEF data
<1>4. cut = m + 1
  <2>1. m + 1 \in colons
    BY <1>3
  <2>2. \A j \in colons : m + 1 <= j
    BY <1>2, <1>3
  <2>3. colons \subseteq Int
    BY <1>3
  <2>4. \A i \in colons : (\A j \in colons : i <= j) => i = m + 1
    BY <2>1, <2>2, <2>3
  <2> HIDE DEF colons
  <2> QED
    BY <2>1, <2>2, <2>4
<1>5. colons # {}
  BY <1>3
<1>6. SubSeq(data, 1, m) = user
  <2>1. /\ SubSeq(data, 1, m) \in Seq(Byte) /\ Len(SubSeq(data, 1, m)) = m
        /\ \A i \in 1..m : SubSeq(data, 1, m)[i] = data[i]
    BY <1>3
  <2> QED
    BY <1>1, <1>2, <1>3, <2>1
<1>7. SubSeq(data, m + 2, m + 1 + k) = password
  <2>1. /\ SubSeq(data, m + 1 + 1, m + 1 + k) \in Seq(Byte)
        /\ Len(SubSeq(data, m + 1 + 1, m + 1 + k)) = k
        /\ \A i \in 1..k : SubSeq(data, m + 1 + 1, m + 1 + k)[i] = data[m + 1 + i]
    <3>1. PICK lo \in Nat, hi \in Nat : lo = m + 1 /\ hi = m + 1 + k /\ lo <= hi /\ hi <= Len(data) /\ hi - lo = k
      BY <1>3
    <3>2. /\ SubSeq(data, lo + 1, hi) \in Seq(Byte) /\ Len(SubSeq(data, lo + 1, hi)) = hi - lo
          /\ \A i \in 1..(hi - lo) : SubSeq(data, lo + 1, hi)[i] = data[lo + i]
      BY <1>3, <3>1, Piece
    <3> QED
      BY <3>1, <3>2
  <2>2. m + 1 + 1 = m + 2
    OBVIOUS
  <2>3. PICK t \in Seq(Byte) : t = SubSeq(data, m + 1 + 1, m + 1 + k)
    BY <2>1
  <2>4. Len(t) = Len(password) /\ \A i \in 1..Len(t) : t[i] = password[i]
    BY <1>1, <1>3, <2>1, <2>3
  <2>5. t = password
    BY <2>4, Same
  <2> QED
    BY <2>2, <2>3, <2>5
<1> HIDE DEF colons, cut
<1>8. cut - 1 = m /\ cut + 1 = m + 2
  BY <1>4
<1> QED
  BY <1>3, <1>5, <1>6, <1>7, <1>8 DEF data, colons, cut

\* Every header begins with that the connection is not kept.
LEMMA NoOptionsFacts ==
    /\ DOMAIN NoOptions = {"connection"} /\ NoOptions["connection"] = "close"
    /\ IsFiniteSet(DOMAIN NoOptions)
  BY FS_Singleton DEF NoOptions, One

\* A header that is written in options that have one for the connection, in lower
\* case and with valid values, is read as those.
LEMMA ReadBack ==
    ASSUME NEW level, NEW options, IsFiniteSet(DOMAIN options),
           "connection" \in DOMAIN options,
           \A n \in DOMAIN options : n \notin DOMAIN Lower /\ Validated(level, n, options[n]) = "none"
    PROVE  LET h == Parse(level, Dump(options)) IN
           /\ h.error = "none"
           /\ h = [error |-> "none", options |-> h.options]
           /\ DOMAIN h.options = DOMAIN options
           /\ \A n \in DOMAIN options : h.options[n] = options[n]
<1> DEFINE read == Assigned(Dump(options))
           h == Parse(level, Dump(options))
<1>1. h = [error |-> "none", options |-> Over(read, NoOptions)]
  BY ParseDump
<1>2. DOMAIN read = DOMAIN options /\ \A n \in DOMAIN options : read[n] = options[n]
  BY AssignedDump
<1> HIDE DEF read
<1>3. DOMAIN Over(read, NoOptions) = DOMAIN options
  <2>1. DOMAIN Over(read, NoOptions) = DOMAIN read \cup DOMAIN NoOptions
    BY OverDomain
  <2> QED
    BY <1>2, <2>1, NoOptionsFacts
<1>4. \A n \in DOMAIN options : Over(read, NoOptions)[n] = options[n]
  BY <1>2, OverSome
<1> HIDE DEF h
<1> QED
  BY <1>1, <1>3, <1>4 DEF h

\* The names the library gives options are in lower case and no X-headers.
LEMMA KnownFacts ==
    ASSUME NEW n \in KnownNames
    PROVE  n \notin DOMAIN Lower /\ n \notin XNames
  BY HeaderAssumption

\* A value without a validator is accepted.
LEMMA Unvalidated ==
    ASSUME NEW level, NEW n, NEW v,
           n \notin {"content-length", "expect", "content-type"}
    PROVE  Validated(level, n, v) = "none"
  BY DEF Validated

\* The length and the type of the library's content are accepted.
LEMMA ContentValid ==
    ASSUME NEW level, NEW len \in 0..MaxUnsigned
    PROVE  /\ Validated(level, "content-length", Number(len)) = "none"
           /\ Validated(level, "content-type", "text/xml") = "none"
<1>1. Number(len).number \in 0..MaxUnsigned /\ "number" \in DOMAIN Number(len)
  BY DEF Number
<1>2. Validated(level, "content-length", Number(len)) = "none"
  BY <1>1 DEF Validated
<1>3. ToLower("text/xml") \in XmlTypes
  BY HeaderAssumption DEF ToLower
<1> QED
  BY <1>2, <1>3 DEF Validated

\* What set_content_length() and set_conn_keep_alive() add to the options.
LEMMA ContentFacts ==
    ASSUME NEW options, NEW len \in Nat, NEW v, IsFiniteSet(DOMAIN options),
           "content-type" \notin DOMAIN options
    PROVE  LET more == SetOption(SetContentLength(options, len), "connection", v) IN
           /\ IsFiniteSet(DOMAIN more)
           /\ DOMAIN options \cup {"content-length", "connection"} \subseteq DOMAIN more
           /\ DOMAIN more \subseteq DOMAIN options \cup {"content-length", "connection", "content-type"}
           /\ more["connection"] = v
           /\ more["content-length"] = Number(len)
           /\ \A n \in DOMAIN options :
                 n \notin {"content-length", "connection", "content-type"} => more[n] = options[n]
           /\ "content-type" \in DOMAIN more => more["content-type"] = "text/xml"
<1> DEFINE counted == SetOption(options, "content-length", Number(len))
           typed   == SetOption(counted, "content-type", "text/xml")
           c       == SetContentLength(options, len)
           more    == SetOption(c, "connection", v)
<1>1. /\ DOMAIN counted = DOMAIN options \cup {"content-length"}
      /\ counted["content-length"] = Number(len)
      /\ IsFiniteSet(DOMAIN counted)
      /\ \A n \in DOMAIN options : n # "content-length" => counted[n] = options[n]
  <2>1. DOMAIN counted = DOMAIN options \cup {"content-length"}
    BY SetDomain
  <2>2. counted["content-length"] = Number(len)
    BY SetSame
  <2>3. IsFiniteSet(DOMAIN counted)
    BY SetFinite
  <2>4. ASSUME NEW n \in DOMAIN options, n # "content-length" PROVE counted[n] = options[n]
    BY <2>4, SetOther
  <2> HIDE DEF counted
  <2> QED
    BY <2>1, <2>2, <2>3, <2>4
<1> HIDE DEF counted
<1>2. /\ DOMAIN typed = DOMAIN counted \cup {"content-type"}
      /\ typed["content-type"] = "text/xml"
      /\ IsFiniteSet(DOMAIN typed)
      /\ \A n \in DOMAIN counted : n # "content-type" => typed[n] = counted[n]
  <2>1. DOMAIN typed = DOMAIN counted \cup {"content-type"}
    BY SetDomain
  <2>2. typed["content-type"] = "text/xml"
    BY SetSame
  <2>3. IsFiniteSet(DOMAIN typed)
    BY <1>1, SetFinite
  <2>4. ASSUME NEW n \in DOMAIN counted, n # "content-type" PROVE typed[n] = counted[n]
    BY <2>4, SetOther
  <2> HIDE DEF typed
  <2> QED
    BY <2>1, <2>2, <2>3, <2>4
<1> HIDE DEF typed
<1>3. c = IF len = 0 THEN counted ELSE typed
  BY DEF SetContentLength, counted, typed
<1> HIDE DEF c
<1>4. /\ IsFiniteSet(DOMAIN c)
      /\ DOMAIN options \cup {"content-length"} \subseteq DOMAIN c
      /\ DOMAIN c \subseteq DOMAIN options \cup {"content-length", "content-type"}
      /\ c["content-length"] = Number(len)
      /\ \A n \in DOMAIN options :
            n \notin {"content-length", "content-type"} => c[n] = options[n]
      /\ "content-type" \notin DOMAIN options /\ "content-type" \in DOMAIN c =>
            c["content-type"] = "text/xml"
  <2>1. CASE len = 0
    BY <1>1, <1>3, <2>1
  <2>2. CASE len # 0
    BY <1>1, <1>2, <1>3, <2>2
  <2> QED
    BY <2>1, <2>2
<1>5. /\ DOMAIN more = DOMAIN c \cup {"connection"}
      /\ more["connection"] = v
      /\ IsFiniteSet(DOMAIN more)
      /\ \A n \in DOMAIN c : n # "connection" => more[n] = c[n]
  <2>1. DOMAIN more = DOMAIN c \cup {"connection"}
    BY SetDomain
  <2>2. more["connection"] = v
    BY SetSame
  <2>3. IsFiniteSet(DOMAIN more)
    BY <1>4, SetFinite
  <2>4. ASSUME NEW n \in DOMAIN c, n # "connection" PROVE more[n] = c[n]
    BY <2>4, SetOther
  <2> HIDE DEF more
  <2> QED
    BY <2>1, <2>2, <2>3, <2>4
<1> HIDE DEF more
<1>6. /\ IsFiniteSet(DOMAIN more)
      /\ DOMAIN options \cup {"content-length", "connection"} \subseteq DOMAIN more
      /\ DOMAIN more \subseteq DOMAIN options \cup {"content-length", "connection", "content-type"}
      /\ more["connection"] = v
      /\ more["content-length"] = Number(len)
      /\ \A n \in DOMAIN options :
            n \notin {"content-length", "connection", "content-type"} => more[n] = options[n]
      /\ "content-type" \notin DOMAIN options /\ "content-type" \in DOMAIN more =>
            more["content-type"] = "text/xml"
  BY <1>4, <1>5
<1> QED
  BY <1>6 DEF more, c

\* The options of an error are read as they are written, with its code
\* (http_errors.h, Response_header).
LEMMA RefusalRead ==
    ASSUME NEW error \in DOMAIN Codes
    PROVE  LET h == ResponseHeader(Weak, ErrorText(error)) IN
           /\ h.error = "none"
           /\ h.code = Codes[error]
           /\ ContentLength(h.options) = 0 /\ ~ConnKeepAlive(h.options)
<1> DEFINE some == ErrorOptions(error)
           all  == SetOption(SetContentLength(some, 0), "connection", "close")
           text == ErrorText(error)
           h    == ResponseHeader(Weak, text)
           p    == Parse(Weak, Dump(all))
<1>1. IsFiniteSet(DOMAIN some) /\ DOMAIN some \subseteq {"connection", "date", "server", "allowed"}
  <2> DEFINE o1 == SetOption(NoOptions, "date", "now")
             o2 == SetOption(o1, "server", "iqxmlrpc")
             o3 == SetOption(o2, "allowed", ": POST")
  <2>1. DOMAIN o1 = {"connection", "date"} /\ IsFiniteSet(DOMAIN o1)
    <3>1. DOMAIN o1 = DOMAIN NoOptions \cup {"date"}
      BY SetDomain
    <3>2. IsFiniteSet(DOMAIN o1)
      BY NoOptionsFacts, SetFinite
    <3> HIDE DEF o1
    <3> QED
      BY <3>1, <3>2, NoOptionsFacts
  <2> HIDE DEF o1
  <2>2. DOMAIN o2 = {"connection", "date", "server"} /\ IsFiniteSet(DOMAIN o2)
    <3>1. DOMAIN o2 = DOMAIN o1 \cup {"server"}
      BY SetDomain
    <3>2. IsFiniteSet(DOMAIN o2)
      BY <2>1, SetFinite
    <3> HIDE DEF o2
    <3> QED
      BY <2>1, <3>1, <3>2
  <2> HIDE DEF o2
  <2>3. DOMAIN o3 = {"connection", "date", "server", "allowed"} /\ IsFiniteSet(DOMAIN o3)
    <3>1. DOMAIN o3 = DOMAIN o2 \cup {"allowed"}
      BY SetDomain
    <3>2. IsFiniteSet(DOMAIN o3)
      BY <2>2, SetFinite
    <3> HIDE DEF o3
    <3> QED
      BY <2>2, <3>1, <3>2
  <2>4. some = o3 \/ some = o2
    BY DEF ErrorOptions, ResponseOptions, o1, o2
  <2> HIDE DEF o3
  <2> QED
    BY <2>2, <2>3, <2>4
<1> HIDE DEF some
<1>2. /\ IsFiniteSet(DOMAIN all)
      /\ {"content-length", "connection"} \subseteq DOMAIN all
      /\ DOMAIN all \subseteq {"connection", "date", "server", "allowed", "content-length", "content-type"}
      /\ all["connection"] = "close" /\ all["content-length"] = Number(0)
      /\ "content-type" \in DOMAIN all => all["content-type"] = "text/xml"
  <2>1. 0 \in Nat /\ IsFiniteSet(DOMAIN some) /\ "content-type" \notin DOMAIN some
    BY <1>1
  <2>2. /\ IsFiniteSet(DOMAIN all)
        /\ DOMAIN some \cup {"content-length", "connection"} \subseteq DOMAIN all
        /\ DOMAIN all \subseteq DOMAIN some \cup {"content-length", "connection", "content-type"}
        /\ all["connection"] = "close"
        /\ all["content-length"] = Number(0)
        /\ \A n \in DOMAIN some :
              n \notin {"content-length", "connection", "content-type"} => all[n] = some[n]
        /\ "content-type" \in DOMAIN all => all["content-type"] = "text/xml"
    BY <2>1, ContentFacts
  <2> HIDE DEF all
  <2> QED
    BY <1>1, <2>2
<1>3. text = [words |-> <<"HTTP/1.1", Number(Codes[error]), "phrase">>, lines |-> Dump(all)]
  BY DEF ErrorText, SetConnKeepAlive, some
<1> HIDE DEF all
<1>4. ASSUME NEW n \in DOMAIN all
      PROVE  n \notin DOMAIN Lower /\ Validated(Weak, n, all[n]) = "none"
  <2>1. n \in KnownNames
    BY <1>2 DEF KnownNames
  <2>2. 0 \in 0..MaxUnsigned
    BY HeaderAssumption
  <2>3. n \notin {"content-length", "content-type"} => n \notin {"content-length", "expect", "content-type"}
    BY <1>2
  <2> QED
    BY <1>2, <2>1, <2>2, <2>3, KnownFacts, ContentValid, Unvalidated
<1>5. /\ p.error = "none" /\ DOMAIN p.options = DOMAIN all
      /\ \A n \in DOMAIN all : p.options[n] = all[n]
  BY <1>2, <1>4, ReadBack
<1>6. h = [error   |-> "none",
           options |-> SetOptionDefault(p.options, "server", "unknown"),
           code    |-> Codes[error]]
  <2>1. text.lines = Dump(all) /\ Len(text.words) = 3 /\ text.words[2] = Number(Codes[error])
    BY <1>3
  <2>2. "number" \in DOMAIN Number(Codes[error]) /\ Number(Codes[error]).number = Codes[error]
    BY DEF Number
  <2> HIDE DEF text, p
  <2> QED
    BY <1>5, <2>1, <2>2 DEF ResponseHeader, p
<1> HIDE DEF p
<1>7. /\ SetOptionDefault(p.options, "server", "unknown")["content-length"] = Number(0)
      /\ SetOptionDefault(p.options, "server", "unknown")["connection"] = "close"
  BY <1>2, <1>5, OverSome DEF SetOptionDefault
<1> HIDE DEF h
<1>8. h.error = "none" /\ h.code = Codes[error] /\ ContentLength(h.options) = 0 /\ ~ConnKeepAlive(h.options)
  BY <1>6, <1>7 DEF ContentLength, ConnKeepAlive, Number
<1> QED
  BY <1>8 DEF h, text

\* A client that has credentials sends them in base64, one that has none sends none.
Sent(options, auth) ==
    IF HasAuthinfo(auth)
    THEN /\ "authorization" \in DOMAIN options
         /\ options["authorization"] =
              [words |-> <<"Basic", [base64 |->
                 Encode(auth.user \o <<ColonByte>> \o auth.password)]>>]
    ELSE "authorization" \notin DOMAIN options

\* What the options of a client are (process_session()).
LEMMA ClientFacts ==
    ASSUME NEW client, Settings(client), NEW len \in Nat
    PROVE  LET options == ClientOptions(client, len)
               x       == Over(client.callXheaders, client.xheaders)
           IN  /\ IsFiniteSet(DOMAIN options)
               /\ DOMAIN options \subseteq KnownNames \cup DOMAIN x
               /\ {"connection", "host", "user-agent", "content-length"} \subseteq DOMAIN options
               /\ "expect" \notin DOMAIN options
               /\ options["connection"] = IF client.keep THEN "keep-alive" ELSE "close"
               /\ options["content-length"] = Number(len)
               /\ "content-type" \in DOMAIN options => options["content-type"] = "text/xml"
               /\ DOMAIN x \subseteq DOMAIN options
               /\ \A n \in DOMAIN x : options[n] = x[n]
               /\ Sent(options, client.auth)
<1> DEFINE x     == Over(client.callXheaders, client.xheaders)
           o1    == SetOption(NoOptions, "host", "vhost")
           named == SetOption(o1, "user-agent", "iqxmlrpc")
           words == [words |-> <<"Basic", [base64 |->
                       Encode(client.auth.user \o <<ColonByte>> \o client.auth.password)]>>]
           told  == SetOption(named, "authorization", words)
           auth  == IF HasAuthinfo(client.auth) THEN told ELSE named
           e1    == Over(client.xheaders, auth)
           ext   == Over(client.callXheaders, e1)
           v     == IF client.keep THEN "keep-alive" ELSE "close"
           all   == SetOption(SetContentLength(ext, len), "connection", v)
           First == {"connection", "host", "user-agent"}
<1>1. ClientOptions(client, len) = all
  BY DEF ClientOptions, SetXHeaders, SetConnKeepAlive, SetAuthinfo
<1>2. /\ DOMAIN client.xheaders \subseteq XNames \ DOMAIN Lower
      /\ DOMAIN client.callXheaders \subseteq XNames \ DOMAIN Lower
      /\ IsFiniteSet(DOMAIN client.xheaders) /\ IsFiniteSet(DOMAIN client.callXheaders)
  BY DEF Settings
<1>3. /\ DOMAIN x = DOMAIN client.callXheaders \cup DOMAIN client.xheaders
      /\ DOMAIN x \cap KnownNames = {}
  <2>1. DOMAIN x = DOMAIN client.callXheaders \cup DOMAIN client.xheaders
    BY OverDomain
  <2> HIDE DEF x
  <2> QED
    BY <1>2, <2>1, KnownFacts
<1>4. DOMAIN named = First /\ IsFiniteSet(DOMAIN named)
  <2>1. DOMAIN o1 = DOMAIN NoOptions \cup {"host"} /\ IsFiniteSet(DOMAIN o1)
    BY SetDomain, SetFinite, NoOptionsFacts
  <2> HIDE DEF o1
  <2>2. DOMAIN named = DOMAIN o1 \cup {"user-agent"} /\ IsFiniteSet(DOMAIN named)
    BY <2>1, SetDomain, SetFinite
  <2> HIDE DEF named
  <2> QED
    BY <2>1, <2>2, NoOptionsFacts
<1> HIDE DEF named, words
<1>5. /\ DOMAIN told = First \cup {"authorization"} /\ IsFiniteSet(DOMAIN told)
      /\ told["authorization"] = words
  <2>1. DOMAIN told = DOMAIN named \cup {"authorization"}
    BY SetDomain
  <2>2. told["authorization"] = words
    BY SetSame
  <2>3. IsFiniteSet(DOMAIN told)
    BY <1>4, SetFinite
  <2> HIDE DEF told
  <2> QED
    BY <1>4, <2>1, <2>2, <2>3
<1> HIDE DEF told
<1>6. /\ IsFiniteSet(DOMAIN auth)
      /\ First \subseteq DOMAIN auth /\ DOMAIN auth \subseteq First \cup {"authorization"}
      /\ ~HasAuthinfo(client.auth) => "authorization" \notin DOMAIN auth
      /\ HasAuthinfo(client.auth) =>
            "authorization" \in DOMAIN auth /\ auth["authorization"] = words
  <2>1. CASE ~HasAuthinfo(client.auth)
    BY <1>4, <2>1
  <2>2. CASE HasAuthinfo(client.auth)
    BY <1>5, <2>2
  <2> QED
    BY <2>1, <2>2
<1> HIDE DEF auth, First
<1>7. /\ DOMAIN ext = DOMAIN x \cup DOMAIN auth /\ IsFiniteSet(DOMAIN ext)
      /\ \A n \in DOMAIN x : ext[n] = x[n]
      /\ \A n \in DOMAIN auth : n \notin DOMAIN x => ext[n] = auth[n]
  <2>1. DOMAIN e1 = DOMAIN client.xheaders \cup DOMAIN auth
    BY OverDomain
  <2>2. DOMAIN ext = DOMAIN client.callXheaders \cup DOMAIN e1
    BY OverDomain
  <2>3. IsFiniteSet(DOMAIN client.xheaders \cup DOMAIN auth)
    BY <1>2, <1>6, FS_Union
  <2>4. IsFiniteSet(DOMAIN client.callXheaders \cup DOMAIN e1)
    BY <1>2, <2>1, <2>3, FS_Union
  <2>5. ASSUME NEW n \in DOMAIN x PROVE ext[n] = x[n]
    <3>1. CASE n \in DOMAIN client.callXheaders
      BY <3>1, OverSome
    <3>2. CASE n \notin DOMAIN client.callXheaders
      <4>1. n \in DOMAIN client.xheaders /\ n \in DOMAIN e1
        BY <1>3, <2>1, <3>2
      <4>2. ext[n] = e1[n]
        BY <3>2, <4>1, OverOthers
      <4>3. e1[n] = client.xheaders[n]
        BY <4>1, OverSome
      <4>4. x[n] = client.xheaders[n]
        BY <3>2, <4>1, OverOthers
      <4> QED
        BY <4>2, <4>3, <4>4
    <3> QED
      BY <3>1, <3>2
  <2>6. ASSUME NEW n \in DOMAIN auth, n \notin DOMAIN x PROVE ext[n] = auth[n]
    <3>1. n \notin DOMAIN client.callXheaders /\ n \notin DOMAIN client.xheaders /\ n \in DOMAIN e1
      BY <1>3, <2>1, <2>6
    <3>2. ext[n] = e1[n]
      BY <3>1, OverOthers
    <3>3. e1[n] = auth[n]
      BY <3>1, OverOthers
    <3> QED
      BY <3>2, <3>3
  <2> HIDE DEF ext, e1, x
  <2> QED
    BY <1>3, <2>1, <2>2, <2>4, <2>5, <2>6
<1> HIDE DEF ext, x, v
<1>8. "content-type" \notin DOMAIN ext
  BY <1>3, <1>6, <1>7 DEF KnownNames, First
<1>9. /\ IsFiniteSet(DOMAIN all)
      /\ DOMAIN ext \cup {"content-length", "connection"} \subseteq DOMAIN all
      /\ DOMAIN all \subseteq DOMAIN ext \cup {"content-length", "connection", "content-type"}
      /\ all["connection"] = v
      /\ all["content-length"] = Number(len)
      /\ \A n \in DOMAIN ext :
            n \notin {"content-length", "connection", "content-type"} => all[n] = ext[n]
      /\ "content-type" \in DOMAIN all => all["content-type"] = "text/xml"
  BY <1>7, <1>8, ContentFacts
<1> HIDE DEF all
<1>10. First \cup {"authorization", "content-length", "content-type", "expect"} \subseteq KnownNames
  BY DEF First, KnownNames
<1>11. /\ DOMAIN all \subseteq KnownNames \cup DOMAIN x
       /\ DOMAIN x \subseteq DOMAIN all
       /\ First \cup {"content-length", "connection"} \subseteq DOMAIN all
  <2>1. "connection" \in First
    BY DEF First
  <2> QED
    BY <1>6, <1>7, <1>9, <1>10, <2>1
<1>12. "expect" \notin DOMAIN all
  BY <1>3, <1>6, <1>7, <1>9, <1>10 DEF First
<1>13. ASSUME NEW n \in DOMAIN x PROVE all[n] = x[n]
  <2>1. n \notin {"content-length", "connection", "content-type"}
    BY <1>3 DEF KnownNames
  <2> QED
    BY <1>7, <1>9, <2>1
<1>14. Sent(all, client.auth)
  <2>1. "authorization" \notin DOMAIN x
    BY <1>3 DEF KnownNames
  <2>2. CASE ~HasAuthinfo(client.auth)
    <3>1. "authorization" \notin DOMAIN all
      BY <1>6, <1>7, <1>9, <2>1, <2>2
    <3> QED
      BY <2>2, <3>1 DEF Sent
  <2>3. CASE HasAuthinfo(client.auth)
    <3>1. "authorization" \in DOMAIN auth /\ auth["authorization"] = words
      BY <1>6, <2>3
    <3>2. "authorization" \in DOMAIN all /\ all["authorization"] = words
      BY <1>7, <1>9, <2>1, <3>1
    <3> QED
      BY <2>3, <3>2 DEF Sent, words
  <2> QED
    BY <2>2, <2>3
<1>15. {"connection", "host", "user-agent", "content-length"} \subseteq DOMAIN all
  BY <1>11 DEF First
<1> QED
  BY <1>1, <1>9, <1>11, <1>12, <1>13, <1>14, <1>15 DEF v, x

\* Its header is read as it was built (process_session(), Request_header).
LEMMA ClientRead ==
    ASSUME NEW level, NEW client, Settings(client), NEW len \in Nat, len <= MaxUnsigned
    PROVE  RequestHeader(level, ClientText(client, len)) =
               [error |-> "none", options |-> ClientOptions(client, len)]
<1> DEFINE options == ClientOptions(client, len)
           x == Over(client.callXheaders, client.xheaders)
           p == Parse(level, Dump(options))
           o1 == SetOptionDefault(p.options, "host", "")
           o2 == SetOptionDefault(o1, "user-agent", "unknown")
           text == ClientText(client, len)
           h == RequestHeader(level, text)
<1>1. /\ IsFiniteSet(DOMAIN options)
      /\ DOMAIN options \subseteq KnownNames \cup DOMAIN x
      /\ {"connection", "host", "user-agent", "content-length"} \subseteq DOMAIN options
      /\ "expect" \notin DOMAIN options
      /\ options["content-length"] = Number(len)
      /\ "content-type" \in DOMAIN options => options["content-type"] = "text/xml"
  BY ClientFacts
<1>2. DOMAIN x \subseteq XNames \ DOMAIN Lower
  <2>1. DOMAIN x = DOMAIN client.callXheaders \cup DOMAIN client.xheaders
    BY OverDomain
  <2> HIDE DEF x
  <2> QED
    BY <2>1 DEF Settings
<1>3. options = [n \in DOMAIN options |-> options[n]]
  BY DEF ClientOptions, SetConnKeepAlive, SetOption, Over
<1>4. text = [words |-> <<"POST", "/RPC", "HTTP/1.0">>, lines |-> Dump(options)]
  BY DEF ClientText
<1> HIDE DEF options, x
<1>5. ASSUME NEW n \in DOMAIN options
      PROVE  n \notin DOMAIN Lower /\ Validated(level, n, options[n]) = "none"
  <2>1. n \notin DOMAIN Lower
    BY <1>1, <1>2, KnownFacts
  <2>2. len \in 0..MaxUnsigned
    BY HeaderAssumption
  <2>3. n \notin {"content-length", "content-type"} => n \notin {"content-length", "expect", "content-type"}
    BY <1>1
  <2> QED
    BY <1>1, <2>1, <2>2, <2>3, ContentValid, Unvalidated
<1>6. /\ p.error = "none"
      /\ p = [error |-> "none", options |-> p.options]
      /\ DOMAIN p.options = DOMAIN options
      /\ \A n \in DOMAIN options : p.options[n] = options[n]
  <2>1. "connection" \in DOMAIN options
    BY <1>1
  <2> QED
    BY <1>1, <1>5, <2>1, ReadBack
<1>7. h = [p EXCEPT !.options = o2]
  <2>1. text.lines = Dump(options) /\ text.words[1] = "POST"
    BY <1>4
  <2> HIDE DEF text
  <2>2. p = Parse(level, text.lines)
    BY <2>1
  <2> HIDE DEF p
  <2> QED
    BY <1>6, <2>1, <2>2 DEF RequestHeader
<1> HIDE DEF p, h
<1>8. h = [error |-> "none", options |-> o2]
  <2> HIDE DEF o1, o2
  <2>1. PICK o : p = [error |-> "none", options |-> o]
    BY <1>6
  <2> QED
    BY <1>7, <2>1
<1>9. DOMAIN o1 = DOMAIN options /\ \A n \in DOMAIN options : o1[n] = options[n]
  <2>1. DOMAIN o1 = DOMAIN p.options \cup DOMAIN One("host", "")
    BY OverDomain DEF SetOptionDefault
  <2>2. DOMAIN One("host", "") = {"host"}
    BY OneFacts
  <2>3. ASSUME NEW n \in DOMAIN options PROVE o1[n] = options[n]
    <3>1. n \in DOMAIN p.options /\ p.options[n] = options[n]
      BY <1>6
    <3> QED
      BY <3>1, OverSome DEF SetOptionDefault
  <2> HIDE DEF o1
  <2> QED
    BY <1>1, <1>6, <2>1, <2>2, <2>3
<1> HIDE DEF o1
<1>10. DOMAIN o2 = DOMAIN options /\ \A n \in DOMAIN options : o2[n] = options[n]
  <2>1. DOMAIN o2 = DOMAIN o1 \cup DOMAIN One("user-agent", "unknown")
    BY OverDomain DEF SetOptionDefault
  <2>2. DOMAIN One("user-agent", "unknown") = {"user-agent"}
    BY OneFacts
  <2>3. ASSUME NEW n \in DOMAIN options PROVE o2[n] = options[n]
    BY <1>9, OverSome DEF SetOptionDefault
  <2> HIDE DEF o2
  <2> QED
    BY <1>1, <1>9, <2>1, <2>2, <2>3
<1>11. o2 = [n \in DOMAIN o2 |-> o2[n]]
  BY DEF SetOptionDefault, Over
<1> HIDE DEF o2
<1>12. o2 = options
  BY <1>3, <1>10, <1>11
<1> QED
  BY <1>8, <1>12 DEF h, text, options

\* What is sent as credentials is read as those, and nothing as none (has_authinfo(),
\* set_authinfo(), get_authinfo()).
LEMMA CredentialsRead ==
    ASSUME NEW options, NEW auth, Sent(options, auth),
           auth \in [user : Seq(Byte \ {ColonByte}), password : Seq(Byte)]
    PROVE  GetAuthinfo(options) = IF HasAuthinfo(auth) THEN auth ELSE NoCredentials
<1>1. CASE ~HasAuthinfo(auth)
  BY <1>1 DEF Sent, GetAuthinfo, Exists
<1>2. CASE HasAuthinfo(auth)
  <2>1. PICK user \in Seq(Byte \ {ColonByte}), password \in Seq(Byte) :
            auth = [user |-> user, password |-> password]
    BY <1>2
  <2> DEFINE data   == user \o <<ColonByte>> \o password
             colons == {i \in DOMAIN data : data[i] = ColonByte}
             cut    == CHOOSE i \in colons : \A j \in colons : i <= j
             coded  == Encode(data)
             words  == <<"Basic", [base64 |-> coded]>>
  <2>2. /\ data \in Seq(Byte) /\ colons # {}
        /\ SubSeq(data, 1, cut - 1) = user
        /\ SubSeq(data, cut + 1, Len(data)) = password
    BY CutAtColon
  <2>3. "authorization" \in DOMAIN options /\ options["authorization"] = [words |-> words]
    <3>1. auth.user = user /\ auth.password = password
      BY <2>1
    <3> QED
      BY <1>2, <3>1 DEF Sent
  <2> HIDE DEF data
  <2>4. Decode(coded) = {data}
    BY <2>2, Base64ReadsBack
  <2> HIDE DEF coded
  <2>5. options["authorization"].words = words /\ Len(words) = 2
        /\ words[1] = "Basic" /\ words[2].base64 = coded
    BY <2>3
  <2>6. ToLower("Basic") = "basic"
    BY HeaderAssumption DEF ToLower
  <2>7. (CHOOSE bytes \in Decode(coded) : TRUE) = data
    BY <2>4
  <2> HIDE DEF words
  <2>8. Credentials(data) = [user |-> user, password |-> password]
    <3>1. Credentials(data) = [user |-> SubSeq(data, 1, cut - 1),
                               password |-> SubSeq(data, cut + 1, Len(data))]
      BY <2>2 DEF Credentials
    <3> QED
      BY <2>2, <3>1
  <2>9. GetAuthinfo(options) = Credentials(data)
    BY <2>3, <2>4, <2>5, <2>6, <2>7 DEF GetAuthinfo, Exists
  <2> QED
    BY <1>2, <2>1, <2>8, <2>9
<1> QED
  BY <1>1, <1>2

\* The X-headers among the options of a client are those it was given.
LEMMA XHeadersRead ==
    ASSUME NEW client, Settings(client), NEW len \in Nat
    PROVE  XHeadersOf(Dump(ClientOptions(client, len)))
               = Over(client.callXheaders, client.xheaders)
<1> DEFINE options == ClientOptions(client, len)
           x == Over(client.callXheaders, client.xheaders)
           all == Assigned(Dump(options))
<1>1. /\ IsFiniteSet(DOMAIN options)
      /\ DOMAIN options \subseteq KnownNames \cup DOMAIN x
      /\ DOMAIN x \subseteq DOMAIN options
      /\ \A n \in DOMAIN x : options[n] = x[n]
  BY ClientFacts
<1>2. DOMAIN x \subseteq XNames \ DOMAIN Lower
  <2>1. DOMAIN x = DOMAIN client.callXheaders \cup DOMAIN client.xheaders
    BY OverDomain
  <2> HIDE DEF x
  <2> QED
    BY <2>1 DEF Settings
<1>3. x = [n \in DOMAIN x |-> x[n]]
  BY DEF Over
<1> HIDE DEF options, x
<1>4. DOMAIN all = DOMAIN options /\ \A n \in DOMAIN options : all[n] = options[n]
  <2>1. \A n \in DOMAIN options : n \notin DOMAIN Lower
    BY <1>1, <1>2, KnownFacts
  <2> QED
    BY <1>1, <2>1, AssignedDump
<1>5. XHeadersOf(Dump(options)) = [n \in DOMAIN all \cap XNames |-> all[n]]
  BY DEF XHeadersOf
<1> HIDE DEF all
<1>6. DOMAIN all \cap XNames = DOMAIN x
  BY <1>1, <1>2, <1>4, KnownFacts
<1>7. XHeadersOf(Dump(options)) = x
  BY <1>1, <1>3, <1>4, <1>5, <1>6
<1> QED
  BY <1>7 DEF options, x

\* What a header is refused with has a code (http.cc, http_errors.h).
LEMMA ErrorHasCode ==
    ASSUME NEW level, NEW text
    PROVE  RequestHeader(level, text).error \in {"none"} \cup DOMAIN Codes
<1> DEFINE lines == text.lines
           refused == {i \in DOMAIN lines : LineError(level, lines[i]) # "none"}
           first   == CHOOSE i \in refused : \A j \in refused : i <= j
           h == Parse(level, lines)
           E == {"none", "Malformed_packet", "Expectation_failed", "Unsupported_content_type"}
<1>1. DOMAIN Codes = {"Malformed_packet", "Method_not_allowed",
                      "Unsupported_content_type", "Expectation_failed"}
  BY DEF Codes
<1>2. ASSUME NEW line PROVE LineError(level, line) \in E
  <2>1. Validated(level, ToLower(line.name), line.value) \in E
    BY DEF Validated
  <2> QED
    BY <2>1 DEF LineError
<1>3. h.error \in E /\ h = [error |-> h.error, options |-> h.options]
  <2>1. CASE refused = {}
    BY <2>1 DEF Parse
  <2>2. CASE refused # {}
    BY <1>2, <2>2 DEF Parse
  <2> QED
    BY <2>1, <2>2
<1> HIDE DEF h
<1>4. CASE h.error # "none"
  <2>1. RequestHeader(level, text) = h
    BY <1>4 DEF RequestHeader, h
  <2> QED
    BY <1>1, <1>3, <2>1
<1>5. CASE h.error = "none"
  <2>1. PICK o : h = [error |-> "none", options |-> o]
    BY <1>3, <1>5
  <2>2. CASE text.words[1] # "POST"
    <3>1. RequestHeader(level, text) = [h EXCEPT !.error = "Method_not_allowed"]
      BY <1>5, <2>2 DEF RequestHeader, h
    <3> QED
      BY <1>1, <2>1, <3>1
  <2>3. CASE text.words[1] = "POST"
    <3> DEFINE more == SetOptionDefault(SetOptionDefault(o, "host", ""), "user-agent", "unknown")
    <3>1. h.options = o
      BY <2>1
    <3>2. RequestHeader(level, text) = [h EXCEPT !.options = more]
      BY <1>5, <2>3, <3>1 DEF RequestHeader, h
    <3> HIDE DEF more
    <3> QED
      BY <2>1, <3>2
  <2> QED
    BY <2>2, <2>3
<1> QED
  BY <1>4, <1>5

\* What the reader tells apart of a request.
LEMMA ReadFacts ==
    ASSUME NEW from, NEW level, NEW text, NEW size, NEW len
    PROVE  LET h == RequestHeader(level, text)
               r == Read(from, level, text, size, len)
           IN  /\ r.good = (h.error = "none")
               /\ r.declared = (h.error # "none" \/ Exists(h.options, "content-length"))
               /\ r.options = h.options /\ r.error = h.error
<1> DEFINE h == RequestHeader(level, text)
           declared == h.error # "none" \/ Exists(h.options, "content-length")
           good == h.error = "none"
<1>1. Read(from, level, text, size, len) =
        [from |-> from, level |-> level, text |-> text,
         head |-> size, length |-> IF declared THEN len ELSE 0,
         good |-> good, declared |-> declared,
         expect |-> ExpectContinue(h.options), options |-> h.options, error |-> h.error]
  BY DEF Read
<1> HIDE DEF h, declared, good
<1>2. /\ Read(from, level, text, size, len).good = good
      /\ Read(from, level, text, size, len).declared = declared
      /\ Read(from, level, text, size, len).options = h.options
      /\ Read(from, level, text, size, len).error = h.error
  BY <1>1
<1> QED
  BY <1>2 DEF good, declared, h

\* A client's request, whatever it was told, is understood once it has come.
LEMMA ClientUnderstood ==
    ASSUME TypeOK, VerdictIndependentOfPieces
    PROVE  RequestUnderstood
<1>1. SUFFICES ASSUME NEW client \in request.from
      PROVE  /\ request.good /\ request.declared
             /\ phase = "executing" =>
                   /\ GetAuthinfo(request.options) = CredentialsOf(client)
                   /\ ConnKeepAlive(request.options) = client.keep
                   /\ XHeadersOf(Dump(request.options))
                         = Over(client.callXheaders, client.xheaders)
                   /\ ContentLength(request.options) = pos - HeaderSize(request)
  BY DEF RequestUnderstood
<1>2. PICK r \in Requests : r = request
  BY DEF TypeOK
<1>3. PICK len \in Nat, size \in Nat : len = r.length /\ size = r.head
  BY RequestAssumption
<1>4. /\ Settings(client) /\ len <= MaxUnsigned
      /\ r.text = ClientText(client, len)
      /\ r = Read(r.from, r.level, r.text, r.head, r.length)
  BY <1>1, <1>2, <1>3, HeadersAssumption
<1> DEFINE options == ClientOptions(client, len)
           h == RequestHeader(r.level, r.text)
<1>5. h = [error |-> "none", options |-> options]
  BY <1>4, ClientRead
<1>6. /\ {"connection", "content-length"} \subseteq DOMAIN options
      /\ options["connection"] = IF client.keep THEN "keep-alive" ELSE "close"
      /\ options["content-length"] = Number(len)
      /\ Sent(options, client.auth)
  BY <1>4, ClientFacts
<1> HIDE DEF options, h
<1>7. r.good /\ r.declared /\ r.options = options
  <2>1. h.error = "none" /\ h.options = options /\ Exists(h.options, "content-length")
    BY <1>5, <1>6 DEF Exists
  <2>2. /\ r.good = (h.error = "none")
        /\ r.declared = (h.error # "none" \/ Exists(h.options, "content-length"))
        /\ r.options = h.options
    BY <1>4, ReadFacts DEF h
  <2> QED
    BY <2>1, <2>2
<1>8. GetAuthinfo(options) = CredentialsOf(client)
  <2>1. GetAuthinfo(options)
          = IF HasAuthinfo(client.auth) THEN client.auth ELSE NoCredentials
    BY <1>4, <1>6, CredentialsRead DEF Settings
  <2> QED
    BY <2>1 DEF CredentialsOf, HasAuthinfo
<1>9. ConnKeepAlive(options) = client.keep
  BY <1>4, <1>6 DEF ConnKeepAlive, Settings
<1>10. XHeadersOf(Dump(options)) = Over(client.callXheaders, client.xheaders)
  BY <1>4, XHeadersRead DEF options
<1>11. ContentLength(options) = len
  BY <1>6 DEF ContentLength, Number
<1>12. ASSUME phase = "executing" PROVE pos - HeaderSize(r) = len
  <2>1. pos = HeaderSize(r) + len
    BY <1>2, <1>3, <1>12 DEF VerdictIndependentOfPieces, RequestSize
  <2>2. PICK s \in Nat : s = HeaderSize(r)
    BY <1>3, RequestAssumption DEF HeaderSize
  <2> QED
    BY <2>1, <2>2
<1> QED
  BY <1>2, <1>7, <1>8, <1>9, <1>10, <1>11, <1>12

\* Whatever a header is refused for, a client understands it.
LEMMA RefusalIsUnderstood ==
    ASSUME TypeOK
    PROVE  RefusalUnderstood
<1>1. SUFFICES ASSUME ~request.good
      PROVE  LET h == Refusals[request.error] IN
             /\ h.error = "none"
             /\ h.code = Codes[request.error]
             /\ ContentLength(h.options) = 0 /\ ~ConnKeepAlive(h.options)
  BY DEF RefusalUnderstood
<1>2. PICK r \in Requests : r = request
  BY DEF TypeOK
<1>3. r = Read(r.from, r.level, r.text, r.head, r.length)
  BY HeadersAssumption
<1> DEFINE h == RequestHeader(r.level, r.text)
<1>4. h.error \in {"none"} \cup DOMAIN Codes
  BY ErrorHasCode
<1> HIDE DEF h
<1>5. r.good = (h.error = "none") /\ r.error = h.error
  BY <1>3, ReadFacts DEF h
<1>6. PICK error \in DOMAIN Codes : error = request.error
  BY <1>1, <1>2, <1>4, <1>5
<1>7. Refusals[error] = ResponseHeader(Weak, ErrorText(error))
  BY DEF Refusals
<1> QED
  BY <1>6, <1>7, RefusalRead

\* A server takes a request of this library's clients for what they were told, and
\* a client an error for what the server means, for any settings, content and
\* pieces (http.cc, xheaders.cc, client_conn.cc:19-38, http_errors.h).
THEOREM HeadersAreUnderstood == Spec => []HeadersUnderstood
<1>1. TypeOK /\ VerdictIndependentOfPieces => HeadersUnderstood
  BY ClientUnderstood, RefusalIsUnderstood DEF HeadersUnderstood
<1> QED
  BY <1>1, ReaderTypeCorrect, VerdictIsIndependent, PTL
=============================================================================
