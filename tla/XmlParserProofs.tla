--------------------------- MODULE XmlParserProofs ---------------------------
(***************************************************************************)
(* Proofs about XmlParser for every document an XML reader can hand out.   *)
(*                                                                         *)
(* The builders tell their end tags from others' by counting alone.  So    *)
(* the invariant relates their counts to the number of elements that are   *)
(* really open (Open).  A value that is being read has no more elements on *)
(* its count than are open: it cannot meet the end of the document before  *)
(* it has something to return (TopSound).  And, without nil, all builders  *)
(* together have at least as many on their counts as are open: the root    *)
(* builder cannot leave before the root element has ended (Covered).       *)
(*                                                                         *)
(* The second half is about what the library writes.  Each builder of the  *)
(* stack has a goal, the value it is to return and what follows its        *)
(* element; where it is in its element determines what is left to read     *)
(* (TopAt), and a builder that has called another waits for a part of its  *)
(* goal (Waits).  No step leaves that (TopGoes, CallerGets).               *)
(***************************************************************************)
EXTENDS XmlDump, SequenceTheorems, FiniteSetTheorems, WellFoundedInduction, NaturalsInduction, TLAPS

-----------------------------------------------------------------------------
(* Sequences of anything *)

IsSequence(s) == s \in Seq({s[i] : i \in DOMAIN s})

LEMMA SequenceFacts ==
    ASSUME NEW S, NEW s \in Seq(S)
    PROVE  IsSequence(s)
<1> DEFINE R == {s[i] : i \in DOMAIN s}
<1>1. Len(s) \in Nat /\ DOMAIN s = 1..Len(s) /\ s = [i \in 1..Len(s) |-> s[i]]
  OBVIOUS
<1>2. s \in [1..Len(s) -> R]
  BY <1>1
<1>3. s \in Seq(R)
  <2> HIDE DEF R
  <2>1. PICK n \in Nat : n = Len(s)
    BY <1>1
  <2>2. s \in [1..n -> R]
    BY <1>2, <2>1
  <2>3. Seq(R) = UNION {[1..k -> R] : k \in Nat}
    BY SeqDef
  <2> QED
    BY <2>2, <2>3
<1> QED
  BY <1>3 DEF IsSequence

LEMMA LengthFacts ==
    ASSUME NEW s, IsSequence(s)
    PROVE  Len(s) \in Nat /\ DOMAIN s = 1..Len(s)
  BY DEF IsSequence

LEMMA AppendedFacts ==
    ASSUME NEW s, IsSequence(s), NEW v
    PROVE  /\ IsSequence(Append(s, v)) /\ Len(Append(s, v)) = Len(s) + 1
           /\ Append(s, v)[Len(s) + 1] = v
           /\ \A i \in 1..Len(s) : Append(s, v)[i] = s[i]
<1> DEFINE S == {s[i] : i \in DOMAIN s} \cup {v}
<1>1. s \in Seq(S)
  BY DEF IsSequence
<1>2. v \in S OBVIOUS
<1> HIDE DEF S
<1>3. /\ Append(s, v) \in Seq(S) /\ Len(Append(s, v)) = Len(s) + 1
      /\ Append(s, v)[Len(s) + 1] = v
      /\ \A i \in 1..Len(s) : Append(s, v)[i] = s[i]
  BY <1>1, <1>2
<1>4. PICK a : a = Append(s, v)
  OBVIOUS
<1>5. IsSequence(a)
  BY <1>3, <1>4, SequenceFacts
<1> QED
  BY <1>3, <1>4, <1>5

LEMMA FrontFacts ==
    ASSUME NEW s, IsSequence(s), NEW m \in Nat, m <= Len(s)
    PROVE  /\ IsSequence(SubSeq(s, 1, m)) /\ Len(SubSeq(s, 1, m)) = m
           /\ \A i \in 1..m : SubSeq(s, 1, m)[i] = s[i]
<1> DEFINE S == {s[i] : i \in DOMAIN s}
<1>1. s \in Seq(S)
  BY DEF IsSequence
<1> HIDE DEF S
<1>2. /\ SubSeq(s, 1, m) \in Seq(S) /\ Len(SubSeq(s, 1, m)) = m
      /\ \A i \in 1..m : SubSeq(s, 1, m)[i] = s[i]
  BY <1>1
<1>3. PICK f : f = SubSeq(s, 1, m)
  OBVIOUS
<1>4. IsSequence(f)
  BY <1>2, <1>3, SequenceFacts
<1> QED
  BY <1>2, <1>3, <1>4

Replaced(s, v) == SubSeq(s, 1, Len(s) - 1) \o <<v>>

LEMMA ReplacedFacts ==
    ASSUME NEW s, IsSequence(s), Len(s) > 0, NEW v,
           NEW r, r = Replaced(s, v)
    PROVE  /\ IsSequence(r) /\ Len(r) = Len(s)
           /\ r[Len(s)] = v
           /\ \A i \in 1..(Len(s) - 1) : r[i] = s[i]
<1>0. Len(s) \in Nat /\ Len(s) - 1 \in Nat /\ Len(s) - 1 <= Len(s)
  BY LengthFacts
<1>1. PICK m \in Nat : m = Len(s) - 1 /\ m <= Len(s)
  BY <1>0
<1>2. PICK f : f = SubSeq(s, 1, m)
  OBVIOUS
<1>3. IsSequence(f) /\ Len(f) = m /\ \A i \in 1..m : f[i] = s[i]
  BY <1>1, <1>2, FrontFacts
<1>4. r = Append(f, v)
  <2> DEFINE S == {f[i] : i \in DOMAIN f} \cup {v}
  <2>1. f \in Seq(S) /\ v \in S
    BY <1>3 DEF IsSequence
  <2>2. r = f \o <<v>>
    BY <1>1, <1>2 DEF Replaced
  <2> HIDE DEF S
  <2> QED
    BY <2>1, <2>2, AppendIsConcat
<1>5. /\ IsSequence(Append(f, v)) /\ Len(Append(f, v)) = Len(f) + 1
      /\ Append(f, v)[Len(f) + 1] = v
      /\ \A i \in 1..Len(f) : Append(f, v)[i] = f[i]
  BY <1>3, AppendedFacts
<1>6. IsSequence(r) /\ Len(r) = m + 1 /\ r[m + 1] = v /\ \A i \in 1..m : r[i] = f[i]
  BY <1>3, <1>4, <1>5
<1>7. m = Len(s) - 1 /\ Len(s) = m + 1
  BY <1>1, LengthFacts
<1> QED
  BY <1>3, <1>6, <1>7

LEMMA PushedFacts ==
    ASSUME NEW s, IsSequence(s), Len(s) > 0, NEW v, NEW w,
           NEW q, q = Replaced(s, v)
    PROVE  /\ IsSequence(Append(q, w)) /\ Len(Append(q, w)) = Len(s) + 1
           /\ Append(q, w)[Len(s) + 1] = w /\ Append(q, w)[Len(s)] = v
           /\ \A i \in 1..(Len(s) - 1) : Append(q, w)[i] = s[i]
<1>1. /\ IsSequence(q) /\ Len(q) = Len(s) /\ q[Len(s)] = v
      /\ \A i \in 1..(Len(s) - 1) : q[i] = s[i]
  BY ReplacedFacts
<1>2. /\ IsSequence(Append(q, w)) /\ Len(Append(q, w)) = Len(q) + 1
      /\ Append(q, w)[Len(q) + 1] = w
      /\ \A i \in 1..Len(q) : Append(q, w)[i] = q[i]
  BY <1>1, AppendedFacts
<1>3. Len(s) \in Nat /\ Len(s) \in 1..Len(s) /\ \A i \in 1..(Len(s) - 1) : i \in 1..Len(s)
  BY LengthFacts
<1> QED
  BY <1>1, <1>2, <1>3

Below(s) == SubSeq(s, 1, Len(s) - 2)

LEMMA PoppedFacts ==
    ASSUME NEW s, IsSequence(s), Len(s) > 1, NEW v,
           NEW q, q = Below(s)
    PROVE  /\ IsSequence(Append(q, v)) /\ Len(Append(q, v)) = Len(s) - 1
           /\ Append(q, v)[Len(s) - 1] = v
           /\ \A i \in 1..(Len(s) - 2) : Append(q, v)[i] = s[i]
<1>1. PICK m \in Nat : m = Len(s) - 2
  <2>1. Len(s) - 2 \in Nat
    BY LengthFacts
  <2> QED
    BY <2>1
<1>2. q = SubSeq(s, 1, m)
  BY <1>1 DEF Below
<1>3. IsSequence(q) /\ Len(q) = m /\ \A i \in 1..m : q[i] = s[i]
  <2>1. m <= Len(s)
    BY <1>1, LengthFacts
  <2> QED
    BY <1>2, <2>1, FrontFacts
<1>4. /\ IsSequence(Append(q, v)) /\ Len(Append(q, v)) = Len(q) + 1
      /\ Append(q, v)[Len(q) + 1] = v
      /\ \A i \in 1..Len(q) : Append(q, v)[i] = q[i]
  BY <1>3, AppendedFacts
<1>5. m + 1 = Len(s) - 1 /\ m = Len(s) - 2
  BY <1>1, LengthFacts
<1> QED
  BY <1>3, <1>4, <1>5

-----------------------------------------------------------------------------
(* Documents *)

LEMMA CountNext ==
    ASSUME NEW S, NEW i \in Nat
    PROVE  /\ Cardinality(S \cap 1..i) \in Nat
           /\ i + 1 \in S => Cardinality(S \cap 1..(i + 1)) = Cardinality(S \cap 1..i) + 1
           /\ i + 1 \notin S => Cardinality(S \cap 1..(i + 1)) = Cardinality(S \cap 1..i)
<1>1. IsFiniteSet(1..i)
  BY FS_Interval
<1>2. IsFiniteSet(S \cap 1..i)
  BY <1>1, FS_Subset
<1>3. Cardinality(S \cap 1..i) \in Nat
  BY <1>2, FS_CardinalityType
<1>4. CASE i + 1 \in S
  <2>1. S \cap 1..(i + 1) = (S \cap 1..i) \cup {i + 1} /\ i + 1 \notin S \cap 1..i
    BY <1>4
  <2> QED
    BY <1>2, <1>3, <1>4, <2>1, FS_AddElement
<1>5. CASE i + 1 \notin S
  <2>1. S \cap 1..(i + 1) = S \cap 1..i
    BY <1>5
  <2> QED
    BY <1>3, <1>5, <2>1
<1> QED
  BY <1>4, <1>5

Opens(e) == e.ev = "begin" /\ ~e.empty

\* How an event changes the number of open elements.
LEMMA NestingFacts ==
    ASSUME NEW d \in Docs, NEW i \in Nat, i < Len(d.events)
    PROVE  LET e == d.events[i + 1] IN
           /\ Opens(e) => Nesting(d, i + 1) = Nesting(d, i) + 1
           /\ e.ev = "end" => Nesting(d, i + 1) = Nesting(d, i) - 1
           /\ ~Opens(e) /\ e.ev # "end" => Nesting(d, i + 1) = Nesting(d, i)
<1> DEFINE B == {j \in Nat : Opens(d.events[j])}
           E == {j \in Nat : d.events[j].ev = "end"}
<1>1. \A k \in Nat : /\ {j \in 1..k : d.events[j].ev = "begin" /\ ~d.events[j].empty} = B \cap 1..k
                     /\ {j \in 1..k : d.events[j].ev = "end"} = E \cap 1..k
  BY DEF Opens
<1>2. \A k \in Nat : Nesting(d, k) = Cardinality(B \cap 1..k) - Cardinality(E \cap 1..k)
  BY <1>1 DEF Nesting
<1>3. /\ Opens(d.events[i + 1]) <=> i + 1 \in B
      /\ d.events[i + 1].ev = "end" <=> i + 1 \in E
  OBVIOUS
<1>4. ~(i + 1 \in B /\ i + 1 \in E)
  BY DEF Opens
<1> HIDE DEF B, E
<1>5. /\ Cardinality(B \cap 1..i) \in Nat
      /\ i + 1 \in B => Cardinality(B \cap 1..(i + 1)) = Cardinality(B \cap 1..i) + 1
      /\ i + 1 \notin B => Cardinality(B \cap 1..(i + 1)) = Cardinality(B \cap 1..i)
  BY CountNext
<1>6. /\ Cardinality(E \cap 1..i) \in Nat
      /\ i + 1 \in E => Cardinality(E \cap 1..(i + 1)) = Cardinality(E \cap 1..i) + 1
      /\ i + 1 \notin E => Cardinality(E \cap 1..(i + 1)) = Cardinality(E \cap 1..i)
  BY CountNext
<1>7. /\ Nesting(d, i + 1) = Cardinality(B \cap 1..(i + 1)) - Cardinality(E \cap 1..(i + 1))
      /\ Nesting(d, i) = Cardinality(B \cap 1..i) - Cardinality(E \cap 1..i)
  BY <1>2
<1>8. /\ i + 1 \in B /\ i + 1 \notin E => Nesting(d, i + 1) = Nesting(d, i) + 1
      /\ i + 1 \notin B /\ i + 1 \in E => Nesting(d, i + 1) = Nesting(d, i) - 1
      /\ i + 1 \notin B /\ i + 1 \notin E => Nesting(d, i + 1) = Nesting(d, i)
  BY <1>5, <1>6, <1>7
<1> QED
  BY <1>3, <1>4, <1>8

LEMMA NestingType ==
    ASSUME NEW d \in Docs, NEW i \in 0..Len(d.events)
    PROVE  Nesting(d, i) \in Nat
<1> DEFINE B == {j \in 1..i : d.events[j].ev = "begin" /\ ~d.events[j].empty}
           E == {j \in 1..i : d.events[j].ev = "end"}
<1>1. Len(d.events) \in Nat /\ Nesting(d, i) >= 0
  BY DocsAssumption DEF WellFormed
<1>2. i \in Nat /\ IsFiniteSet(1..i)
  BY <1>1, FS_Interval
<1>3. IsFiniteSet(B) /\ IsFiniteSet(E)
  BY <1>2, FS_Subset
<1>4. Cardinality(B) \in Nat /\ Cardinality(E) \in Nat
  BY <1>3, FS_CardinalityType
<1>5. Nesting(d, i) = Cardinality(B) - Cardinality(E)
  BY DEF Nesting
<1> QED
  BY <1>1, <1>4, <1>5

-----------------------------------------------------------------------------
(* The reader *)

IsEvent(e) ==
    /\ DOMAIN e = {"ev", "str", "empty"}
    /\ e.ev \in {"begin", "end", "text", "space", "done"} /\ e.empty \in BOOLEAN

IsReader(r) ==
    /\ DOMAIN r = {"pos", "curr", "back"}
    /\ r.pos \in Nat /\ IsEvent(r.curr) /\ r.back \in BOOLEAN

\* Only ends are pushed back, and nothing is taken from a reader that has given up.
ReaderOK(r) ==
    /\ IsReader(r) /\ r.pos <= Len(doc.events)
    /\ r.curr.empty => r.curr.ev = "begin"
    /\ r.back => r.curr.ev = "end"
    /\ r.pos > 0 => doc.events[r.pos].ev # "bad"

\* The elements whose ends are still to be read: with those that an empty element
\* or an event pushed back stand for.
Open(r) == Nesting(doc, r.pos) + (IF r.curr.empty THEN 1 ELSE 0) + (IF r.back THEN 1 ELSE 0)

LEMMA DoneFacts == IsEvent(Done) /\ Done.ev = "done" /\ ~Done.empty
<1>1. DOMAIN Done = {"ev", "str", "empty"}
  BY Zenon DEF Done
<1>2. Done.ev = "done" /\ Done.empty = FALSE
  BY Zenon DEF Done
<1> QED
  BY <1>1, <1>2 DEF IsEvent

LEMMA EndFacts ==
    ASSUME NEW str
    PROVE  IsEvent(End(str)) /\ End(str).ev = "end" /\ ~End(str).empty
<1>1. DOMAIN End(str) = {"ev", "str", "empty"}
  BY Zenon DEF End
<1>2. End(str).ev = "end" /\ End(str).empty = FALSE
  BY Zenon DEF End
<1> QED
  BY <1>1, <1>2 DEF IsEvent

LEMMA DocFacts ==
    ASSUME doc \in Docs
    PROVE  /\ Len(doc.events) \in Nat /\ doc.events \in Seq(Events)
           /\ \A i \in 1..Len(doc.events) :
                 /\ doc.events[i] \in Events
                 /\ doc.events[i].empty => doc.events[i].ev = "begin"
           /\ doc.rootEnd \in 0..Len(doc.events)
           /\ doc.kind \in {"Request", "Response"}
  BY DocsAssumption

LEMMA OpenType ==
    ASSUME doc \in Docs, NEW r, ReaderOK(r)
    PROVE  Open(r) \in Nat /\ Nesting(doc, r.pos) \in Nat /\ r.pos \in 0..Len(doc.events)
<1>1. r.pos \in 0..Len(doc.events)
  BY DocFacts DEF ReaderOK, IsReader
<1>2. Nesting(doc, r.pos) \in Nat
  BY <1>1, NestingType
<1> QED
  BY <1>1, <1>2 DEF Open

\* Nothing is open where a document ends that the reader has not given up.
LEMMA NothingOpenAtEnd ==
    ASSUME doc \in Docs, NEW r, ReaderOK(r), r.pos = Len(doc.events)
    PROVE  Nesting(doc, r.pos) = 0
<1>1. CASE r.pos > 0
  BY <1>1, DocsAssumption DEF ReaderOK, WellFormed
<1>2. CASE r.pos = 0
  <2>1. 1..0 = {} OBVIOUS
  <2>2. Nesting(doc, 0) = Cardinality({}) - Cardinality({})
    BY <2>1 DEF Nesting
  <2> QED
    BY <1>2, <2>2, FS_EmptySet
<1> QED
  BY <1>1, <1>2, OpenType

\* One event that is read, as far as it matters which elements are open.
LEMMA ReadFacts ==
    ASSUME doc \in Docs, NEW q, ReaderOK(q), NEW r, r = Read(q), r.curr.ev # "bad"
    PROVE  /\ ReaderOK(r) /\ ~r.back /\ r.pos \in {q.pos, q.pos + 1}
           /\ r.curr.ev = "begin" =>
                 /\ Open(r) = Open(q) + 1 /\ r.pos = q.pos + 1
                 /\ r.curr = doc.events[r.pos]
           /\ r.curr.ev = "end" => Open(r) = Open(q) - 1
           /\ r.curr.ev \in {"text", "space"} => Open(r) = Open(q)
           /\ r.curr.ev = "done" => Open(q) = 0 /\ Open(r) = 0 /\ r.pos = Len(doc.events)
           /\ ~q.back /\ ~q.curr.empty /\ r.pos = q.pos + 1 => r.curr = doc.events[r.pos]
           /\ ~q.back /\ ~q.curr.empty /\ r.pos = q.pos => r.pos = Len(doc.events)
<1>0. /\ IsReader(q) /\ q.pos \in Nat /\ Len(doc.events) \in Nat /\ q.pos <= Len(doc.events)
      /\ Nesting(doc, q.pos) \in Nat
  BY DocFacts, OpenType DEF ReaderOK, IsReader
<1>1. CASE q.back
  <2>1. r = [q EXCEPT !.back = FALSE] /\ q.curr.ev = "end" /\ ~q.curr.empty
    BY <1>1 DEF Read, ReaderOK
  <2>2. IsReader(r) /\ r.pos = q.pos /\ r.curr = q.curr /\ ~r.back
    BY <1>0, <2>1 DEF IsReader
  <2>3. ReaderOK(r)
    BY <2>1, <2>2 DEF ReaderOK
  <2>4. Open(r) = Open(q) - 1
    BY <1>0, <1>1, <2>1, <2>2 DEF Open
  <2> QED
    BY <1>1, <2>1, <2>2, <2>3, <2>4
<1>2. CASE ~q.back /\ q.curr.empty
  <2>1. r = [q EXCEPT !.curr = End(q.curr.str)]
    BY <1>2 DEF Read
  <2>2. IsReader(r) /\ r.pos = q.pos /\ r.curr = End(q.curr.str) /\ ~r.back
    BY <1>0, <1>2, <2>1, EndFacts DEF IsReader
  <2>3. r.curr.ev = "end" /\ ~r.curr.empty
    BY <2>2, EndFacts
  <2>4. ReaderOK(r)
    BY <2>2, <2>3 DEF ReaderOK
  <2>5. Open(r) = Open(q) - 1
    BY <1>0, <1>2, <2>2, <2>3 DEF Open
  <2> QED
    BY <1>2, <2>2, <2>3, <2>4, <2>5
<1>3. CASE ~q.back /\ ~q.curr.empty /\ q.pos = Len(doc.events)
  <2>1. r = [q EXCEPT !.curr = Done]
    BY <1>3 DEF Read
  <2>2. IsReader(r) /\ r.pos = q.pos /\ r.curr = Done /\ ~r.back
    BY <1>0, <1>3, <2>1, DoneFacts DEF IsReader
  <2>3. r.curr.ev = "done" /\ ~r.curr.empty
    BY <2>2, DoneFacts
  <2>4. ReaderOK(r)
    BY <2>2, <2>3 DEF ReaderOK
  <2>5. Open(q) = 0 /\ Open(r) = 0
    BY <1>0, <1>3, <2>2, <2>3, NothingOpenAtEnd DEF Open
  <2> QED
    BY <1>0, <1>3, <2>2, <2>3, <2>4, <2>5
<1>4. CASE ~q.back /\ ~q.curr.empty /\ q.pos # Len(doc.events)
  <2>1. PICK e : e = doc.events[q.pos + 1]
    OBVIOUS
  <2>2. r = [q EXCEPT !.pos = q.pos + 1, !.curr = e]
    BY <1>0, <1>4, <2>1 DEF Read
  <2>3. e \in Events /\ (e.empty => e.ev = "begin")
    BY <1>0, <1>4, <2>1, DocFacts
  <2>4. r.pos = q.pos + 1 /\ r.curr = e /\ ~r.back
    BY <1>0, <1>4, <2>2 DEF IsReader
  <2>5. IsReader(r)
    BY <1>0, <2>2, <2>3, <2>4 DEF IsReader, IsEvent, Events
  <2>6. ReaderOK(r)
    BY <1>0, <1>4, <2>1, <2>3, <2>4, <2>5 DEF ReaderOK
  <2>7. /\ Opens(e) => Nesting(doc, q.pos + 1) = Nesting(doc, q.pos) + 1
        /\ e.ev = "end" => Nesting(doc, q.pos + 1) = Nesting(doc, q.pos) - 1
        /\ ~Opens(e) /\ e.ev # "end" => Nesting(doc, q.pos + 1) = Nesting(doc, q.pos)
    BY <1>0, <1>4, <2>1, NestingFacts
  <2>8. /\ Open(q) = Nesting(doc, q.pos)
        /\ Open(r) = Nesting(doc, q.pos + 1) + (IF e.empty THEN 1 ELSE 0)
    <3>1. Nesting(doc, r.pos) \in Nat
      BY <2>6, OpenType
    <3> QED
      BY <1>0, <1>4, <2>4, <3>1 DEF Open
  <2>9. /\ e.ev = "begin" => Open(r) = Open(q) + 1
        /\ e.ev = "end" => Open(r) = Open(q) - 1
        /\ e.ev \in {"text", "space"} => Open(r) = Open(q)
    BY <1>0, <2>3, <2>7, <2>8 DEF Opens, Events
  <2>10. e.ev # "done"
    BY <2>3 DEF Events
  <2> QED
    BY <1>0, <1>4, <2>1, <2>4, <2>6, <2>9, <2>10
<1> QED
  BY <1>1, <1>2, <1>3, <1>4

\* In the prolog no element begins or ends.
LEMMA PrologFacts ==
    ASSUME doc \in Docs, NEW q, ReaderOK(q), NEW r, r = Read(q), r.curr.ev # "bad",
           r.pos < doc.rootEnd, Nesting(doc, r.pos) = 0
    PROVE  /\ q.pos < doc.rootEnd /\ Nesting(doc, q.pos) = 0
           /\ ~q.back /\ ~q.curr.empty => r.curr.ev \in {"text", "space"} /\ ~r.curr.empty
<1>1. /\ q.pos \in Nat /\ r.pos \in {q.pos, q.pos + 1} /\ doc.rootEnd \in 0..Len(doc.events)
      /\ Len(doc.events) \in Nat /\ ReaderOK(r)
  BY DocFacts, ReadFacts DEF ReaderOK, IsReader
<1>2. q.pos < doc.rootEnd
  BY <1>1
<1>3. CASE r.pos = q.pos
  <2>1. ~(~q.back /\ ~q.curr.empty)
    BY <1>1, <1>3, ReadFacts
  <2> QED
    BY <1>2, <1>3, <2>1
<1>4. CASE r.pos = q.pos + 1
  <2>1. r.pos \in 1..(doc.rootEnd - 1) /\ r.pos - 1 = q.pos
    BY <1>1, <1>4
  <2>2. Nesting(doc, q.pos) = 0 /\ doc.events[r.pos].ev # "begin"
    BY <2>1, DocsAssumption DEF WellFormed
  <2>3. ASSUME ~q.back, ~q.curr.empty
        PROVE  r.curr.ev \in {"text", "space"} /\ ~r.curr.empty
    <3>1. r.curr = doc.events[r.pos]
      BY <1>4, <2>3, ReadFacts
    <3>2. r.curr.ev # "end"
      <4>1. ASSUME doc.events[r.pos].ev = "end" PROVE FALSE
        <5>1. Nesting(doc, q.pos + 1) = Nesting(doc, q.pos) - 1
          BY <1>1, <1>4, <4>1, NestingFacts
        <5> QED
          BY <1>4, <2>2, <5>1
      <4> QED
        BY <3>1, <4>1
    <3>3. r.curr.ev # "done"
      BY <1>1, ReadFacts
    <3> QED
      BY <1>1, <2>2, <3>1, <3>2, <3>3 DEF ReaderOK, IsReader, IsEvent
  <2> QED
    BY <1>2, <2>2, <2>3
<1> QED
  BY <1>1, <1>3, <1>4

-----------------------------------------------------------------------------
(* Values and builders *)

LEMMA DatumFacts ==
    ASSUME NEW type, NEW text, NEW items, NEW fields
    PROVE  /\ "type" \in DOMAIN Datum(type, text, items, fields)
           /\ Datum(type, text, items, fields).type = type
<1>1. DOMAIN Datum(type, text, items, fields) = {"type", "text", "items", "fields"}
  BY Zenon DEF Datum
<1>2. Datum(type, text, items, fields).type = type
  BY Zenon DEF Datum
<1> QED
  BY <1>1, <1>2

LEMMA ScalarFacts ==
    ASSUME NEW type, NEW text
    PROVE  Scalar(type, text).type = type
  BY Zenon, DatumFacts DEF Scalar

LEMMA ContainerFacts ==
    ASSUME NEW x
    PROVE  /\ "type" \in DOMAIN StructOf(x) /\ StructOf(x).type = "STRUCT"
           /\ "type" \in DOMAIN ArrayOf(x) /\ ArrayOf(x).type = "ARRAY"
  BY Zenon, DatumFacts DEF StructOf, ArrayOf

\* What has a type is not a null pointer.
LEMMA NullFacts == NoValue.type = Absent
  BY Zenon, ScalarFacts DEF NoValue

Fields == {"kind", "depth", "state", "exit", "val", "name", "member"}
ValueStates == {"VALUE", "STRING", "INT", "INT64", "BOOL", "DOUBLE", "BINARY", "TIME",
                "STRUCT", "ARRAY", "NIL"}

\* A builder; that of a struct or an array has its value from the start.
IsFrame(f) ==
    /\ DOMAIN f = Fields
    /\ f.kind \in {"Request", "Response", "Value", "Struct", "Array"}
    /\ f.depth \in Nat /\ f.exit \in BOOLEAN
    /\ f.kind \in {"Struct", "Array"} =>
          "type" \in DOMAIN f.val /\ f.val.type \in {"STRUCT", "ARRAY"}
    /\ f.kind = "Value" => f.state \in ValueStates

\* The builder f has called sub_build() for one of the given kind.
Calls(f, kind) ==
    /\ ~f.exit
    /\ \/ f.kind = "Value" /\ f.state = "STRUCT" /\ kind = "Struct"
       \/ f.kind = "Value" /\ f.state = "ARRAY" /\ kind = "Array"
       \/ f.kind = "Struct" /\ f.state = "VALUE_READ" /\ kind = "Value"
       \/ f.kind = "Array" /\ f.state = "VALUES" /\ kind = "Value"
       \/ f.kind = "Request" /\ f.state = "VALUE" /\ kind = "Value"
       \/ f.kind = "Response" /\ f.state = "OK_PARAM_VALUE" /\ kind = "Value"
       \/ f.kind = "Response" /\ f.state = "FAULT_RESPONSE_VALUE" /\ kind = "Value"

LEMMA KindFacts == Kinds = {"Request", "Response", "Value", "Struct", "Array"}
  BY DEF Kinds, Transitions

LEMMA BuilderFacts ==
    ASSUME NEW kind \in {"Request", "Response", "Value", "Struct", "Array"}, NEW flat \in BOOLEAN
    PROVE  LET f == Builder(kind, flat) IN
           /\ IsFrame(f) /\ f.kind = kind /\ ~f.exit
           /\ f.depth = IF flat THEN 1 ELSE 0
           /\ kind = "Value" => f.state = "VALUE"
<1>1. PICK f : f = Builder(kind, flat)
  OBVIOUS
<1>2. DOMAIN f = Fields
  BY Zenon, <1>1 DEF Builder, Fields
<1>3. f.kind = kind /\ f.exit = FALSE
  BY Zenon, <1>1 DEF Builder
<1>4. f.depth = IF flat THEN 1 ELSE 0
  BY Zenon, <1>1 DEF Builder
<1>5. f.state = IF kind = "Value" THEN "VALUE" ELSE "NONE"
  BY Zenon, <1>1 DEF Builder
<1>6. f.val = CASE kind = "Struct" -> StructOf(<<>>)
                [] kind = "Array"  -> ArrayOf(<<>>)
                [] OTHER           -> NoValue
  BY Zenon, <1>1 DEF Builder
<1>7. kind \in {"Struct", "Array"} => "type" \in DOMAIN f.val /\ f.val.type \in {"STRUCT", "ARRAY"}
  BY <1>6, ContainerFacts
<1>8. IsFrame(f)
  <2>1. f.depth \in Nat
    BY <1>4
  <2>2. f.exit \in BOOLEAN
    BY <1>3
  <2>3. f.kind = "Value" => f.state \in ValueStates
    BY <1>3, <1>5 DEF ValueStates
  <2>4. f.kind \in {"Request", "Response", "Value", "Struct", "Array"}
    BY <1>3
  <2>5. f.kind \in {"Struct", "Array"} =>
           "type" \in DOMAIN f.val /\ f.val.type \in {"STRUCT", "ARRAY"}
    BY <1>3, <1>7
  <2> QED
    BY <1>2, <2>1, <2>2, <2>3, <2>4, <2>5 DEF IsFrame
<1> QED
  BY <1>1, <1>3, <1>4, <1>5, <1>8

\* What a begin tag makes of a builder.
Moved(f, t) == [f EXCEPT !.depth = @ + 1, !.state = t[3]]

LEMMA MoveFacts ==
    ASSUME NEW f, IsFrame(f), ~f.exit, NEW tag, NEW t \in Change(f, tag),
           NEW m, m = Moved(f, t)
    PROVE  /\ IsFrame(m) /\ m.kind = f.kind /\ m.depth = f.depth + 1 /\ m.state = t[3]
           /\ ~m.exit /\ m.val = f.val
           /\ f.kind = "Value" => f.state = "VALUE" /\ m.state # "VALUE" /\ ~IsName(m)
           /\ t[3] = "NIL" => f.kind = "Value" /\ tag = "nil"
           /\ Starts(m) # Absent =>
                 /\ Calls(m, Starts(m)) /\ Starts(m) \in {"Value", "Struct", "Array"}
<1>1. /\ DOMAIN m = Fields /\ m.kind = f.kind /\ m.depth = f.depth + 1 /\ m.state = t[3]
      /\ m.exit = f.exit /\ m.val = f.val
  BY DEF IsFrame, Fields, Moved
<1>2. t \in Transitions[f.kind] /\ t[1] = f.state /\ t[2] = tag
  BY DEF Change
<1>3. CASE f.kind = "Request"
  <2>1. t[3] \in {"METHOD_CALL", "METHOD_NAME", "PARAMS", "PARAM", "VALUE"}
    BY <1>2, <1>3 DEF Transitions, RequestTable
  <2>2. IsFrame(m)
    BY <1>1, <1>3 DEF IsFrame
  <2>3. Starts(m) # Absent => m.state = "VALUE" /\ Starts(m) = "Value"
    BY <1>1, <2>1 DEF Starts
  <2> QED
    BY <1>1, <1>3, <2>1, <2>2, <2>3 DEF Calls
<1>4. CASE f.kind = "Response"
  <2>1. t[3] \in {"RESPONSE", "OK_RESPONSE", "OK_PARAM", "OK_PARAM_VALUE", "FAULT_RESPONSE",
                  "FAULT_RESPONSE_VALUE"}
    BY <1>2, <1>4 DEF Transitions, ResponseTable
  <2>2. IsFrame(m)
    BY <1>1, <1>4 DEF IsFrame
  <2>3. Starts(m) # Absent => /\ m.state \in {"OK_PARAM_VALUE", "FAULT_RESPONSE_VALUE"}
                              /\ Starts(m) = "Value"
    BY <1>1, <2>1 DEF Starts
  <2> QED
    BY <1>1, <1>4, <2>1, <2>2, <2>3 DEF Calls
<1>5. CASE f.kind = "Value"
  <2>1. t[1] = "VALUE" /\ t[3] \in ValueStates \ {"VALUE"} /\ (t[3] = "NIL" => t[2] = "nil")
    BY <1>2, <1>5 DEF Transitions, ValueTable, ValueStates
  <2>2. IsFrame(m)
    BY <1>1, <1>5, <2>1 DEF IsFrame
  <2>3. /\ Starts(m) # Absent => \/ m.state = "STRUCT" /\ Starts(m) = "Struct"
                                 \/ m.state = "ARRAY" /\ Starts(m) = "Array"
        /\ ~IsName(m)
    BY <1>1, <2>1 DEF Starts, ValueStates, IsName
  <2> QED
    BY <1>1, <1>2, <1>5, <2>1, <2>2, <2>3 DEF Calls
<1>6. CASE f.kind = "Struct"
  <2>1. t[3] \in {"MEMBER", "NAME_READ", "VALUE_READ"}
    BY <1>2, <1>6 DEF Transitions, StructTable
  <2>2. IsFrame(m)
    BY <1>1, <1>6 DEF IsFrame
  <2>3. Starts(m) # Absent => m.state = "VALUE_READ" /\ Starts(m) = "Value"
    BY <1>1, <2>1 DEF Starts
  <2> QED
    BY <1>1, <1>6, <2>1, <2>2, <2>3 DEF Calls
<1>7. CASE f.kind = "Array"
  <2>1. t[3] \in {"DATA", "VALUES"}
    BY <1>2, <1>7 DEF Transitions, ArrayTable
  <2>2. IsFrame(m)
    BY <1>1, <1>7 DEF IsFrame
  <2>3. Starts(m) # Absent => m.state = "VALUES" /\ Starts(m) = "Value"
    BY <1>1, <2>1 DEF Starts
  <2> QED
    BY <1>1, <1>7, <2>1, <2>2, <2>3 DEF Calls
<1> QED
  BY <1>3, <1>4, <1>5, <1>6, <1>7 DEF IsFrame

-----------------------------------------------------------------------------
(* The invariant *)

\* 1 for a builder that counts the element its caller has visited.
FlatAt(i) == IF i > 1 /\ IsFlat(stack[i - 1]) THEN 1 ELSE 0

\* Each builder but the last has called the next one.
StackOK ==
    /\ IsSequence(stack) /\ Len(stack) > 0
    /\ stack[1].kind = doc.kind
    /\ \A i \in 1..Len(stack) : IsFrame(stack[i])
    /\ \A i \in 1..(Len(stack) - 1) :
          /\ Calls(stack[i], stack[i + 1].kind)
          /\ stack[i].depth >= FlatAt(i)
          /\ stack[i].kind = "Value" => stack[i].depth = FlatAt(i) + 1

\* The last builder f, when n elements are open: a value counts no more than that,
\* and returns something to whoever makes it count his element.
TopSound(f, flat, n) ==
    /\ ~f.exit => f.depth >= flat
    /\ f.kind = "Value" /\ ~f.exit => n >= f.depth /\ (f.state = "VALUE" => f.depth = flat)
    /\ f.kind = "Value" /\ f.exit /\ flat = 1 => f.val # NoValue

\* The last builder f and the k elements its callers count cover what is open; when
\* it leaves, its callers' do.
TopCovers(f, flat, n, k) ==
    /\ ~f.exit => n <= k + f.depth - flat
    /\ f.exit => n <= k
    /\ f.exit /\ f.kind \in {"Struct", "Array"} => n = 0 \/ n < k

\* counted[i] is the number of elements the callers of builder i count.
Counts(counted) ==
    /\ counted \in [1..Len(stack) -> Nat] /\ counted[1] = 0
    /\ \A i \in 1..(Len(stack) - 1) : counted[i + 1] = counted[i] + stack[i].depth - FlatAt(i)
    /\ TopCovers(Top, FlatAt(Len(stack)), Open(reader), counted[Len(stack)])

NoNil(d) == \A i \in 1..Len(d.events) : d.events[i].ev = "begin" => d.events[i].str # "nil"

Covered == NoNil(doc) => \E counted : Counts(counted)

\* In the prolog the root builder has not begun.
Prolog(r) == r.pos < doc.rootEnd /\ Nesting(doc, r.pos) = 0
PrologUntouched ==
    Prolog(reader) =>
        /\ ~reader.curr.empty /\ ~reader.back
        /\ Len(stack) = 1 /\ stack[1].depth = 0 /\ ~stack[1].exit

BuiltOK ==
    /\ DOMAIN built = {"name", "params", "fault"}
    /\ IsSequence(built.params)
    /\ NoNullTaken

IInv ==
    /\ doc \in Docs /\ outcome \in Outcomes
    /\ ReaderOK(reader)
    /\ StackOK
    /\ TopSound(Top, FlatAt(Len(stack)), Open(reader))
    /\ Covered
    /\ PrologUntouched
    /\ BuiltOK
    /\ NoNil(doc) => AcceptedReadToItsEnd

-----------------------------------------------------------------------------
(* Steps of the stack *)

\* The last builder and how it is called.
LEMMA TopFacts ==
    ASSUME IInv
    PROVE  /\ Len(stack) \in Nat /\ Len(stack) > 0 /\ Top = stack[Len(stack)] /\ IsFrame(Top)
           /\ Top.depth \in Nat
           /\ FlatAt(Len(stack)) \in {0, 1}
           /\ Top.kind \in {"Value", "Struct", "Array"} => Len(stack) > 1
           /\ Top.kind \in {"Struct", "Array"} => FlatAt(Len(stack)) = 1
           /\ Open(reader) \in Nat
<1>1. /\ Len(stack) \in Nat /\ Len(stack) > 0 /\ Top = stack[Len(stack)] /\ IsFrame(Top)
  BY LengthFacts DEF IInv, StackOK, Top
<1>2. Top.kind \in {"Value", "Struct", "Array"} => Len(stack) > 1
  BY <1>1, DocFacts DEF IInv, StackOK
<1>3. ASSUME Top.kind \in {"Struct", "Array"} PROVE FlatAt(Len(stack)) = 1
  <2>1. PICK i \in 1..(Len(stack) - 1) : i = Len(stack) - 1
    BY <1>1, <1>2, <1>3
  <2>2. Calls(stack[i], Top.kind)
    BY <1>1, <2>1 DEF IInv, StackOK
  <2>3. stack[i].state \in {"STRUCT", "ARRAY"}
    BY <1>3, <2>2 DEF Calls
  <2> QED
    BY <1>1, <1>2, <1>3, <2>1, <2>3 DEF FlatAt, IsFlat
<1>4. Open(reader) \in Nat
  BY OpenType DEF IInv
<1>5. FlatAt(Len(stack)) \in {0, 1}
  BY DEF FlatAt
<1> QED
  BY <1>1, <1>2, <1>3, <1>4, <1>5 DEF IsFrame

\* The last builder changes.
LEMMA ReplaceKeeps ==
    ASSUME IInv, UNCHANGED <<doc, outcome>>, NEW f, IsFrame(f), f.kind = Top.kind,
           stack' = Replace(f) \/ (stack' = stack /\ f = Top),
           ReaderOK(reader'),
           TopSound(f, FlatAt(Len(stack)), Open(reader')),
           ASSUME NoNil(doc), NEW k \in Nat, TopCovers(Top, FlatAt(Len(stack)), Open(reader), k)
           PROVE  TopCovers(f, FlatAt(Len(stack)), Open(reader'), k),
           PrologUntouched', BuiltOK', outcome = "parsing"
    PROVE  IInv'
<1> DEFINE n == Len(stack)
<1>1. /\ IsSequence(stack) /\ n \in Nat /\ n > 0 /\ Top = stack[n]
      /\ \A i \in 1..n : IsFrame(stack[i])
  BY TopFacts DEF IInv, StackOK
<1>2. /\ IsSequence(stack') /\ Len(stack') = n /\ stack'[n] = f
      /\ \A i \in 1..(n - 1) : stack'[i] = stack[i]
  BY <1>1, ReplacedFacts DEF Replace, Replaced
<1>3. Top' = f
  BY <1>2 DEF Top
<1>4. \A i \in 1..n : stack'[i].kind = stack[i].kind
  <2>1. ASSUME NEW i \in 1..n PROVE stack'[i].kind = stack[i].kind
    <3>1. CASE i = n
      BY <1>1, <1>2, <3>1
    <3>2. CASE i # n
      BY <1>1, <1>2, <3>2
    <3> QED
      BY <3>1, <3>2
  <2> QED
    BY <2>1
<1>5. \A i \in 1..n : FlatAt(i)' = FlatAt(i)
  <2>1. ASSUME NEW i \in 1..n, i > 1 PROVE stack'[i - 1] = stack[i - 1]
    <3>1. i - 1 \in 1..(n - 1)
      BY <1>1, <2>1
    <3> QED
      BY <1>2, <3>1
  <2> QED
    BY <1>1, <2>1 DEF FlatAt
<1>6. doc' = doc /\ Open(reader)' = Open(reader') /\ NoNil(doc)' = NoNil(doc)
  BY DEF Open, Nesting, NoNil
<1>7. StackOK'
  <2>1. stack'[1].kind = doc'.kind
    BY <1>1, <1>4, <1>6 DEF IInv, StackOK
  <2>2. \A i \in 1..n : IsFrame(stack'[i])
    <3>1. ASSUME NEW i \in 1..n PROVE IsFrame(stack'[i])
      <4>1. CASE i = n
        BY <1>2, <4>1
      <4>2. CASE i # n
        BY <1>1, <1>2, <4>2
      <4> QED
        BY <4>1, <4>2
    <3> QED
      BY <3>1
  <2>3. ASSUME NEW i \in 1..(n - 1)
        PROVE  /\ Calls(stack'[i], stack'[i + 1].kind)
               /\ stack'[i].depth >= FlatAt(i)'
               /\ stack'[i].kind = "Value" => stack'[i].depth = FlatAt(i)' + 1
    <3>1. i \in 1..n /\ i + 1 \in 1..n
      BY <1>1, <2>3
    <3>2. stack'[i] = stack[i] /\ stack'[i + 1].kind = stack[i + 1].kind /\ FlatAt(i)' = FlatAt(i)
      BY <1>2, <1>4, <1>5, <2>3, <3>1
    <3>3. /\ Calls(stack[i], stack[i + 1].kind)
          /\ stack[i].depth >= FlatAt(i)
          /\ stack[i].kind = "Value" => stack[i].depth = FlatAt(i) + 1
      BY <2>3 DEF IInv, StackOK
    <3> QED
      BY <3>2, <3>3
  <2> QED
    BY <1>1, <1>2, <2>1, <2>2, <2>3 DEF StackOK
<1>8. TopSound(Top, FlatAt(Len(stack)), Open(reader))'
  <2>1. FlatAt(n)' = FlatAt(n) /\ FlatAt(Len(stack))' = FlatAt(n)
    BY <1>1, <1>2, <1>5 DEF FlatAt
  <2> QED
    BY <1>3, <1>6, <2>1 DEF TopSound, NoValue, Scalar, Datum
<1>9. Covered'
  <2> SUFFICES ASSUME NoNil(doc) PROVE \E counted : Counts(counted)'
    BY <1>6 DEF Covered
  <2>1. PICK counted : Counts(counted)
    BY DEF IInv, Covered
  <2>2. counted \in [1..n -> Nat] /\ counted[n] \in Nat /\ counted[1] = 0
    BY <1>1, <2>1 DEF Counts
  <2>3. TopCovers(f, FlatAt(n), Open(reader'), counted[n])
    BY <2>1, <2>2 DEF Counts
  <2>4. ASSUME NEW i \in 1..(n - 1)
        PROVE  counted[i + 1] = counted[i] + stack'[i].depth - FlatAt(i)'
    BY <1>1, <1>2, <1>5, <2>1, <2>4 DEF Counts
  <2>5. FlatAt(Len(stack))' = FlatAt(n)
    BY <1>1, <1>2, <1>5 DEF FlatAt
  <2>6. TopCovers(Top, FlatAt(Len(stack)), Open(reader), counted[Len(stack)])'
    BY <1>2, <1>3, <1>6, <2>3, <2>5 DEF TopCovers
  <2>7. Counts(counted)'
    BY <1>2, <2>2, <2>4, <2>6 DEF Counts
  <2> QED
    BY <2>7
<1>10. ReaderOK(reader)'
  BY DEF ReaderOK
<1> QED
  BY <1>7, <1>8, <1>9, <1>10 DEF IInv, AcceptedReadToItsEnd

\* The shapes of the stack after sub_build() is called, and after it returns.
Pushed(m, g) ==
    /\ IsSequence(stack') /\ Len(stack') = Len(stack) + 1
    /\ stack'[Len(stack) + 1] = g /\ stack'[Len(stack)] = m
    /\ \A i \in 1..(Len(stack) - 1) : stack'[i] = stack[i]
Popped(c) ==
    /\ IsSequence(stack') /\ Len(stack') = Len(stack) - 1 /\ stack'[Len(stack) - 1] = c
    /\ \A i \in 1..(Len(stack) - 2) : stack'[i] = stack[i]

\* The last builder m calls sub_build() for the element it has visited.
LEMMA PushKeeps ==
    ASSUME IInv, UNCHANGED <<doc, built, outcome>>, ~Top.exit,
           NEW m, IsFrame(m), m.kind = Top.kind, m.depth = Top.depth + 1,
           m.kind = "Value" => Top.state = "VALUE",
           NEW kind \in {"Value", "Struct", "Array"}, Calls(m, kind),
           Pushed(m, Builder(kind, IsFlat(m))),
           ReaderOK(reader'), Open(reader') = Open(reader) + 1,
           PrologUntouched', outcome = "parsing"
    PROVE  IInv'
<1> DEFINE n == Len(stack)
           g == Builder(kind, IsFlat(m))
<1>1. /\ IsSequence(stack) /\ n \in Nat /\ n > 0 /\ Top = stack[n]
      /\ \A i \in 1..n : IsFrame(stack[i])
      /\ Open(reader) \in Nat /\ FlatAt(n) \in {0, 1} /\ Top.depth \in Nat
  BY TopFacts DEF IInv, StackOK
<1>3. PICK fl \in {0, 1} : fl = IF IsFlat(m) THEN 1 ELSE 0
  OBVIOUS
<1>4. /\ IsFrame(g) /\ g.kind = kind /\ ~g.exit
      /\ g.depth = fl
      /\ kind = "Value" => g.state = "VALUE"
  <2>1. IsFlat(m) \in BOOLEAN BY DEF IsFlat
  <2> QED BY <1>3, <2>1, BuilderFacts
<1> HIDE DEF g
<1>6. /\ IsSequence(stack') /\ Len(stack') = n + 1 /\ stack'[n + 1] = g /\ stack'[n] = m
      /\ \A i \in 1..(n - 1) : stack'[i] = stack[i]
  BY DEF Pushed, g
<1>7. Top' = g
  BY <1>1, <1>6 DEF Top
<1>8. \A i \in 1..n : FlatAt(i)' = FlatAt(i)
  <2>1. ASSUME NEW i \in 1..n, i > 1 PROVE stack'[i - 1] = stack[i - 1]
    <3>1. i - 1 \in 1..(n - 1)
      BY <1>1, <2>1
    <3> QED
      BY <1>6, <3>1
  <2> QED
    BY <1>1, <2>1 DEF FlatAt
<1>9. FlatAt(Len(stack))' = fl
  BY <1>1, <1>3, <1>6 DEF FlatAt
<1>10. doc' = doc /\ Open(reader)' = Open(reader') /\ NoNil(doc)' = NoNil(doc)
  BY DEF Open, Nesting, NoNil
<1>11. /\ m.depth >= FlatAt(n) /\ (m.kind = "Value" => m.depth = FlatAt(n) + 1)
  BY <1>1 DEF IInv, TopSound
<1>12. StackOK'
  <2>1. stack'[1].kind = doc'.kind
    <3>1. CASE n = 1
      BY <1>1, <1>6, <1>10, <3>1 DEF IInv, StackOK
    <3>2. CASE n # 1
      <4>1. 1 \in 1..(n - 1)
        <5>1. n \in Nat /\ n > 0 /\ n # 1
          BY <1>1, <3>2
        <5> HIDE DEF n
        <5> QED
          BY <5>1
      <4> QED
        BY <1>6, <1>10, <4>1 DEF IInv, StackOK
    <3> QED
      BY <3>1, <3>2
  <2>2. \A i \in 1..(n + 1) : IsFrame(stack'[i])
    <3>1. ASSUME NEW i \in 1..(n + 1) PROVE IsFrame(stack'[i])
      <4>1. CASE i = n + 1
        BY <1>4, <1>6, <4>1
      <4>2. CASE i = n
        BY <1>6, <4>2
      <4>3. CASE i \in 1..(n - 1)
        BY <1>1, <1>6, <4>3
      <4> QED
        BY <1>1, <3>1, <4>1, <4>2, <4>3
    <3> QED
      BY <3>1
  <2>3. ASSUME NEW i \in 1..n
        PROVE  /\ Calls(stack'[i], stack'[i + 1].kind)
               /\ stack'[i].depth >= FlatAt(i)'
               /\ stack'[i].kind = "Value" => stack'[i].depth = FlatAt(i)' + 1
    <3>1. FlatAt(i)' = FlatAt(i)
      BY <1>8
    <3>2. CASE i = n
      <4>1. stack'[i] = m /\ stack'[i + 1].kind = kind
        BY <1>4, <1>6, <3>2
      <4> QED
        BY <1>11, <3>1, <3>2, <4>1
    <3>3. CASE i \in 1..(n - 1)
      <4>1. stack'[i + 1].kind = stack[i + 1].kind
        <5>1. CASE i + 1 = n
          BY <1>1, <1>6, <5>1
        <5>2. CASE i + 1 # n
          <6>1. i + 1 \in 1..(n - 1)
            BY <1>1, <3>3, <5>2
          <6> QED
            BY <1>6, <6>1
        <5> QED
          BY <5>1, <5>2
      <4>2. stack'[i] = stack[i]
        BY <1>6, <3>3
      <4>3. /\ Calls(stack[i], stack[i + 1].kind)
            /\ stack[i].depth >= FlatAt(i)
            /\ stack[i].kind = "Value" => stack[i].depth = FlatAt(i) + 1
        BY <3>3 DEF IInv, StackOK
      <4> QED
        BY <3>1, <4>1, <4>2, <4>3
    <3> QED
      BY <1>1, <2>3, <3>2, <3>3
  <2>4. Len(stack') - 1 = n /\ Len(stack') > 0
    BY <1>1, <1>6
  <2> QED
    BY <1>6, <2>1, <2>2, <2>3, <2>4 DEF StackOK
<1>13. TopSound(Top, FlatAt(Len(stack)), Open(reader))'
  <2>1. TopSound(g, fl, Open(reader'))
    BY <1>1, <1>4 DEF TopSound
  <2> QED
    BY <1>7, <1>9, <1>10, <2>1 DEF TopSound, NoValue, Scalar, Datum
<1>14. Covered'
  <2> SUFFICES ASSUME NoNil(doc) PROVE \E counted : Counts(counted)'
    BY <1>10 DEF Covered
  <2>1. PICK old : Counts(old)
    BY DEF IInv, Covered
  <2>2. old \in [1..n -> Nat] /\ old[n] \in Nat /\ old[1] = 0
    BY <1>1, <2>1 DEF Counts
  <2>3. Open(reader) <= old[n] + Top.depth - FlatAt(n)
    BY <2>1 DEF Counts, TopCovers
  <2>4. old[n] + m.depth - FlatAt(n) \in Nat
    BY <1>1, <1>11, <2>2 DEF IsFrame
  <2>5. PICK new :
           /\ new \in [1..(n + 1) -> Nat]
           /\ new[n + 1] = old[n] + m.depth - FlatAt(n)
           /\ \A i \in 1..n : new[i] = old[i]
    <3> DEFINE w == [i \in 1..(n + 1) |->
                        IF i = n + 1 THEN old[n] + m.depth - FlatAt(n) ELSE old[i]]
    <3>1. w \in [1..(n + 1) -> Nat]
      BY <1>1, <2>2, <2>4
    <3>2. w[n + 1] = old[n] + m.depth - FlatAt(n) /\ \A i \in 1..n : w[i] = old[i]
      BY <1>1
    <3> QED
      BY <3>1, <3>2
  <2>7. new[1] = 0
    BY <1>1, <2>2, <2>5
  <2>8. ASSUME NEW i \in 1..n
        PROVE  new[i + 1] = new[i] + stack'[i].depth - FlatAt(i)'
    <3>1. CASE i = n
      BY <1>1, <1>6, <1>8, <2>5, <3>1
    <3>2. CASE i # n
      <4>1. i \in 1..(n - 1) /\ i + 1 \in 1..n
        BY <1>1, <3>2
      <4>2. old[i + 1] = old[i] + stack[i].depth - FlatAt(i)
        BY <2>1, <4>1 DEF Counts
      <4> QED
        BY <1>6, <1>8, <2>5, <4>1, <4>2
    <3> QED
      BY <3>1, <3>2
  <2>9. TopCovers(g, fl, Open(reader'), new[n + 1])
    BY <1>1, <1>4, <2>2, <2>3, <2>5 DEF TopCovers
  <2>10. TopCovers(Top, FlatAt(Len(stack)), Open(reader), new[Len(stack)])'
    BY <1>6, <1>7, <1>9, <1>10, <2>9 DEF TopCovers
  <2>11. Len(stack') - 1 = n
    BY <1>1, <1>6
  <2>12. Counts(new)'
    BY <1>6, <2>5, <2>7, <2>8, <2>10, <2>11 DEF Counts
  <2> QED
    BY <2>12
<1>15. ReaderOK(reader)' /\ BuiltOK'
  BY DEF ReaderOK, IInv, BuiltOK, NoNullTaken, NoValue, Scalar, Datum
<1> QED
  BY <1>12, <1>13, <1>14, <1>15 DEF IInv, AcceptedReadToItsEnd

\* The last builder returns, and its caller goes on as c.
LEMMA PopKeeps ==
    ASSUME IInv, UNCHANGED <<doc, reader, outcome>>, Top.exit, Len(stack) > 1,
           NEW c, IsFrame(c), c.kind = stack[Len(stack) - 1].kind,
           c.depth = stack[Len(stack) - 1].depth,
           c.exit <=> c.kind = "Value", c.kind = "Value" => c.val # NoValue,
           Popped(c),
           BuiltOK', outcome = "parsing"
    PROVE  IInv'
<1> DEFINE n == Len(stack)
<1>1. /\ IsSequence(stack) /\ n \in Nat /\ n > 1 /\ Top = stack[n]
      /\ \A i \in 1..n : IsFrame(stack[i])
      /\ Open(reader) \in Nat
  BY TopFacts DEF IInv, StackOK
<1>2. PICK p \in Nat : p = n - 1 /\ p > 0
  BY <1>1
<1>6. /\ IsSequence(stack') /\ Len(stack') = p /\ stack'[p] = c
      /\ \A i \in 1..(p - 1) : stack'[i] = stack[i]
  <2>1. p = Len(stack) - 1 /\ p - 1 = Len(stack) - 2
    BY <1>1, <1>2
  <2> QED
    BY <2>1 DEF Popped
<1>7. Top' = c
  BY <1>6 DEF Top
<1>8. /\ Calls(stack[p], Top.kind) /\ stack[p].depth >= FlatAt(p)
      /\ stack[p].kind = "Value" => stack[p].depth = FlatAt(p) + 1
      /\ c.kind = stack[p].kind /\ c.depth = stack[p].depth
      /\ FlatAt(p) \in {0, 1} /\ IsFrame(stack[p])
  <2>1. p \in 1..(n - 1) /\ p + 1 = n
    BY <1>1, <1>2
  <2> QED
    BY <1>1, <1>2, <2>1 DEF IInv, StackOK, FlatAt
<1>9. \A i \in 1..p : FlatAt(i)' = FlatAt(i)
  <2>1. ASSUME NEW i \in 1..p, i > 1 PROVE stack'[i - 1] = stack[i - 1]
    <3>1. i - 1 \in 1..(p - 1)
      BY <1>2, <2>1
    <3> QED
      BY <1>6, <3>1
  <2> QED
    BY <1>2, <2>1 DEF FlatAt
<1>10. FlatAt(Len(stack))' = FlatAt(p)
  BY <1>2, <1>6, <1>9 DEF FlatAt
<1>11. doc' = doc /\ Open(reader)' = Open(reader) /\ NoNil(doc)' = NoNil(doc)
  BY DEF Open, Nesting, NoNil
<1>12. StackOK'
  <2>1. stack'[1].kind = doc'.kind
    <3>1. CASE p = 1
      BY <1>6, <1>8, <1>11, <3>1 DEF IInv, StackOK
    <3>2. CASE p # 1
      <4>1. 1 \in 1..(p - 1)
        BY <1>2, <3>2
      <4> QED
        BY <1>6, <1>11, <4>1 DEF IInv, StackOK
    <3> QED
      BY <3>1, <3>2
  <2>2. \A i \in 1..p : IsFrame(stack'[i])
    <3>1. ASSUME NEW i \in 1..p PROVE IsFrame(stack'[i])
      <4>1. CASE i = p
        BY <1>6, <4>1
      <4>2. CASE i # p
        <5>1. i \in 1..(p - 1) /\ i \in 1..n
          BY <1>1, <1>2, <4>2
        <5> QED
          BY <1>1, <1>6, <5>1
      <4> QED
        BY <4>1, <4>2
    <3> QED
      BY <3>1
  <2>3. ASSUME NEW i \in 1..(p - 1)
        PROVE  /\ Calls(stack'[i], stack'[i + 1].kind)
               /\ stack'[i].depth >= FlatAt(i)'
               /\ stack'[i].kind = "Value" => stack'[i].depth = FlatAt(i)' + 1
    <3>1. FlatAt(i)' = FlatAt(i) /\ stack'[i] = stack[i]
      BY <1>2, <1>6, <1>9
    <3>2. stack'[i + 1].kind = stack[i + 1].kind
      <4>1. CASE i + 1 = p
        BY <1>6, <1>8, <4>1
      <4>2. CASE i + 1 # p
        <5>1. i + 1 \in 1..(p - 1)
          BY <1>2, <4>2
        <5> QED
          BY <1>6, <5>1
      <4> QED
        BY <4>1, <4>2
    <3>3. i \in 1..(n - 1)
      BY <1>1, <1>2
    <3>4. /\ Calls(stack[i], stack[i + 1].kind)
          /\ stack[i].depth >= FlatAt(i)
          /\ stack[i].kind = "Value" => stack[i].depth = FlatAt(i) + 1
      BY <3>3 DEF IInv, StackOK
    <3> QED
      BY <3>1, <3>2, <3>4
  <2> QED
    BY <1>2, <1>6, <2>1, <2>2, <2>3 DEF StackOK
<1>13. TopSound(Top, FlatAt(Len(stack)), Open(reader))'
  <2>1. TopSound(c, FlatAt(p), Open(reader))
    BY <1>8 DEF TopSound
  <2> QED
    BY <1>7, <1>10, <1>11, <2>1 DEF TopSound, NoValue, Scalar, Datum
<1>14. Covered'
  <2> SUFFICES ASSUME NoNil(doc) PROVE \E counted : Counts(counted)'
    BY <1>11 DEF Covered
  <2>1. PICK old : Counts(old)
    BY DEF IInv, Covered
  <2>2. /\ old \in [1..n -> Nat] /\ old[n] \in Nat /\ old[p] \in Nat /\ old[1] = 0
        /\ old[n] = old[p] + stack[p].depth - FlatAt(p)
    <3>1. p \in 1..(n - 1) /\ p + 1 = n /\ p \in 1..n /\ n \in 1..n
      BY <1>1, <1>2
    <3> QED
      BY <2>1, <3>1 DEF Counts
  <2>3. TopCovers(Top, FlatAt(n), Open(reader), old[n])
    BY <2>1 DEF Counts
  <2> DEFINE new == [i \in 1..p |-> old[i]]
  <2>4. /\ new \in [1..p -> Nat] /\ new[1] = 0 /\ new[p] = old[p]
        /\ \A i \in 1..p : new[i] = old[i]
    BY <1>1, <1>2, <2>2
  <2> HIDE DEF new
  <2>5. ASSUME NEW i \in 1..(p - 1)
        PROVE  new[i + 1] = new[i] + stack'[i].depth - FlatAt(i)'
    <3>1. i \in 1..(n - 1) /\ i \in 1..p /\ i + 1 \in 1..p
      BY <1>1, <1>2
    <3>2. old[i + 1] = old[i] + stack[i].depth - FlatAt(i)
      BY <2>1, <3>1 DEF Counts
    <3> QED
      BY <1>6, <1>9, <2>4, <3>1, <3>2
  <2>6. TopCovers(c, FlatAt(p), Open(reader), old[p])
    <3>1. Open(reader) <= old[n]
      BY <2>3 DEF TopCovers
    <3>2. CASE c.kind = "Value"
      <4>1. Top.kind \in {"Struct", "Array"}
        BY <1>8, <3>2 DEF Calls
      <4>2. Open(reader) = 0 \/ Open(reader) < old[n]
        BY <2>3, <4>1 DEF TopCovers
      <4>3. old[n] = old[p] + 1
        BY <1>8, <2>2, <3>2
      <4> QED
        BY <1>1, <2>2, <3>2, <4>2, <4>3 DEF TopCovers
    <3>3. CASE c.kind # "Value"
      BY <1>1, <1>8, <2>2, <3>1, <3>3 DEF TopCovers
    <3> QED
      BY <3>2, <3>3
  <2>7. TopCovers(Top, FlatAt(Len(stack)), Open(reader), new[Len(stack)])'
    BY <1>6, <1>7, <1>10, <1>11, <2>4, <2>6 DEF TopCovers
  <2>8. Counts(new)'
    BY <1>6, <2>4, <2>5, <2>7 DEF Counts
  <2> QED
    BY <2>8
<1>15. PrologUntouched'
  BY <1>1, <1>11 DEF IInv, PrologUntouched, Prolog, Nesting
<1>16. ReaderOK(reader)'
  BY DEF ReaderOK, IInv
<1> QED
  BY <1>12, <1>13, <1>14, <1>15, <1>16 DEF IInv, AcceptedReadToItsEnd

-----------------------------------------------------------------------------
(* The steps of the parser *)

\* Only the outcome changes.
LEMMA OutcomeKeeps ==
    ASSUME IInv, UNCHANGED <<doc, reader, stack, built>>, outcome' \in Outcomes,
           outcome' = "ok" /\ NoNil(doc) => outcome = "ok" \/ reader.pos >= doc.rootEnd
    PROVE  IInv'
<1>1. doc' = doc /\ Open(reader)' = Open(reader) /\ NoNil(doc)' = NoNil(doc)
  BY DEF Open, Nesting, NoNil
<1>2. Top' = Top /\ FlatAt(Len(stack))' = FlatAt(Len(stack)) /\ \A i : FlatAt(i)' = FlatAt(i)
  BY DEF Top, FlatAt
<1>3. ReaderOK(reader)'
  BY DEF IInv, ReaderOK
<1>4. StackOK'
  BY <1>2 DEF IInv, StackOK
<1>5. TopSound(Top, FlatAt(Len(stack)), Open(reader))'
  BY <1>1, <1>2 DEF IInv, TopSound, NoValue, Scalar, Datum
<1>6. Covered'
  <2> SUFFICES ASSUME NoNil(doc) PROVE \E counted : Counts(counted)'
    BY <1>1 DEF Covered
  <2>1. PICK counted : Counts(counted)
    BY DEF IInv, Covered
  <2>2. TopCovers(Top, FlatAt(Len(stack)), Open(reader), counted[Len(stack)])'
    BY <1>1, <1>2, <2>1 DEF Counts, TopCovers
  <2>3. Counts(counted)'
    BY <1>2, <2>1, <2>2 DEF Counts
  <2> QED
    BY <2>3
<1>7. PrologUntouched'
  BY <1>1 DEF IInv, PrologUntouched, Prolog, Nesting
<1>8. BuiltOK'
  BY DEF IInv, BuiltOK, NoNullTaken, NoValue, Scalar, Datum
<1>9. (NoNil(doc) => AcceptedReadToItsEnd)'
  BY <1>1 DEF IInv, AcceptedReadToItsEnd
<1> QED
  BY <1>1, <1>3, <1>4, <1>5, <1>6, <1>7, <1>8, <1>9 DEF IInv

LEMMA FailKeeps ==
    ASSUME IInv, NEW e \in Outcomes \ {"ok"}, Fail(e)
    PROVE  IInv'
  BY OutcomeKeeps DEF Fail

\* An event of the prolog is for no builder.
LEMMA PrologOver ==
    ASSUME IInv, NEW r, r = Read(reader), r.curr.ev # "bad", Prolog(r)
    PROVE  /\ r.curr.ev \in {"text", "space"} /\ ~r.curr.empty /\ ~r.back
           /\ Top.kind # "Value"
           /\ Len(stack) = 1 /\ stack[1].depth = 0 /\ ~stack[1].exit
<1>1. doc \in Docs /\ ReaderOK(reader)
  BY DEF IInv
<1>2. /\ Prolog(reader)
      /\ ~reader.back /\ ~reader.curr.empty => r.curr.ev \in {"text", "space"} /\ ~r.curr.empty
  BY <1>1, PrologFacts DEF Prolog
<1>3. ~r.back
  BY <1>1, ReadFacts
<1>4. /\ ~reader.back /\ ~reader.curr.empty
      /\ Len(stack) = 1 /\ stack[1].depth = 0 /\ ~stack[1].exit
  BY <1>2 DEF IInv, PrologUntouched
<1> QED
  BY <1>2, <1>3, <1>4, TopFacts

\* What every step that reads an event for a builder starts from.
LEMMA EventFacts ==
    ASSUME IInv, NEW r, r = Read(reader), r.curr.ev # "bad"
    PROVE  /\ ReaderOK(r) /\ IsReader(r) /\ ~r.back /\ Open(r) \in Nat
           /\ r.curr.ev = "begin" => Open(r) = Open(reader) + 1
           /\ r.curr.ev = "end" => Open(r) = Open(reader) - 1
           /\ r.curr.ev \in {"text", "space"} => Open(r) = Open(reader)
           /\ r.curr.ev = "done" => Open(reader) = 0 /\ Open(r) = 0
<1>1. doc \in Docs /\ ReaderOK(reader)
  BY DEF IInv
<1>2. /\ ReaderOK(r) /\ ~r.back
      /\ r.curr.ev = "begin" => Open(r) = Open(reader) + 1
      /\ r.curr.ev = "end" => Open(r) = Open(reader) - 1
      /\ r.curr.ev \in {"text", "space"} => Open(r) = Open(reader)
      /\ r.curr.ev = "done" => Open(reader) = 0 /\ Open(r) = 0
  BY <1>1, ReadFacts
<1> QED
  BY <1>1, <1>2, OpenType DEF ReaderOK

LEMMA BuiltKept ==
    ASSUME IInv, built' = built
    PROVE  BuiltOK'
  BY DEF IInv, BuiltOK, NoNullTaken, NoValue, Scalar, Datum

LEMMA IgnoreKeeps ==
    ASSUME IInv, Ignore
    PROVE  IInv'
<1>1. PICK r : r = Read(reader)
  OBVIOUS
<1>2. /\ outcome = "parsing" /\ ~Top.exit /\ r.curr.ev \in {"text", "space"}
      /\ reader' = r /\ UNCHANGED <<doc, stack, built, outcome>>
  BY <1>1 DEF Ignore, Parsing
<1>3. ReaderOK(r) /\ Open(r) = Open(reader) /\ r.curr.ev # "bad"
  BY <1>1, <1>2, EventFacts
<1>4. PrologUntouched'
  BY <1>1, <1>2, <1>3, PrologOver DEF PrologUntouched, Prolog, Nesting
<1>5. TopSound(Top, FlatAt(Len(stack)), Open(reader'))
  BY <1>2, <1>3 DEF IInv
<1>6. BuiltOK'
  BY <1>2, BuiltKept
<1> QED
  BY <1>2, <1>3, <1>4, <1>5, <1>6, TopFacts, ReplaceKeeps

LEMMA PushBackKeeps ==
    ASSUME IInv, PushBack
    PROVE  IInv'
<1>1. PICK r : r = Read(reader)
  OBVIOUS
<1>2. PICK f : f = [Top EXCEPT !.exit = TRUE]
  OBVIOUS
<1>3. /\ outcome = "parsing" /\ ~Top.exit /\ r.curr.ev = "end" /\ Top.depth = 0
      /\ reader' = [r EXCEPT !.back = TRUE] /\ stack' = Replace(f)
      /\ UNCHANGED <<doc, built, outcome>>
  BY <1>1, <1>2 DEF PushBack, Parsing
<1>4. ReaderOK(r) /\ IsReader(r) /\ ~r.back /\ Open(r) = Open(reader) - 1 /\ r.curr.ev # "bad"
  BY <1>1, <1>3, EventFacts
<1>5. IsReader(reader') /\ reader'.pos = r.pos /\ reader'.curr = r.curr /\ reader'.back
  BY <1>3, <1>4 DEF IsReader
<1>6. ReaderOK(reader')
  BY <1>3, <1>4, <1>5 DEF ReaderOK
<1>7. Open(reader') = Open(reader)
  <2>1. Nesting(doc, r.pos) \in Nat /\ Open(reader) \in Nat
    BY <1>4, OpenType DEF IInv
  <2> QED
    BY <1>4, <1>5, <2>1 DEF Open
<1>8. /\ IsFrame(f) /\ f.kind = Top.kind /\ f.depth = 0 /\ f.exit
  BY <1>2, <1>3, TopFacts DEF IsFrame, Fields
<1>9. FlatAt(Len(stack)) = 0
  BY <1>3, TopFacts DEF IInv, TopSound
<1>10. TopSound(f, FlatAt(Len(stack)), Open(reader'))
  BY <1>8, <1>9 DEF TopSound
<1>11. ASSUME NEW k \in Nat, TopCovers(Top, FlatAt(Len(stack)), Open(reader), k)
       PROVE  TopCovers(f, FlatAt(Len(stack)), Open(reader'), k)
  <2>1. f.kind \notin {"Struct", "Array"}
    BY <1>8, <1>9, TopFacts
  <2>2. Open(reader) <= k
    BY <1>3, <1>9, <1>11 DEF TopCovers
  <2> QED
    BY <1>7, <1>8, <2>1, <2>2 DEF TopCovers
<1>12. PrologUntouched'
  <2>1. ~Prolog(r)
    BY <1>1, <1>3, <1>4, PrologOver
  <2> QED
    BY <1>3, <1>5, <2>1 DEF PrologUntouched, Prolog, Nesting
<1>13. BuiltOK'
  BY <1>3, BuiltKept
<1> QED
  BY <1>3, <1>6, <1>8, <1>10, <1>11, <1>12, <1>13, ReplaceKeeps

LEMMA EndOfDocumentKeeps ==
    ASSUME IInv, EndOfDocument
    PROVE  IInv'
<1>1. PICK r : r = Read(reader)
  OBVIOUS
<1>2. PICK f : f = [Top EXCEPT !.exit = TRUE]
  OBVIOUS
<1>3. /\ outcome = "parsing" /\ ~Top.exit /\ r.curr.ev = "done"
      /\ reader' = r /\ stack' = Replace(f)
      /\ UNCHANGED <<doc, built, outcome>>
  BY <1>1, <1>2 DEF EndOfDocument, Parsing
<1>4. ReaderOK(r) /\ Open(reader) = 0 /\ Open(r) = 0 /\ r.curr.ev # "bad"
  BY <1>1, <1>3, EventFacts
<1>5. /\ IsFrame(f) /\ f.kind = Top.kind /\ f.exit
  BY <1>2, <1>3, TopFacts DEF IsFrame, Fields
<1>6. TopSound(f, FlatAt(Len(stack)), Open(reader'))
  <2>1. ~(f.kind = "Value" /\ FlatAt(Len(stack)) = 1)
    BY <1>3, <1>4, <1>5, TopFacts DEF IInv, TopSound
  <2> QED
    BY <1>5, <2>1 DEF TopSound
<1>7. ASSUME NEW k \in Nat PROVE TopCovers(f, FlatAt(Len(stack)), Open(reader'), k)
  BY <1>3, <1>4, <1>5 DEF TopCovers
<1>8. PrologUntouched'
  <2>1. ~Prolog(r)
    BY <1>1, <1>3, <1>4, PrologOver
  <2> QED
    BY <1>3, <2>1 DEF PrologUntouched, Prolog, Nesting
<1>9. BuiltOK'
  BY <1>3, BuiltKept
<1> QED
  BY <1>3, <1>4, <1>5, <1>6, <1>7, <1>8, <1>9, ReplaceKeeps

LEMMA VisitTextKeeps ==
    ASSUME IInv, VisitText
    PROVE  IInv'
<1>1. PICK r : r = Read(reader)
  OBVIOUS
<1>2. PICK type : type = IF Top.state = "VALUE" THEN "STRING" ELSE Top.state
  OBVIOUS
<1>3. PICK v : v = Scalar(type, r.curr.str)
  OBVIOUS
<1>4. PICK f : f = [Top EXCEPT !.val = v, !.exit = TextExits(Top)]
  OBVIOUS
<1>5. outcome = "parsing" /\ ~Top.exit /\ r.curr.ev = "text" /\ Top.kind = "Value"
  BY <1>1 DEF VisitText, Parsing
<1>6. \/ Fail("conversion failed")
      \/ reader' = r /\ stack' = Replace(f) /\ UNCHANGED <<doc, built, outcome>>
  BY <1>1, <1>2, <1>3, <1>4 DEF VisitText
<1>7. CASE Fail("conversion failed")
  BY <1>7, FailKeeps DEF Outcomes
<1>8. CASE reader' = r /\ stack' = Replace(f) /\ UNCHANGED <<doc, built, outcome>>
  <2>1. ReaderOK(r) /\ Open(r) = Open(reader) /\ r.curr.ev # "bad"
    BY <1>1, <1>5, EventFacts
  <2>2. type # Absent
    BY <1>2, <1>5, TopFacts DEF IsFrame, ValueStates, Absent
  <2>3. v # NoValue
    BY <1>3, <2>2, ScalarFacts, NullFacts
  <2>4. /\ DOMAIN Top = Fields /\ Top.depth \in Nat /\ Top.state \in ValueStates
    BY <1>5, TopFacts DEF IsFrame
  <2>5. /\ DOMAIN f = Fields /\ f.kind = Top.kind /\ f.depth = Top.depth /\ f.state = Top.state
        /\ f.val = v /\ f.exit = (Top.state = "VALUE")
    BY <1>4, <2>4 DEF Fields, TextExits
  <2>6. IsFrame(f)
    BY <1>5, <2>4, <2>5 DEF IsFrame
  <2>7. TopSound(f, FlatAt(Len(stack)), Open(reader'))
    BY <1>5, <1>8, <2>1, <2>3, <2>5 DEF IInv, TopSound
  <2>8. ASSUME NEW k \in Nat, TopCovers(Top, FlatAt(Len(stack)), Open(reader), k)
        PROVE  TopCovers(f, FlatAt(Len(stack)), Open(reader'), k)
    <3>1. Open(reader) <= k + Top.depth - FlatAt(Len(stack))
      BY <1>5, <2>8 DEF TopCovers
    <3>2. f.exit => Top.depth = FlatAt(Len(stack))
      BY <1>5, <2>5 DEF IInv, TopSound
    <3>3. f.exit => Open(reader) <= k
      BY <2>4, <3>1, <3>2
    <3> QED
      BY <1>5, <1>8, <2>1, <2>5, <3>1, <3>3 DEF TopCovers
  <2>9. PrologUntouched'
    <3>1. ~Prolog(r)
      BY <1>1, <1>5, <2>1, PrologOver
    <3> QED
      BY <1>8, <3>1 DEF PrologUntouched, Prolog, Nesting
  <2>10. BuiltOK'
    BY <1>8, BuiltKept
  <2> QED
    BY <1>5, <1>8, <2>1, <2>5, <2>6, <2>7, <2>8, <2>9, <2>10, ReplaceKeeps
<1> QED
  BY <1>6, <1>7, <1>8

LEMMA InsertedFacts ==
    ASSUME NEW f
    PROVE  "type" \in DOMAIN Inserted(f) /\ Inserted(f).type = "STRUCT"
  BY Zenon, ContainerFacts DEF Inserted

LEMMA VisitElementEndKeeps ==
    ASSUME IInv, VisitElementEnd
    PROVE  IInv'
<1>1. PICK r : r = Read(reader)
  OBVIOUS
<1>2. PICK x : x = CASE Top.kind = "Value" -> [Top EXCEPT !.val = Emptied(Top)]
                     [] Top.kind = "Struct" /\ r.curr.str = "member" ->
                            [Top EXCEPT !.val = Inserted(Top), !.state = "NONE"]
                     [] OTHER -> Top
  OBVIOUS
<1>3. PICK f : f = Closed(x)
  OBVIOUS
<1>4. outcome = "parsing" /\ ~Top.exit /\ r.curr.ev = "end" /\ Top.depth > 0
  BY <1>1 DEF VisitElementEnd, Parsing
<1>5. \/ Fail("XML_RPC_violation")
      \/ /\ Top.kind = "Value" => Emptied(Top) # NoValue
         /\ reader' = r /\ stack' = Replace(f) /\ UNCHANGED <<doc, built, outcome>>
  BY <1>1, <1>2, <1>3 DEF VisitElementEnd
<1>6. CASE Fail("XML_RPC_violation")
  BY <1>6, FailKeeps DEF Outcomes
<1>7. CASE /\ Top.kind = "Value" => Emptied(Top) # NoValue
           /\ reader' = r /\ stack' = Replace(f) /\ UNCHANGED <<doc, built, outcome>>
  <2>1. ReaderOK(r) /\ Open(r) \in Nat /\ Open(r) = Open(reader) - 1 /\ r.curr.ev # "bad"
    BY <1>1, <1>4, EventFacts
  <2>2. /\ IsFrame(Top) /\ DOMAIN Top = Fields /\ Top.depth \in Nat
        /\ FlatAt(Len(stack)) \in {0, 1} /\ Open(reader) \in Nat
    BY TopFacts DEF IsFrame
  <2>3. /\ IsFrame(x) /\ x.kind = Top.kind /\ x.depth = Top.depth /\ ~x.exit
        /\ x.kind = "Value" => x.val # NoValue /\ x.state = Top.state
    <3>1. CASE Top.kind = "Value"
      <4>1. x = [Top EXCEPT !.val = Emptied(Top)]
        BY <1>2, <3>1
      <4>2. /\ DOMAIN x = Fields /\ x.kind = Top.kind /\ x.depth = Top.depth
            /\ x.exit = Top.exit /\ x.state = Top.state /\ x.val = Emptied(Top)
        BY <2>2, <4>1 DEF Fields
      <4> QED
        BY <1>4, <1>7, <2>2, <3>1, <4>2 DEF IsFrame
    <3>2. CASE Top.kind = "Struct" /\ r.curr.str = "member"
      <4>1. x = [Top EXCEPT !.val = Inserted(Top), !.state = "NONE"]
        BY <1>2, <3>2
      <4>2. /\ DOMAIN x = Fields /\ x.kind = Top.kind /\ x.depth = Top.depth
            /\ x.exit = Top.exit /\ x.val = Inserted(Top)
        BY <2>2, <4>1 DEF Fields
      <4> QED
        BY <1>4, <2>2, <3>2, <4>2, InsertedFacts DEF IsFrame
    <3>3. CASE Top.kind # "Value" /\ ~(Top.kind = "Struct" /\ r.curr.str = "member")
      <4>1. x = Top
        BY <1>2, <3>3
      <4> QED
        BY <1>4, <2>2, <3>3, <4>1
    <3> QED
      BY <3>1, <3>2, <3>3
  <2>4. /\ DOMAIN f = Fields /\ f.kind = x.kind /\ f.depth = Top.depth - 1
        /\ f.exit = (Top.depth = 1) /\ f.val = x.val /\ f.state = x.state
    BY <1>3, <2>3 DEF Closed, IsFrame, Fields
  <2>5. f.depth \in Nat
    BY <1>4, <2>2, <2>4
  <2>6. IsFrame(f) /\ f.kind = Top.kind
    BY <2>3, <2>4, <2>5 DEF IsFrame
  <2>7. TopSound(f, FlatAt(Len(stack)), Open(reader'))
    <3>0. ~f.exit => Top.depth # 1
      BY <2>4
    <3>1. ~f.exit => f.depth >= FlatAt(Len(stack)) /\ Top.depth > 1
      BY <1>4, <2>2, <2>4, <3>0
    <3>2. ASSUME f.kind = "Value", ~f.exit
          PROVE  Open(r) >= f.depth /\ f.state # "VALUE"
      <4>1. Open(reader) >= Top.depth /\ (Top.state = "VALUE" => Top.depth = FlatAt(Len(stack)))
        BY <1>4, <2>6, <3>2 DEF IInv, TopSound
      <4>2. f.state = Top.state
        BY <2>3, <2>4, <3>2
      <4> QED
        BY <2>1, <2>2, <2>4, <3>1, <3>2, <4>1, <4>2
    <3>3. f.kind = "Value" => f.val # NoValue
      BY <2>3, <2>4
    <3> QED
      BY <1>7, <3>1, <3>2, <3>3 DEF TopSound
  <2>8. ASSUME NEW k \in Nat, TopCovers(Top, FlatAt(Len(stack)), Open(reader), k)
        PROVE  TopCovers(f, FlatAt(Len(stack)), Open(reader'), k)
    <3>1. Open(reader) <= k + Top.depth - FlatAt(Len(stack))
      BY <1>4, <2>8 DEF TopCovers
    <3>2. Open(r) <= k + f.depth - FlatAt(Len(stack))
      BY <2>1, <2>2, <2>4, <3>1
    <3>3. f.exit => Open(r) <= k - FlatAt(Len(stack))
      <4>1. f.exit => Top.depth = 1
        BY <2>4
      <4>2. Top.depth = 1 => Open(reader) <= k + 1 - FlatAt(Len(stack))
        BY <3>1
      <4> QED
        BY <2>1, <2>2, <4>1, <4>2
    <3>4. f.kind \in {"Struct", "Array"} => FlatAt(Len(stack)) = 1
      BY <2>6, TopFacts
    <3>5. /\ f.exit => Open(r) <= k
          /\ f.exit /\ f.kind \in {"Struct", "Array"} => Open(r) < k
      BY <2>1, <2>2, <3>3, <3>4
    <3> QED
      BY <1>7, <3>2, <3>5 DEF TopCovers
  <2>9. PrologUntouched'
    <3>1. ~Prolog(r)
      BY <1>1, <1>4, <2>1, PrologOver
    <3> QED
      BY <1>7, <3>1 DEF PrologUntouched, Prolog, Nesting
  <2>10. BuiltOK'
    BY <1>7, BuiltKept
  <2> QED
    BY <1>4, <1>7, <2>1, <2>6, <2>7, <2>8, <2>9, <2>10, ReplaceKeeps
<1> QED
  BY <1>5, <1>6, <1>7

\* A name is read: its text, or its end if it is empty.
LEMMA NameKeeps ==
    ASSUME IInv, outcome = "parsing", ~Top.exit,
           NEW r, r = Read(reader), r.curr.ev = "begin",
           NEW q, q = Read(r), q.curr.ev \in {"text", "end"},
           NEW f, IsFrame(f), f.kind = Top.kind, f.kind # "Value",
           f.depth = Top.depth + 1, ~f.exit,
           reader' = q, stack' = Replace(f),
           BuiltOK', UNCHANGED <<doc, outcome>>
    PROVE  IInv'
<1>1. doc \in Docs /\ ReaderOK(r) /\ Open(r) = Open(reader) + 1
  BY EventFacts DEF IInv
<1>2. ReaderOK(q) /\ Open(q) \in {Open(r), Open(r) - 1}
  BY <1>1, ReadFacts
<1>3. /\ Open(reader) \in Nat /\ Open(q) \in Nat /\ Top.depth \in Nat
      /\ FlatAt(Len(stack)) \in {0, 1}
  BY <1>1, <1>2, TopFacts, OpenType
<1>4. Open(q) <= Open(reader) + 1
  BY <1>1, <1>2, <1>3
<1>5. TopSound(f, FlatAt(Len(stack)), Open(reader'))
  BY <1>3 DEF IInv, TopSound
<1>6. ASSUME NEW k \in Nat, TopCovers(Top, FlatAt(Len(stack)), Open(reader), k)
      PROVE  TopCovers(f, FlatAt(Len(stack)), Open(reader'), k)
  <2>1. Open(reader) <= k + Top.depth - FlatAt(Len(stack))
    BY <1>6 DEF TopCovers
  <2>2. Open(q) <= k + f.depth - FlatAt(Len(stack))
    BY <1>3, <1>4, <2>1
  <2> QED
    BY <2>2 DEF TopCovers
<1>7. PrologUntouched'
  <2>1. ~Prolog(r)
    BY PrologOver
  <2>2. ~Prolog(q)
    BY <1>1, <2>1, PrologFacts DEF Prolog
  <2> QED
    BY <2>2 DEF PrologUntouched, Prolog, Nesting
<1> QED
  BY <1>2, <1>5, <1>6, <1>7, ReplaceKeeps

\* A begin tag moves a builder on.
LEMMA MoveKeeps ==
    ASSUME IInv, outcome = "parsing", ~Top.exit,
           NEW r, r = Read(reader), r.curr.ev = "begin",
           NEW m, IsFrame(m), m.kind = Top.kind, m.depth = Top.depth + 1, ~m.exit,
           m.kind = "Value" => m.state # "VALUE",
           reader' = r, stack' = Replace(m), UNCHANGED <<doc, built, outcome>>
    PROVE  IInv'
<1>1. ReaderOK(r) /\ Open(r) = Open(reader) + 1
  BY EventFacts
<1>2. /\ Open(reader) \in Nat /\ Top.depth \in Nat /\ FlatAt(Len(stack)) \in {0, 1}
  BY TopFacts
<1>3. TopSound(m, FlatAt(Len(stack)), Open(reader'))
  BY <1>1, <1>2 DEF IInv, TopSound
<1>4. ASSUME NEW k \in Nat, TopCovers(Top, FlatAt(Len(stack)), Open(reader), k)
      PROVE  TopCovers(m, FlatAt(Len(stack)), Open(reader'), k)
  <2>1. Open(reader) <= k + Top.depth - FlatAt(Len(stack))
    BY <1>4 DEF TopCovers
  <2>2. Open(r) <= k + m.depth - FlatAt(Len(stack))
    BY <1>1, <1>2, <2>1
  <2> QED
    BY <2>2 DEF TopCovers
<1>5. PrologUntouched'
  <2>1. ~Prolog(r)
    BY PrologOver
  <2> QED
    BY <2>1 DEF PrologUntouched, Prolog, Nesting
<1>6. BuiltOK'
  BY BuiltKept
<1> QED
  BY <1>1, <1>3, <1>4, <1>5, <1>6, ReplaceKeeps

\* nil leaves an element on the count of a builder that exits, which a document
\* without nil does not meet.
LEMMA NilKeeps ==
    ASSUME IInv, outcome = "parsing", ~Top.exit, Top.kind = "Value",
           NEW r, r = Read(reader), r.curr.ev = "begin", r.curr.str = "nil",
           NEW f, IsFrame(f), f.kind = Top.kind, f.val = Nil, f.exit,
           reader' = r, stack' = Replace(f), UNCHANGED <<doc, built, outcome>>
    PROVE  IInv'
<1>1. ReaderOK(r) /\ Open(r) = Open(reader) + 1 /\ doc \in Docs
  BY EventFacts DEF IInv
<1>2. Nil # NoValue
  <2>1. Nil.type = "NIL"
    BY Zenon, ScalarFacts DEF Nil
  <2> QED
    BY <2>1, NullFacts DEF Absent
<1>3. TopSound(f, FlatAt(Len(stack)), Open(reader'))
  BY <1>2 DEF TopSound
<1>4. ~NoNil(doc)
  <2>1. /\ r.curr = doc.events[r.pos] /\ r.pos = reader.pos + 1
        /\ reader.pos \in Nat /\ r.pos <= Len(doc.events) /\ Len(doc.events) \in Nat
    BY <1>1, ReadFacts, DocFacts DEF IInv, ReaderOK, IsReader
  <2>2. r.pos \in 1..Len(doc.events)
    BY <2>1
  <2> QED
    BY <2>1, <2>2 DEF NoNil
<1>5. PrologUntouched'
  <2>1. ~Prolog(r)
    BY PrologOver
  <2> QED
    BY <2>1 DEF PrologUntouched, Prolog, Nesting
<1>6. BuiltOK'
  BY BuiltKept
<1> QED
  BY <1>1, <1>3, <1>4, <1>5, <1>6, ReplaceKeeps

LEMMA VisitElementKeeps ==
    ASSUME IInv, VisitElement
    PROVE  IInv'
<1>1. PICK r : r = Read(reader)
  OBVIOUS
<1>2. /\ outcome = "parsing" /\ ~Top.exit /\ r.curr.ev = "begin"
      /\ IsFrame(Top) /\ DOMAIN Top = Fields /\ IsSequence(stack) /\ Len(stack) > 0
  BY <1>1, TopFacts DEF VisitElement, Parsing, IsFrame, IInv, StackOK
<1>3. CASE Change(Top, r.curr.str) = {}
  <2>1. Fail("XML_RPC_violation")
    BY <1>1, <1>3 DEF VisitElement
  <2> QED
    BY <2>1, FailKeeps DEF Outcomes
<1>4. CASE Change(Top, r.curr.str) # {}
  <2>1. PICK t \in Change(Top, r.curr.str) :
           LET moved == [Top EXCEPT !.depth = @ + 1, !.state = t[3]] IN
             IF IsName(moved) THEN
                IF ~DataRead(r)
                THEN Fail(IF Read(r).curr.ev = "bad" THEN "Parse_error"
                          ELSE "XML_RPC_violation")
                ELSE /\ reader' = Read(r)
                     /\ stack' = Replace([moved EXCEPT !.name = DataText(r)])
                     /\ built' = IF moved.kind = "Request"
                                 THEN [built EXCEPT !.name = DataText(r)] ELSE built
                     /\ UNCHANGED <<doc, outcome>>
             ELSE /\ reader' = r
                  /\ stack' = CASE t[3] = "NIL" ->
                                      Replace([moved EXCEPT !.val = Nil, !.exit = TRUE])
                                [] Starts(moved) # Absent ->
                                      Append(Replace(moved),
                                             Builder(Starts(moved), IsFlat(moved)))
                                [] OTHER -> Replace(moved)
                  /\ UNCHANGED <<doc, built, outcome>>
    BY <1>1, <1>4 DEF VisitElement
  <2>0. PICK m : m = Moved(Top, t)
    OBVIOUS
  <2>2. m = [Top EXCEPT !.depth = @ + 1, !.state = t[3]]
    BY <2>0 DEF Moved
  <2>3. /\ IsFrame(m) /\ m.kind = Top.kind /\ m.depth = Top.depth + 1 /\ m.state = t[3]
        /\ ~m.exit /\ m.val = Top.val
        /\ Top.kind = "Value" => Top.state = "VALUE" /\ m.state # "VALUE" /\ ~IsName(m)
        /\ t[3] = "NIL" => Top.kind = "Value" /\ r.curr.str = "nil"
        /\ Starts(m) # Absent =>
              /\ Calls(m, Starts(m)) /\ Starts(m) \in {"Value", "Struct", "Array"}
    <3>1. t \in Change(Top, r.curr.str)
      BY <2>1
    <3> QED
      BY <1>2, <2>0, <3>1, MoveFacts
  <2>4. CASE IsName(m) /\ ~DataRead(r)
    <3>1. PICK e \in {"Parse_error", "XML_RPC_violation"} : Fail(e)
      BY <2>1, <2>2, <2>4
    <3> QED
      BY <3>1, FailKeeps DEF Outcomes
  <2>5. CASE IsName(m) /\ DataRead(r)
    <3>1. PICK q : q = Read(r)
      OBVIOUS
    <3>2. PICK f : f = [m EXCEPT !.name = DataText(r)]
      OBVIOUS
    <3>3. /\ reader' = q /\ stack' = Replace(f) /\ UNCHANGED <<doc, outcome>>
          /\ built' = IF m.kind = "Request"
                      THEN [built EXCEPT !.name = DataText(r)] ELSE built
      BY <2>1, <2>2, <2>5, <3>1, <3>2
    <3>4. q.curr.ev \in {"text", "end"}
      BY <2>5, <3>1 DEF DataRead
    <3>5. IsFrame(f) /\ f.kind = m.kind /\ f.depth = m.depth /\ ~f.exit
      BY <2>3, <3>2 DEF IsFrame, Fields
    <3>6. built'.params = built.params /\ DOMAIN built' = DOMAIN built
      BY <3>3 DEF IInv, BuiltOK
    <3>7. BuiltOK'
      BY <3>6 DEF IInv, BuiltOK, NoNullTaken, NoValue, Scalar, Datum
    <3> QED
      BY <1>1, <1>2, <2>3, <2>5, <3>1, <3>3, <3>4, <3>5, <3>7, NameKeeps
  <2>6. CASE ~IsName(m) /\ t[3] = "NIL"
    <3>1. PICK f : f = [m EXCEPT !.val = Nil, !.exit = TRUE]
      OBVIOUS
    <3>2. Starts(m) = Absent
      BY <2>3, <2>6 DEF Starts
    <3>3. reader' = r /\ stack' = Replace(f) /\ UNCHANGED <<doc, built, outcome>>
      BY <2>1, <2>2, <2>6, <3>1, <3>2
    <3>4. IsFrame(f) /\ f.kind = Top.kind /\ f.val = Nil /\ f.exit
      BY <2>3, <2>6, <3>1 DEF IsFrame, Fields
    <3> QED
      BY <1>1, <1>2, <2>3, <2>6, <3>3, <3>4, NilKeeps
  <2>7. CASE ~IsName(m) /\ t[3] # "NIL" /\ Starts(m) # Absent
    <3>1. PICK kind \in {"Value", "Struct", "Array"} : kind = Starts(m) /\ Calls(m, kind)
      BY <2>3, <2>7
    <3>2. PICK q : q = Replaced(stack, m)
      OBVIOUS
    <3>3. PICK g : g = Builder(kind, IsFlat(m))
      OBVIOUS
    <3>4. reader' = r /\ stack' = Append(q, g) /\ UNCHANGED <<doc, built, outcome>>
      BY <2>1, <2>2, <2>7, <3>1, <3>2, <3>3 DEF Replace, Replaced
    <3>5. Pushed(m, g)
      <4>1. /\ IsSequence(Append(q, g)) /\ Len(Append(q, g)) = Len(stack) + 1
            /\ Append(q, g)[Len(stack) + 1] = g /\ Append(q, g)[Len(stack)] = m
            /\ \A i \in 1..(Len(stack) - 1) : Append(q, g)[i] = stack[i]
        BY <1>2, <3>2, PushedFacts
      <4> QED
        BY <3>4, <4>1 DEF Pushed
    <3>6. ReaderOK(reader') /\ Open(reader') = Open(reader) + 1
      BY <1>1, <1>2, <3>4, EventFacts
    <3>7. PrologUntouched'
      <4>1. ~Prolog(r)
        BY <1>1, <1>2, PrologOver
      <4> QED
        BY <3>4, <4>1 DEF PrologUntouched, Prolog, Nesting
    <3> QED
      BY <1>2, <2>3, <3>1, <3>3, <3>4, <3>5, <3>6, <3>7, PushKeeps
  <2>8. CASE ~IsName(m) /\ t[3] # "NIL" /\ Starts(m) = Absent
    <3>1. reader' = r /\ stack' = Replace(m) /\ UNCHANGED <<doc, built, outcome>>
      BY <2>1, <2>2, <2>8
    <3> QED
      BY <1>1, <1>2, <2>3, <3>1, MoveKeeps
  <2> QED
    BY <2>4, <2>5, <2>6, <2>7, <2>8
<1> QED
  BY <1>3, <1>4

LEMMA IllFormedKeeps ==
    ASSUME IInv, IllFormed
    PROVE  IInv'
  BY FailKeeps DEF IllFormed, Outcomes

\* A value that is returned to a builder that keeps it is not a null pointer.
LEMMA ReturnedFacts ==
    ASSUME IInv, Top.exit, Len(stack) > 1, NEW caller, caller = stack[Len(stack) - 1]
    PROVE  /\ IsFrame(caller) /\ Calls(caller, Top.kind)
           /\ caller.kind \in {"Request", "Value"} \/ caller.state = "OK_PARAM_VALUE"
                 => Top.val # NoValue
<1>1. PICK i \in 1..(Len(stack) - 1) : i = Len(stack) - 1
  BY TopFacts
<1>2. i \in 1..Len(stack) /\ caller = stack[i]
  BY <1>1, TopFacts
<1>3. IsFrame(caller) /\ Calls(caller, Top.kind)
  BY <1>1, <1>2, TopFacts DEF IInv, StackOK
<1>4. CASE caller.kind = "Value"
  <2>1. "type" \in DOMAIN Top.val /\ Top.val.type \in {"STRUCT", "ARRAY"}
    BY <1>3, <1>4, TopFacts DEF Calls, IsFrame
  <2> QED
    BY <1>3, <2>1, NullFacts DEF Absent
<1>5. CASE caller.kind = "Request" \/ caller.state = "OK_PARAM_VALUE"
  <2>1. Top.kind = "Value" /\ IsFlat(caller)
    BY <1>3, <1>5 DEF Calls, IsFlat
  <2>2. FlatAt(Len(stack)) = 1
    BY <2>1 DEF FlatAt
  <2> QED
    BY <1>3, <2>1, <2>2 DEF IInv, TopSound
<1> QED
  BY <1>3, <1>4, <1>5

LEMMA SubBuiltKeeps ==
    ASSUME IInv, SubBuilt
    PROVE  IInv'
<1>1. PICK v : v = Top.val
  OBVIOUS
<1>2. PICK caller : caller = stack[Len(stack) - 1]
  OBVIOUS
<1>3. PICK c : c = CASE caller.kind = "Value"  -> ValueTakes(caller, v)
                     [] caller.kind = "Struct" -> StructTakes(caller, v)
                     [] caller.kind = "Array"  -> ArrayTakes(caller, v)
                     [] OTHER                  -> caller
  OBVIOUS
<1>4. outcome = "parsing" /\ Top.exit /\ Len(stack) > 1
  BY DEF SubBuilt, Parsing
<1>5. \/ Fail("XML_RPC_violation")
      \/ Fail("Bad_cast")
      \/ /\ stack' = Append(SubSeq(stack, 1, Len(stack) - 2), c)
         /\ built' = IF caller.state = "FAULT_RESPONSE_VALUE" THEN FaultTakes(v)
                     ELSE CASE caller.kind = "Request"  -> RequestTakes(v)
                            [] caller.kind = "Response" -> ResponseTakes(v)
                            [] OTHER                    -> built
         /\ UNCHANGED <<doc, reader, outcome>>
  BY <1>1, <1>2, <1>3 DEF SubBuilt
<1>6. CASE Fail("XML_RPC_violation") \/ Fail("Bad_cast")
  BY <1>6, FailKeeps DEF Outcomes
<1>7. CASE /\ stack' = Append(SubSeq(stack, 1, Len(stack) - 2), c)
           /\ built' = IF caller.state = "FAULT_RESPONSE_VALUE" THEN FaultTakes(v)
                       ELSE CASE caller.kind = "Request"  -> RequestTakes(v)
                              [] caller.kind = "Response" -> ResponseTakes(v)
                              [] OTHER                    -> built
           /\ UNCHANGED <<doc, reader, outcome>>
  <2>1. /\ IsFrame(caller) /\ Calls(caller, Top.kind)
        /\ caller.kind \in {"Request", "Value"} \/ caller.state = "OK_PARAM_VALUE"
              => v # NoValue
    BY <1>1, <1>2, <1>4, ReturnedFacts
  <2>2. DOMAIN caller = Fields /\ ~caller.exit
    BY <2>1 DEF IsFrame, Calls
  <2>3. /\ IsFrame(c) /\ c.kind = caller.kind /\ c.depth = caller.depth
        /\ c.exit <=> c.kind = "Value"
        /\ c.kind = "Value" => c.val # NoValue
    <3>1. CASE caller.kind = "Value"
      <4>1. c = [caller EXCEPT !.val = v, !.exit = TRUE]
        BY <1>3, <3>1 DEF ValueTakes
      <4>2. /\ DOMAIN c = Fields /\ c.kind = caller.kind /\ c.depth = caller.depth
            /\ c.exit = TRUE /\ c.state = caller.state /\ c.val = v
        BY <2>2, <4>1 DEF Fields
      <4> QED
        BY <2>1, <3>1, <4>2 DEF IsFrame
    <3>2. CASE caller.kind = "Struct"
      <4>1. c = [caller EXCEPT !.member = OrEmpty(v)]
        BY <1>3, <3>2 DEF StructTakes
      <4>2. /\ DOMAIN c = Fields /\ c.kind = caller.kind /\ c.depth = caller.depth
            /\ c.exit = caller.exit /\ c.val = caller.val
        BY <2>2, <4>1 DEF Fields
      <4> QED
        BY <2>1, <2>2, <3>2, <4>2 DEF IsFrame
    <3>3. CASE caller.kind = "Array"
      <4>1. PICK items : c = [caller EXCEPT !.val = [caller.val EXCEPT !.items = items]]
        BY <1>3, <2>2, <3>3 DEF ArrayTakes, Fields
      <4>2. /\ DOMAIN c = Fields /\ c.kind = caller.kind /\ c.depth = caller.depth
            /\ c.exit = caller.exit /\ c.val = [caller.val EXCEPT !.items = items]
        BY <2>2, <4>1 DEF Fields
      <4>3. "type" \in DOMAIN c.val /\ c.val.type = caller.val.type
        BY <2>1, <3>3, <4>2 DEF IsFrame
      <4> QED
        BY <2>1, <2>2, <3>3, <4>2, <4>3 DEF IsFrame
    <3>4. CASE caller.kind \in {"Request", "Response"}
      <4>1. c = caller
        BY <1>3, <3>4
      <4> QED
        BY <2>1, <2>2, <3>4, <4>1
    <3> QED
      BY <2>1, <3>1, <3>2, <3>3, <3>4 DEF Calls
  <2>4. Popped(c)
    <3>1. PICK q : q = Below(stack)
      OBVIOUS
    <3>2. IsSequence(stack)
      BY DEF IInv, StackOK
    <3>3. /\ IsSequence(Append(q, c)) /\ Len(Append(q, c)) = Len(stack) - 1
          /\ Append(q, c)[Len(stack) - 1] = c
          /\ \A i \in 1..(Len(stack) - 2) : Append(q, c)[i] = stack[i]
      BY <1>4, <3>1, <3>2, PoppedFacts
    <3>4. stack' = Append(q, c)
      BY <1>7, <3>1 DEF Below
    <3> QED
      BY <3>3, <3>4 DEF Popped
  <2>5. BuiltOK'
    <3>0. /\ DOMAIN built = {"name", "params", "fault"} /\ IsSequence(built.params)
          /\ \A i \in DOMAIN built.params : built.params[i] # NoValue
      BY DEF IInv, BuiltOK, NoNullTaken
    <3>1. CASE \/ caller.state = "FAULT_RESPONSE_VALUE"
               \/ caller.kind \in {"Value", "Struct", "Array"}
      <4>1. PICK x : built' = built \/ built' = [built EXCEPT !.fault = x]
        BY <1>7, <3>1 DEF FaultTakes
      <4>2. built'.params = built.params /\ DOMAIN built' = DOMAIN built
        BY <3>0, <4>1
      <4> QED
        BY <3>0, <4>2 DEF BuiltOK, NoNullTaken, NoValue, Scalar, Datum
    <3>2. CASE caller.kind = "Request" /\ caller.state # "FAULT_RESPONSE_VALUE"
      <4>1. PICK p : p = Append(built.params, v)
        OBVIOUS
      <4>2. built' = [built EXCEPT !.params = p]
        BY <1>7, <3>2, <4>1 DEF RequestTakes
      <4>3. built'.params = p /\ DOMAIN built' = DOMAIN built
        BY <3>0, <4>2
      <4>4. PICK s : s = built.params
        OBVIOUS
      <4>5. /\ IsSequence(p) /\ Len(p) = Len(s) + 1 /\ p[Len(s) + 1] = v
            /\ \A i \in 1..Len(s) : p[i] = s[i]
        BY <3>0, <4>1, <4>4, AppendedFacts
      <4>6. ASSUME NEW i \in DOMAIN p PROVE p[i] # NoValue
        <5>1. Len(s) \in Nat /\ DOMAIN s = 1..Len(s) /\ DOMAIN p = 1..(Len(s) + 1)
          BY <3>0, <4>4, <4>5, LengthFacts
        <5>2. CASE i = Len(s) + 1
          BY <2>1, <3>2, <4>5, <5>2
        <5>3. CASE i # Len(s) + 1
          <6>1. i \in 1..Len(s)
            BY <4>6, <5>1, <5>3
          <6> QED
            BY <3>0, <4>4, <4>5, <5>1, <6>1
        <5> QED
          BY <5>2, <5>3
      <4> QED
        BY <3>0, <4>3, <4>5, <4>6 DEF BuiltOK, NoNullTaken, NoValue, Scalar, Datum
    <3>3. CASE caller.kind = "Response" /\ caller.state # "FAULT_RESPONSE_VALUE"
      <4>1. PICK p : p = <<v>>
        OBVIOUS
      <4>2. built' = [built EXCEPT !.params = p]
        BY <1>7, <3>3, <4>1 DEF ResponseTakes
      <4>3. built'.params = p /\ DOMAIN built' = DOMAIN built
        BY <3>0, <4>2
      <4>4. v # NoValue
        BY <2>1, <3>3 DEF Calls
      <4>5. p \in Seq({v}) /\ \A i \in DOMAIN p : p[i] = v
        BY <4>1
      <4>6. IsSequence(p)
        BY <4>5, SequenceFacts
      <4> QED
        BY <3>0, <4>3, <4>4, <4>5, <4>6 DEF BuiltOK, NoNullTaken, NoValue, Scalar, Datum
    <3> QED
      BY <2>1, <3>1, <3>2, <3>3 DEF Calls
  <2> QED
    BY <1>2, <1>4, <1>7, <2>3, <2>4, <2>5, PopKeeps
<1> QED
  BY <1>5, <1>6, <1>7

\* The root builder leaves when nothing is open: after the root element, for in the
\* prolog it has not begun.
LEMMA RootBuiltKeeps ==
    ASSUME IInv, RootBuilt
    PROVE  IInv'
<1>1. /\ Top.exit /\ Len(stack) = 1 /\ UNCHANGED <<doc, reader, stack, built>>
      /\ outcome' \in {"ok", "XML_RPC_violation"}
  BY DEF RootBuilt
<1>2. ASSUME NoNil(doc) PROVE reader.pos >= doc.rootEnd
  <2>1. PICK counted : Counts(counted)
    BY <1>2 DEF IInv, Covered
  <2>2. Open(reader) <= 0
    BY <1>1, <2>1 DEF Counts, TopCovers
  <2>3. /\ Open(reader) \in Nat /\ Nesting(doc, reader.pos) \in Nat
        /\ doc.rootEnd \in 0..Len(doc.events) /\ Len(doc.events) \in Nat
        /\ reader.pos \in Nat /\ reader.curr.empty \in BOOLEAN /\ reader.back \in BOOLEAN
    BY OpenType, DocFacts DEF IInv, ReaderOK, IsReader, IsEvent
  <2>4. Nesting(doc, reader.pos) = 0
    BY <2>2, <2>3 DEF Open
  <2>5. ~(reader.pos < doc.rootEnd)
    BY <1>1, <2>4 DEF IInv, PrologUntouched, Prolog, Top
  <2> QED
    BY <2>3, <2>5
<1> QED
  BY <1>1, <1>2, OutcomeKeeps DEF Outcomes

LEMMA InitInvariant ==
    ASSUME Init
    PROVE  IInv
<1>1. doc \in Docs /\ outcome = "parsing" /\ outcome \in Outcomes
  BY DEF Init, Outcomes
<1>2. /\ DOMAIN reader = {"pos", "curr", "back"}
      /\ reader.pos = 0 /\ reader.curr = Done /\ reader.back = FALSE
  BY DEF Init
<1>3. IsReader(reader) /\ ~reader.curr.empty
  <2>1. IsEvent(reader.curr) /\ ~reader.curr.empty
    BY <1>2, DoneFacts
  <2>2. reader.pos \in Nat
    BY <1>2
  <2>3. reader.back \in BOOLEAN
    BY <1>2
  <2>4. DOMAIN reader = {"pos", "curr", "back"}
    BY <1>2
  <2> QED
    BY <2>1, <2>2, <2>3, <2>4 DEF IsReader
<1>4. ReaderOK(reader)
  BY <1>1, <1>2, <1>3, DocFacts DEF ReaderOK
<1>5. Open(reader) = 0
  <2>1. 1..0 = {} OBVIOUS
  <2>2. Nesting(doc, 0) = Cardinality({}) - Cardinality({})
    BY <2>1 DEF Nesting
  <2> QED
    BY <1>2, <1>3, <2>2, FS_EmptySet DEF Open
<1>6. PICK f : f = Builder(doc.kind, FALSE)
  OBVIOUS
<1>7. IsFrame(f) /\ f.kind = doc.kind /\ ~f.exit /\ f.depth = 0 /\ f.kind \in {"Request", "Response"}
  <2>1. doc.kind \in {"Request", "Response"}
    BY <1>1, DocFacts
  <2> QED
    BY <1>6, <2>1, BuilderFacts
<1>8. stack = <<f>>
  BY <1>6 DEF Init
<1>9. IsSequence(stack) /\ Len(stack) = 1 /\ stack[1] = f /\ Top = f
  <2>1. stack \in Seq({f}) /\ Len(stack) = 1 /\ stack[1] = f
    BY <1>8
  <2> QED
    BY <2>1, SequenceFacts DEF Top
<1>10. StackOK
  BY <1>7, <1>9 DEF StackOK
<1>11. FlatAt(Len(stack)) = 0
  BY <1>9 DEF FlatAt
<1>12. TopSound(Top, FlatAt(Len(stack)), Open(reader))
  BY <1>7, <1>9, <1>11 DEF TopSound
<1>13. Covered
  <2>1. PICK counted : counted = [i \in 1..1 |-> 0]
    OBVIOUS
  <2>2. counted \in [1..1 -> Nat] /\ counted[1] = 0
    BY <2>1
  <2>3. TopCovers(Top, FlatAt(Len(stack)), Open(reader), counted[Len(stack)])
    BY <1>5, <1>7, <1>9, <1>11, <2>2 DEF TopCovers
  <2>4. Counts(counted)
    BY <1>9, <2>2, <2>3 DEF Counts
  <2> QED
    BY <2>4 DEF Covered
<1>14. PrologUntouched
  BY <1>2, <1>3, <1>7, <1>9 DEF PrologUntouched
<1>15. BuiltOK
  <2>1. DOMAIN built = {"name", "params", "fault"} /\ built.params = <<>>
    BY DEF Init
  <2>2. PICK p : p = <<>>
    OBVIOUS
  <2>3. p \in Seq({}) /\ DOMAIN p = {}
    BY <2>2
  <2>4. IsSequence(p)
    BY <2>3, SequenceFacts
  <2> QED
    BY <2>1, <2>2, <2>3, <2>4 DEF BuiltOK, NoNullTaken
<1>16. AcceptedReadToItsEnd
  BY <1>1 DEF AcceptedReadToItsEnd
<1> QED
  BY <1>1, <1>4, <1>10, <1>12, <1>13, <1>14, <1>15, <1>16 DEF IInv

LEMMA StepKeeps ==
    ASSUME IInv, [Next]_vars
    PROVE  IInv'
<1>1. CASE UNCHANGED vars
  BY <1>1, OutcomeKeeps DEF vars, IInv
<1>2. CASE VisitElement     BY <1>2, VisitElementKeeps
<1>3. CASE PushBack         BY <1>3, PushBackKeeps
<1>4. CASE VisitElementEnd  BY <1>4, VisitElementEndKeeps
<1>5. CASE VisitText        BY <1>5, VisitTextKeeps
<1>6. CASE Ignore           BY <1>6, IgnoreKeeps
<1>7. CASE IllFormed        BY <1>7, IllFormedKeeps
<1>8. CASE EndOfDocument    BY <1>8, EndOfDocumentKeeps
<1>9. CASE SubBuilt         BY <1>9, SubBuiltKeeps
<1>10. CASE RootBuilt       BY <1>10, RootBuiltKeeps
<1> QED
  BY <1>1, <1>2, <1>3, <1>4, <1>5, <1>6, <1>7, <1>8, <1>9, <1>10 DEF Next

\* The invariant holds in every state of every parse.
THEOREM InvariantHolds == Spec => []IInv
<1>1. Init => IInv
  BY InitInvariant
<1>2. IInv /\ [Next]_vars => IInv'
  BY StepKeeps
<1> QED
  BY <1>1, <1>2, PTL DEF Spec

-----------------------------------------------------------------------------
\* The variables keep their types: there is always a builder, and no count of one
\* (BuilderBase::depth_) goes below zero.
THEOREM ParserTypeCorrect == Spec => []TypeOK
<1>1. IInv => TypeOK
  <2> SUFFICES ASSUME IInv PROVE TypeOK
    OBVIOUS
  <2>1. reader.pos \in 0..Len(doc.events) /\ reader.back \in BOOLEAN
    BY DocFacts DEF IInv, ReaderOK, IsReader
  <2>2. DOMAIN stack = 1..Len(stack) /\ Len(stack) > 0
    BY LengthFacts DEF IInv, StackOK
  <2>3. \A i \in DOMAIN stack :
           /\ stack[i].kind \in Kinds /\ stack[i].depth \in Nat
           /\ stack[i].exit \in BOOLEAN
    BY <2>2, KindFacts DEF IInv, StackOK, IsFrame
  <2> QED
    BY <2>1, <2>2, <2>3 DEF TypeOK, IInv
<1> QED
  BY <1>1, InvariantHolds, PTL

\* Whatever a peer sends, well-formed or not, with nil or without: a parameter of
\* a request or of a response is never the null pointer that ValueBuilder returns
\* for an element it has no value for (Param_list, parser2.cc).
THEOREM NullIsNeverTaken == Spec => []NoNullTaken
<1>1. IInv => NoNullTaken
  BY DEF IInv, BuiltOK
<1> QED
  BY <1>1, InvariantHolds, PTL

\* Builders that count elements instead of comparing tags still agree on which end
\* is whose: without nil in a document, no message is made of a part of it.
THEOREM ReadToItsEnd ==
    ASSUME \A d \in Docs : NoNil(d)
    PROVE  Spec => []AcceptedReadToItsEnd
<1>1. IInv => AcceptedReadToItsEnd
  BY DEF IInv
<1> QED
  BY <1>1, InvariantHolds, PTL

-----------------------------------------------------------------------------
(* What the library writes, piece by piece *)

\* A set of numbers has a smallest one.
LEMMA NatMin ==
    ASSUME NEW S \in SUBSET Nat, S # {}
    PROVE  \E x \in S : \A y \in S : x <= y
<1> DEFINE R == OpToRel(<, Nat)
<1>1. IsWellFoundedOn(R, Nat)
  BY NatLessThanWellFounded
<1>2. \A x, y \in Nat : <<x, y>> \in R <=> x < y
  BY DEF OpToRel
<1> HIDE DEF R
<1>3. PICK x \in S : \A y \in S : ~ (<<y, x>> \in R)
  BY <1>1, WFMin
<1>4. ASSUME NEW y \in S PROVE x <= y
  <2>1. x \in Nat /\ y \in Nat
    OBVIOUS
  <2>2. ~(y < x)
    BY <1>2, <1>3, <2>1
  <2> QED
    BY <2>1, <2>2
<1> QED
  BY <1>4

\* Induction, for a set of numbers.
LEMMA NatInd ==
    ASSUME NEW S \in SUBSET Nat, 0 \in S, \A n \in S : n + 1 \in S
    PROVE  S = Nat
<1>1. ASSUME Nat \ S # {} PROVE FALSE
  <2>1. PICK x \in Nat \ S : \A y \in Nat \ S : x <= y
    BY <1>1, NatMin
  <2>2. x # 0 /\ x - 1 \in Nat /\ x - 1 \notin Nat \ S
    BY <2>1
  <2> QED
    BY <2>1, <2>2
<1> QED
  BY <1>1

\* What Endings is by definition, up to the last C.
Ends(f, parts, n, C) ==
    f = [k \in 0..C |-> IF k = 0 THEN <<>> ELSE parts[n + 1 - k] \o f[k - 1]]

\* There is such a function.
LEMMA EndingsExist ==
    ASSUME NEW parts, NEW n \in Nat, NEW C \in Nat
    PROVE  \E f : Ends(f, parts, n, C)
<1> DEFINE Body(g, k) == IF k = 0 THEN <<>> ELSE parts[n + 1 - k] \o g[k - 1]
           S == {m \in Nat : \E g : g = [k \in 0..m |-> Body(g, k)]}
<1>1. 0 \in S
  <2> DEFINE g == [k \in 0..0 |-> <<>>]
  <2>1. g = [k \in 0..0 |-> Body(g, k)]
    OBVIOUS
  <2> HIDE DEF g, Body
  <2> QED
    BY <2>1
<1>2. ASSUME NEW m \in S PROVE m + 1 \in S
  <2>1. PICK g : g = [k \in 0..m |-> Body(g, k)]
    OBVIOUS
  <2> DEFINE f == [k \in 0 .. m + 1 |-> Body(g, k)]
  <2>2. ASSUME NEW k \in 0..m PROVE f[k] = g[k]
    <3>1. k \in 0 .. m + 1
      OBVIOUS
    <3> HIDE DEF Body
    <3> QED
      BY <2>1, <3>1
  <2>3. ASSUME NEW k \in 0 .. m + 1 PROVE Body(g, k) = Body(f, k)
    <3>1. k # 0 => k - 1 \in 0..m
      OBVIOUS
    <3>2. k # 0 => g[k - 1] = f[k - 1]
      BY <2>2, <3>1
    <3> HIDE DEF f
    <3> QED
      BY <3>2
  <2>4. f = [k \in 0 .. m + 1 |-> Body(f, k)]
    <3> HIDE DEF Body
    <3> QED
      BY <2>3
  <2> HIDE DEF f, Body
  <2> QED
    BY <2>4
<1>3. S = Nat
  <2>1. S \in SUBSET Nat
    OBVIOUS
  <2> HIDE DEF S
  <2> QED
    BY <1>1, <1>2, <2>1, NatInd
<1>4. C \in S
  BY <1>3
<1> QED
  BY <1>4 DEF Ends

\* What documents are made of.
Tags == {"methodCall", "methodName", "params", "param", "value", "methodResponse", "fault",
         "i4", "i8", "boolean", "double", "string", "base64", "dateTime.iso8601",
         "array", "data", "struct", "member", "name", "nil"}
Strings == STRING \cup Tags \cup {""}
AnyEvents == [ev : {"begin", "end", "text", "space", "bad"}, str : Strings, empty : BOOLEAN]
Streams == Seq(AnyEvents)

\* What is left of some sequences after the first k of them.
From(parts, k) == Endings(parts)[Len(parts) - k]

LEMMA EndingsUnfold ==
    ASSUME NEW parts, Len(parts) \in Nat, NEW k \in 0..Len(parts)
    PROVE  Endings(parts)[k] = IF k = 0 THEN <<>>
                               ELSE parts[Len(parts) + 1 - k] \o Endings(parts)[k - 1]
<1> DEFINE n == Len(parts)
           last[j \in 0..n] == IF j = 0 THEN <<>> ELSE parts[n + 1 - j] \o last[j - 1]
<1>1. Endings(parts) = last
  BY DEF Endings
<1>2. \E f : f = [j \in 0..n |-> IF j = 0 THEN <<>> ELSE parts[n + 1 - j] \o f[j - 1]]
  <2>1. \E f : Ends(f, parts, n, n)
    BY EndingsExist
  <2> QED
    BY <2>1 DEF Ends
<1>3. last = [j \in 0..n |-> IF j = 0 THEN <<>> ELSE parts[n + 1 - j] \o last[j - 1]]
  BY <1>2
<1> HIDE DEF last
<1>4. last[k] = IF k = 0 THEN <<>> ELSE parts[n + 1 - k] \o last[k - 1]
  BY <1>3
<1> QED
  BY <1>1, <1>4

LEMMA FromStart ==
    ASSUME NEW parts, Len(parts) \in Nat
    PROVE  From(parts, 0) = Joined(parts)
  BY DEF From, Joined

LEMMA FromEnd ==
    ASSUME NEW parts, Len(parts) \in Nat
    PROVE  From(parts, Len(parts)) = <<>>
<1>1. PICK k \in 0..Len(parts) : k = 0
  OBVIOUS
<1>2. Endings(parts)[k] = <<>>
  BY <1>1, EndingsUnfold
<1> QED
  BY <1>1, <1>2 DEF From

LEMMA FromNext ==
    ASSUME NEW parts, Len(parts) \in Nat, NEW k \in Nat, k < Len(parts)
    PROVE  From(parts, k) = parts[k + 1] \o From(parts, k + 1)
<1>1. PICK j \in 0..Len(parts) : j = Len(parts) - k /\ j # 0
  OBVIOUS
<1>2. Endings(parts)[j] = parts[Len(parts) + 1 - j] \o Endings(parts)[j - 1]
  BY <1>1, EndingsUnfold
<1>3. Len(parts) + 1 - j = k + 1 /\ j - 1 = Len(parts) - (k + 1)
  BY <1>1
<1> QED
  BY <1>1, <1>2, <1>3 DEF From

LEMMA FromType ==
    ASSUME NEW parts \in Seq(Streams), NEW k \in 0..Len(parts)
    PROVE  From(parts, k) \in Streams
<1>0. Len(parts) \in Nat /\ \A i \in 1..Len(parts) : parts[i] \in Streams
  OBVIOUS
<1> DEFINE S == {j \in Nat : j <= Len(parts) => Endings(parts)[j] \in Streams}
<1>1. 0 \in S
  <2>1. Endings(parts)[0] = <<>>
    <3>1. PICK i \in 0..Len(parts) : i = 0
      BY <1>0
    <3>2. Endings(parts)[i] = <<>>
      BY <1>0, <3>1, EndingsUnfold
    <3> QED
      BY <3>1, <3>2
  <2>2. <<>> \in Streams
    BY DEF Streams
  <2> QED
    BY <2>1, <2>2
<1>2. ASSUME NEW j \in S PROVE j + 1 \in S
  <2>1. j \in Nat /\ j + 1 \in Nat
    OBVIOUS
  <2>2. ASSUME j + 1 <= Len(parts) PROVE Endings(parts)[j + 1] \in Streams
    <3>1. Endings(parts)[j] \in Streams
      BY <1>0, <2>1, <2>2
    <3>2. PICK i \in 0..Len(parts) : i = j + 1
      BY <1>0, <2>1, <2>2
    <3>3. Endings(parts)[i] = parts[Len(parts) + 1 - i] \o Endings(parts)[i - 1]
      <4>1. i # 0
        BY <2>1, <3>2
      <4>2. Len(parts) \in Nat
        BY <1>0
      <4> QED
        BY <4>1, <4>2, EndingsUnfold
    <3>4. parts[Len(parts) + 1 - i] \in Streams
      BY <1>0, <2>1, <3>2
    <3>5. i - 1 = j
      BY <2>1, <3>2
    <3> QED
      BY <3>1, <3>2, <3>3, <3>4, <3>5 DEF Streams
  <2> QED
    BY <2>1, <2>2
<1>3. S = Nat
  <2>1. S \in SUBSET Nat
    OBVIOUS
  <2> HIDE DEF S
  <2> QED
    BY <1>1, <1>2, <2>1, NatInd
<1>4. Len(parts) - k \in S /\ Len(parts) - k <= Len(parts)
  BY <1>0, <1>3
<1> QED
  BY <1>4 DEF From

\* The values of the first n levels.
Lower(n) == UNION {Levels[m] : m \in 1..n}

LEMMA DatumParts ==
    ASSUME NEW type, NEW text, NEW items, NEW fields
    PROVE  /\ Datum(type, text, items, fields).type = type
           /\ Datum(type, text, items, fields).text = text
           /\ Datum(type, text, items, fields).items = items
           /\ Datum(type, text, items, fields).fields = fields
<1>1. Datum(type, text, items, fields).type = type
  BY Zenon DEF Datum
<1>2. Datum(type, text, items, fields).text = text
  BY Zenon DEF Datum
<1>3. Datum(type, text, items, fields).items = items
  BY Zenon DEF Datum
<1>4. Datum(type, text, items, fields).fields = fields
  BY Zenon DEF Datum
<1> QED
  BY <1>1, <1>2, <1>3, <1>4

LEMMA ScalarParts ==
    ASSUME NEW type, NEW text
    PROVE  /\ Scalar(type, text).type = type /\ Scalar(type, text).text = text
           /\ Scalar(type, text).items = <<>> /\ Scalar(type, text).fields = <<>>
<1>1. Scalar(type, text) = Datum(type, text, <<>>, <<>>)
  BY DEF Scalar
<1>2. PICK empty : empty = <<>>
  OBVIOUS
<1>3. PICK d : d = Datum(type, text, empty, empty)
  OBVIOUS
<1>4. d.type = type /\ d.text = text /\ d.items = empty /\ d.fields = empty
  BY <1>3, DatumParts
<1> QED
  BY <1>1, <1>2, <1>3, <1>4

LEMMA ContainerParts ==
    ASSUME NEW x
    PROVE  /\ ArrayOf(x).type = "ARRAY" /\ ArrayOf(x).items = x /\ ArrayOf(x).fields = <<>>
           /\ StructOf(x).type = "STRUCT" /\ StructOf(x).fields = x
<1>1. ArrayOf(x).type = "ARRAY" /\ ArrayOf(x).items = x /\ ArrayOf(x).fields = <<>>
  <2>1. PICK empty, none : empty = <<>> /\ none = ""
    OBVIOUS
  <2>2. PICK d : d = Datum("ARRAY", none, x, empty)
    OBVIOUS
  <2>3. d.type = "ARRAY" /\ d.items = x /\ d.fields = empty
    BY <2>2, DatumParts
  <2> QED
    BY <2>1, <2>2, <2>3 DEF ArrayOf
<1>2. StructOf(x).type = "STRUCT" /\ StructOf(x).fields = x
  <2>1. PICK empty, none : empty = <<>> /\ none = ""
    OBVIOUS
  <2>2. PICK d : d = Datum("STRUCT", none, empty, x)
    OBVIOUS
  <2>3. d.type = "STRUCT" /\ d.fields = x
    BY <2>2, DatumParts
  <2> QED
    BY <2>1, <2>2, <2>3 DEF StructOf
<1> QED
  BY <1>1, <1>2

LEMMA TagFacts ==
    /\ DOMAIN TagOf = {"INT", "INT64", "BOOL", "DOUBLE", "STRING", "BINARY", "TIME"}
    /\ \A t \in DOMAIN TagOf : TagOf[t] \in Tags
    /\ TagOf["INT"] = "i4" /\ TagOf["INT64"] = "i8" /\ TagOf["BOOL"] = "boolean"
    /\ TagOf["DOUBLE"] = "double" /\ TagOf["STRING"] = "string" /\ TagOf["BINARY"] = "base64"
    /\ TagOf["TIME"] = "dateTime.iso8601"
<1>1. DOMAIN TagOf = {"INT", "INT64", "BOOL", "DOUBLE", "STRING", "BINARY", "TIME"}
  BY Zenon DEF TagOf
<1>2. TagOf["INT"] = "i4" /\ TagOf["INT64"] = "i8" /\ TagOf["BOOL"] = "boolean"
  BY DEF TagOf
<1>3. TagOf["DOUBLE"] = "double" /\ TagOf["STRING"] = "string" /\ TagOf["BINARY"] = "base64"
  BY DEF TagOf
<1>4. TagOf["TIME"] = "dateTime.iso8601"
  BY DEF TagOf
<1>5. \A t \in DOMAIN TagOf : TagOf[t] \in Tags
  BY <1>1, <1>2, <1>3, <1>4 DEF Tags
<1> QED
  BY <1>1, <1>2, <1>3, <1>4, <1>5

\* What kinds of values there are.
IsNil(v)       == v = Nil /\ v.type = "NIL"
IsScalar(v)    == v.type \in DOMAIN TagOf /\ v.text \in STRING /\ v = Scalar(v.type, v.text)
IsArray(v, P)  == v.type = "ARRAY" /\ v = ArrayOf(v.items) /\ v.items \in Seq(P)
IsStruct(v, P) ==
    /\ v.type = "STRUCT" /\ v = StructOf(v.fields) /\ v.fields \in [DOMAIN v.fields -> P]
    /\ DOMAIN v.fields \subseteq STRING /\ IsFiniteSet(DOMAIN v.fields)

LEMMA ValueKinds ==
    ASSUME NEW v, NEW P, IsValue(v, P)
    PROVE  IsNil(v) \/ IsScalar(v) \/ IsArray(v, P) \/ IsStruct(v, P)
<1>1. CASE v = Nil
  <2>1. Nil.type = "NIL"
    BY Zenon, ScalarParts DEF Nil
  <2> QED
    BY <1>1, <2>1 DEF IsNil
<1>2. CASE v.type \in DOMAIN TagOf /\ v.text \in STRING /\ v = Scalar(v.type, v.text)
  BY <1>2 DEF IsScalar
<1>3. CASE v = ArrayOf(v.items) /\ v.items \in Seq(P)
  <2>1. v.type = "ARRAY"
    BY Zenon, <1>3, ContainerParts
  <2> QED
    BY <1>3, <2>1 DEF IsArray
<1>4. CASE /\ v = StructOf(v.fields) /\ v.fields \in [DOMAIN v.fields -> P]
           /\ DOMAIN v.fields \subseteq STRING /\ IsFiniteSet(DOMAIN v.fields)
  <2>1. v.type = "STRUCT"
    BY Zenon, <1>4, ContainerParts
  <2> QED
    BY <1>4, <2>1 DEF IsStruct
<1> QED
  BY <1>1, <1>2, <1>3, <1>4 DEF IsValue

LEMMA LevelFacts ==
    ASSUME NEW n \in Nat, NEW v \in Lower(n + 1), n + 1 <= Len(Levels)
    PROVE  IsValue(v, Lower(n)) /\ v \in Values
<1>1. PICK m \in 1..(n + 1) : v \in Levels[m]
  BY DEF Lower
<1>2. m \in DOMAIN Levels /\ m - 1 \in Nat /\ m - 1 <= n
  BY <1>1, ValuesAssumption
<1>3. IsValue(v, UNION {Levels[j] : j \in 1..(m - 1)})
  BY <1>1, <1>2, ValuesAssumption
<1>4. UNION {Levels[j] : j \in 1..(m - 1)} \subseteq Lower(n)
  BY <1>2 DEF Lower
<1>5. PICK P : P = UNION {Levels[j] : j \in 1..(m - 1)}
  OBVIOUS
<1>6. IsValue(v, P) /\ P \subseteq Lower(n)
  BY <1>3, <1>4, <1>5
<1>7. v.items \in Seq(P) => v.items \in Seq(Lower(n))
  BY <1>6
<1>8. v.fields \in [DOMAIN v.fields -> P] => v.fields \in [DOMAIN v.fields -> Lower(n)]
  BY <1>6
<1>9. v \in Values
  BY <1>1, <1>2 DEF Values
<1> QED
  BY <1>6, <1>7, <1>8, <1>9 DEF IsValue

LEMMA AllLevels ==
    /\ Values = Lower(Len(Levels)) /\ Len(Levels) \in Nat
    /\ \A v \in Values : IsValue(v, Values)
<1>1. Values = Lower(Len(Levels)) /\ Len(Levels) \in Nat
  BY ValuesAssumption DEF Values, Lower
<1>2. ASSUME NEW v \in Values PROVE IsValue(v, Values)
  <2>1. Len(Levels) # 0
    BY <1>1 DEF Lower
  <2>2. PICK n \in Nat : n + 1 = Len(Levels)
    <3>1. PICK k \in Nat : k = Len(Levels) /\ k # 0
      BY <1>1, <2>1
    <3>2. k - 1 \in Nat /\ (k - 1) + 1 = k
      BY <3>1
    <3> QED
      BY <3>1, <3>2
  <2>3. IsValue(v, Lower(n))
    BY <1>1, <2>2, LevelFacts
  <2>4. Lower(n) \subseteq Values
    BY <1>1, <2>2 DEF Lower
  <2>5. PICK P : P = Lower(n) /\ P \subseteq Values
    BY <2>4
  <2>6. v.items \in Seq(P) => v.items \in Seq(Values)
    BY <2>5
  <2>7. v.fields \in [DOMAIN v.fields -> P] => v.fields \in [DOMAIN v.fields -> Values]
    BY <2>5
  <2> QED
    BY <2>3, <2>5, <2>6, <2>7 DEF IsValue
<1> QED
  BY <1>1, <1>2

-----------------------------------------------------------------------------
\* What is written of the items and of the members of a value.
ItemsXml(v, X) == [i \in DOMAIN v.items |-> X[v.items[i]]]
Names(v) == SetToSeq(DOMAIN v.fields)
MemberXml(v, X, n) == Node("member", TextNode("name", n) \o X[v.fields[n]])
MembersXml(v, X) == [i \in DOMAIN Names(v) |-> MemberXml(v, X, Names(v)[i])]

LEMMA ArrayContent ==
    ASSUME NEW v, v.type = "ARRAY", NEW X, NEW server
    PROVE  Content(v, X, server) = Node("array", Node("data", Joined(ItemsXml(v, X))))
  BY DEF Content, ItemsXml

LEMMA StructContent ==
    ASSUME NEW v, v.type = "STRUCT", NEW X, NEW server
    PROVE  Content(v, X, server) = Node("struct", Joined(MembersXml(v, X)))
  BY DEF Content, MembersXml, MemberXml, Names

LEMMA ScalarContent ==
    ASSUME NEW v, v.type \in DOMAIN TagOf, NEW X, NEW server
    PROVE  \/ Content(v, X, server) = TextNode(TagOf[v.type], v.text)
           \/ v.type = "STRING" /\ Content(v, X, server) = TextData(v.text)
  BY TagFacts DEF Content

LEMMA NilContent ==
    ASSUME NEW v, v.type = "NIL", NEW X, NEW server
    PROVE  Content(v, X, server) = Node("nil", <<>>)
  BY DEF Content

\* The names of a struct, each once.
LEMMA NamesFacts ==
    ASSUME NEW v, IsFiniteSet(DOMAIN v.fields)
    PROVE  /\ Len(Names(v)) \in Nat /\ DOMAIN Names(v) = 1..Len(Names(v))
           /\ \A i \in 1..Len(Names(v)) : Names(v)[i] \in DOMAIN v.fields
           /\ \A n \in DOMAIN v.fields : \E i \in 1..Len(Names(v)) : Names(v)[i] = n
           /\ \A i, j \in 1..Len(Names(v)) : Names(v)[i] = Names(v)[j] => i = j
<1> DEFINE S == DOMAIN v.fields
           c == Cardinality(S)
<1>0. c \in Nat
  BY FS_CardinalityType
<1>1. \E f \in [1..c -> S] : IsInjective(f)
  <2>1. PICK n \in Nat : ExistsBijection(1..n, S)
    BY FS_NatBijection
  <2>2. n = c
    BY <2>1, FS_CountingElements
  <2>3. PICK f \in Bijection(1..n, S) : TRUE
    BY <2>1 DEF ExistsBijection
  <2> QED
    BY <2>2, <2>3 DEF Bijection, Injection, IsInjective
<1>2. PICK s : s = Names(v)
  OBVIOUS
<1>3. s \in [1..c -> S] /\ IsInjective(s)
  BY <1>1, <1>2 DEF SetToSeq, Names
<1>4. s \in Seq(S) /\ Len(s) = c
  BY <1>0, <1>3
<1>5. \A i, j \in 1..c : s[i] = s[j] => i = j
  BY <1>3 DEF IsInjective
<1>6. \A n \in S : \E i \in 1..c : s[i] = n
  <2>1. s \in Injection(1..c, S)
    BY <1>3, <1>5 DEF Injection
  <2>2. IsFiniteSet(1..c) /\ Cardinality(1..c) = c
    BY <1>0, FS_Interval
  <2>3. s \in Surjection(1..c, S)
    BY <2>1, <2>2, FS_Injection
  <2> QED
    BY <2>3 DEF Surjection
<1> QED
  BY <1>0, <1>2, <1>3, <1>4, <1>5, <1>6

LEMMA EventTypes ==
    ASSUME NEW t \in Strings
    PROVE  /\ Begin(t) \in AnyEvents /\ Empty(t) \in AnyEvents /\ End(t) \in AnyEvents
           /\ Text(t) \in AnyEvents /\ Space \in AnyEvents
<1>1. Begin(t) \in AnyEvents
  BY DEF Begin, AnyEvents
<1>2. Empty(t) \in AnyEvents
  BY DEF Empty, AnyEvents
<1>3. End(t) \in AnyEvents
  BY DEF End, AnyEvents
<1>4. Text(t) \in AnyEvents
  BY DEF Text, AnyEvents
<1>5. Space \in AnyEvents
  BY DEF Space, AnyEvents, Strings
<1> QED
  BY <1>1, <1>2, <1>3, <1>4, <1>5

LEMMA StreamFacts ==
    ASSUME NEW a \in Streams, NEW b \in Streams
    PROVE  a \o b \in Streams /\ <<>> \in Streams /\ <<>> \o b = b /\ a \o <<>> = a
<1>1. a \o b \in Streams
  BY DEF Streams
<1>2. <<>> \in Streams
  BY DEF Streams
<1>3. <<>> \o b = b /\ a \o <<>> = a
  BY ConcatEmptySeq DEF Streams
<1> QED
  BY <1>1, <1>2, <1>3

LEMMA StreamAssoc ==
    ASSUME NEW a \in Streams, NEW b \in Streams, NEW c \in Streams
    PROVE  (a \o b) \o c = a \o (b \o c)
  BY ConcatAssociative DEF Streams

LEMMA SingleStream ==
    ASSUME NEW e \in AnyEvents
    PROVE  <<e>> \in Streams
  BY DEF Streams

LEMMA EmptyStream == <<>> \in Streams
  BY DEF Streams

LEMMA NodeType ==
    ASSUME NEW t \in Strings, NEW c \in Streams
    PROVE  Node(t, c) \in Streams
<1>1. <<Begin(t)>> \in Streams /\ <<Empty(t)>> \in Streams /\ <<End(t)>> \in Streams
  BY EventTypes, SingleStream
<1>2. <<Begin(t)>> \o c \in Streams
  BY <1>1, StreamFacts
<1>3. <<Begin(t)>> \o c \o <<End(t)>> \in Streams
  BY <1>1, <1>2, StreamFacts
<1> QED
  BY <1>1, <1>3 DEF Node

LEMMA TextType ==
    ASSUME NEW s \in STRING, NEW t \in Strings
    PROVE  TextData(s) \in Streams /\ TextNode(t, s) \in Streams
<1>1. s \in Strings
  BY DEF Strings
<1>2. <<Text(s)>> \in Streams /\ <<Space>> \in Streams
  BY <1>1, EventTypes, SingleStream
<1>3. <<>> \in Streams
  BY DEF Streams
<1>4. TextData(s) \in Streams
  BY <1>2, <1>3 DEF TextData
<1> QED
  BY <1>4, NodeType DEF TextNode

LEMMA JoinedType ==
    ASSUME NEW parts \in Seq(Streams)
    PROVE  Joined(parts) \in Streams
<1>1. PICK k \in 0..Len(parts) : k = 0
  OBVIOUS
<1>2. From(parts, k) \in Streams
  BY FromType
<1>3. Len(parts) \in Nat
  OBVIOUS
<1> QED
  BY <1>1, <1>2, <1>3, FromStart

\* X[p] is a stream for every p in P.
Writes(X, P) == \A p \in P : X[p] \in Streams

LEMMA ItemsType ==
    ASSUME NEW P, NEW X, Writes(X, P), NEW v, IsArray(v, P)
    PROVE  ItemsXml(v, X) \in Seq(Streams) /\ Len(ItemsXml(v, X)) = Len(v.items)
<1>1. v.items \in Seq(P)
  BY DEF IsArray
<1>2. /\ Len(v.items) \in Nat /\ DOMAIN v.items = 1..Len(v.items)
      /\ \A i \in DOMAIN v.items : v.items[i] \in P
  BY <1>1
<1>3. PICK n \in Nat : n = Len(v.items)
  BY <1>2
<1>4. ItemsXml(v, X) \in [1..n -> Streams]
  BY <1>2, <1>3 DEF ItemsXml, Writes
<1> QED
  BY <1>3, <1>4

LEMMA MembersType ==
    ASSUME NEW P, NEW X, Writes(X, P), NEW v, IsStruct(v, P)
    PROVE  MembersXml(v, X) \in Seq(Streams) /\ Len(MembersXml(v, X)) = Len(Names(v))
<1>1. /\ Len(Names(v)) \in Nat /\ DOMAIN Names(v) = 1..Len(Names(v))
      /\ \A i \in 1..Len(Names(v)) : Names(v)[i] \in DOMAIN v.fields
  BY NamesFacts DEF IsStruct
<1>2. PICK m \in Nat : m = Len(Names(v))
  BY <1>1
<1>3. ASSUME NEW i \in 1..m PROVE MembersXml(v, X)[i] \in Streams
  <2>1. PICK n \in DOMAIN v.fields : n = Names(v)[i]
    BY <1>1, <1>2
  <2>2. v.fields[n] \in P /\ n \in STRING
    BY DEF IsStruct
  <2>3. X[v.fields[n]] \in Streams
    BY <2>2 DEF Writes
  <2>4. "name" \in Strings /\ "member" \in Strings
    BY DEF Strings, Tags
  <2>5. TextNode("name", n) \o X[v.fields[n]] \in Streams
    BY <2>2, <2>3, <2>4, TextType, StreamFacts
  <2>6. MemberXml(v, X, n) \in Streams
    BY <2>4, <2>5, NodeType DEF MemberXml
  <2>7. MembersXml(v, X)[i] = MemberXml(v, X, n)
    BY <1>1, <1>2, <2>1 DEF MembersXml
  <2> QED
    BY <2>6, <2>7
<1>4. PICK s : s = MembersXml(v, X)
  OBVIOUS
<1>5. s = [i \in 1..m |-> s[i]]
  BY <1>1, <1>2, <1>4 DEF MembersXml
<1>6. s \in [1..m -> Streams]
  BY <1>3, <1>4, <1>5
<1> QED
  BY <1>2, <1>4, <1>6

LEMMA ContentType ==
    ASSUME NEW P, NEW X, Writes(X, P), NEW v, IsValue(v, P), NEW server
    PROVE  Content(v, X, server) \in Streams
<1>0. "array" \in Strings /\ "data" \in Strings /\ "struct" \in Strings /\ "nil" \in Strings
  BY DEF Strings, Tags
<1>1. CASE IsNil(v)
  <2>1. <<>> \in Streams
    BY DEF Streams
  <2> QED
    BY <1>0, <1>1, <2>1, NilContent, NodeType DEF IsNil
<1>2. CASE IsScalar(v)
  <2>1. v.type \in DOMAIN TagOf /\ v.text \in STRING
    BY <1>2 DEF IsScalar
  <2>2. TagOf[v.type] \in Strings
    BY <2>1, TagFacts DEF Strings
  <2>3. TextData(v.text) \in Streams /\ TextNode(TagOf[v.type], v.text) \in Streams
    BY <2>1, <2>2, TextType
  <2> QED
    BY <2>1, <2>3, ScalarContent
<1>3. CASE IsArray(v, P)
  <2>1. Joined(ItemsXml(v, X)) \in Streams
    BY <1>3, ItemsType, JoinedType
  <2>2. Node("array", Node("data", Joined(ItemsXml(v, X)))) \in Streams
    BY <1>0, <2>1, NodeType
  <2> QED
    BY <1>3, <2>2, ArrayContent DEF IsArray
<1>4. CASE IsStruct(v, P)
  <2>1. Joined(MembersXml(v, X)) \in Streams
    BY <1>4, MembersType, JoinedType
  <2>2. Node("struct", Joined(MembersXml(v, X))) \in Streams
    BY <1>0, <2>1, NodeType
  <2> QED
    BY <1>4, <2>2, StructContent DEF IsStruct
<1> QED
  BY <1>1, <1>2, <1>3, <1>4, ValueKinds

\* What is written of a value depends on what is written of its parts.
LEMMA ContentOfParts ==
    ASSUME NEW P, NEW X, NEW Y, \A p \in P : X[p] = Y[p], NEW v, IsValue(v, P), NEW server
    PROVE  Content(v, X, server) = Content(v, Y, server)
<1>1. CASE IsNil(v)
  BY <1>1, NilContent DEF IsNil
<1>2. CASE IsScalar(v)
  BY <1>2, TagFacts DEF IsScalar, Content
<1>3. CASE IsArray(v, P)
  <2>1. \A i \in DOMAIN v.items : v.items[i] \in P
    BY <1>3 DEF IsArray
  <2>2. ItemsXml(v, X) = ItemsXml(v, Y)
    BY <2>1 DEF ItemsXml
  <2> QED
    BY <1>3, <2>2, ArrayContent DEF IsArray
<1>4. CASE IsStruct(v, P)
  <2>1. /\ DOMAIN Names(v) = 1..Len(Names(v))
        /\ \A i \in 1..Len(Names(v)) : Names(v)[i] \in DOMAIN v.fields
    BY <1>4, NamesFacts DEF IsStruct
  <2>2. \A n \in DOMAIN v.fields : v.fields[n] \in P
    BY <1>4 DEF IsStruct
  <2>3. \A n \in DOMAIN v.fields : MemberXml(v, X, n) = MemberXml(v, Y, n)
    BY <2>2 DEF MemberXml
  <2>4. MembersXml(v, X) = MembersXml(v, Y)
    BY <2>1, <2>3 DEF MembersXml
  <2> QED
    BY <1>4, <2>4, StructContent DEF IsStruct
<1> QED
  BY <1>1, <1>2, <1>3, <1>4, ValueKinds

\* X writes the values in S, server being the mode.
Xml(X, S, server) == \A v \in S : X[v] = Node("value", Content(v, X, server))

LEMMA XmlExists ==
    ASSUME NEW server
    PROVE  \E X : Xml(X, Values, server)
<1> DEFINE S == {n \in Nat : n <= Len(Levels) => \E X : Xml(X, Lower(n), server)}
<1>1. 0 \in S
  <2>1. Lower(0) = {}
    BY DEF Lower
  <2> QED
    BY <2>1 DEF Xml
<1>2. ASSUME NEW n \in S PROVE n + 1 \in S
  <2>1. n \in Nat /\ n + 1 \in Nat
    OBVIOUS
  <2>2. ASSUME n + 1 <= Len(Levels) PROVE \E X : Xml(X, Lower(n + 1), server)
    <3>1. PICK X : Xml(X, Lower(n), server)
      BY <2>1, <2>2, AllLevels
    <3> DEFINE Y == [v \in Lower(n + 1) |-> Node("value", Content(v, X, server))]
    <3>2. Lower(n) \subseteq Lower(n + 1)
      BY <2>1 DEF Lower
    <3>3. \A v \in Lower(n) : Y[v] = X[v]
      BY <3>1, <3>2 DEF Xml
    <3>4. \A v \in Lower(n + 1) : Y[v] = Node("value", Content(v, X, server))
      OBVIOUS
    <3> HIDE DEF Y
    <3>5. ASSUME NEW v \in Lower(n + 1) PROVE Y[v] = Node("value", Content(v, Y, server))
      <4>1. IsValue(v, Lower(n))
        BY <2>1, <2>2, LevelFacts
      <4>2. \A p \in Lower(n) : X[p] = Y[p]
        BY <3>3
      <4>3. Content(v, X, server) = Content(v, Y, server)
        BY <4>1, <4>2, ContentOfParts
      <4> QED
        BY <3>4, <4>3
    <3> QED
      BY <3>5 DEF Xml
  <2> QED
    BY <2>1, <2>2
<1>3. S = Nat
  <2>1. S \in SUBSET Nat
    OBVIOUS
  <2> HIDE DEF S
  <2> QED
    BY <1>1, <1>2, <2>1, NatInd
<1>4. Len(Levels) \in S
  BY <1>3, AllLevels
<1> QED
  BY <1>4, AllLevels

LEMMA ValueXmlUnfold ==
    ASSUME NEW server
    PROVE  Xml(ValueXml(server), Values, server)
<1> DEFINE xml[v \in Values] == Node("value", Content(v, xml, server))
<1>1. \E f : f = [v \in Values |-> Node("value", Content(v, f, server))]
  <2>1. PICK X : Xml(X, Values, server)
    BY XmlExists
  <2> DEFINE f == [v \in Values |-> X[v]]
  <2>2. ASSUME NEW v \in Values PROVE f[v] = Node("value", Content(v, f, server))
    <3>1. \A p \in Values : X[p] = f[p]
      OBVIOUS
    <3>2. IsValue(v, Values)
      BY AllLevels
    <3>3. f[v] = X[v]
      OBVIOUS
    <3> HIDE DEF f
    <3>4. Content(v, X, server) = Content(v, f, server)
      BY <3>1, <3>2, ContentOfParts
    <3> QED
      BY <2>1, <3>3, <3>4 DEF Xml
  <2>3. f = [v \in Values |-> f[v]]
    OBVIOUS
  <2> HIDE DEF f
  <2>4. f = [v \in Values |-> Node("value", Content(v, f, server))]
    BY <2>2, <2>3
  <2> QED
    BY <2>4
<1>2. xml = [v \in Values |-> Node("value", Content(v, xml, server))]
  BY <1>1
<1>3. ValueXml(server) = xml
  BY DEF ValueXml
<1> HIDE DEF xml
<1>4. ASSUME NEW v \in Values PROVE xml[v] = Node("value", Content(v, xml, server))
  BY <1>2
<1> QED
  BY <1>3, <1>4 DEF Xml

LEMMA XmlType ==
    ASSUME NEW X, NEW server, Xml(X, Values, server)
    PROVE  Writes(X, Values)
<1> DEFINE S == {n \in Nat : n <= Len(Levels) => Writes(X, Lower(n))}
<1>1. 0 \in S
  <2>1. Lower(0) = {}
    BY DEF Lower
  <2> QED
    BY <2>1 DEF Writes
<1>2. ASSUME NEW n \in S PROVE n + 1 \in S
  <2>1. n \in Nat /\ n + 1 \in Nat
    OBVIOUS
  <2>2. ASSUME n + 1 <= Len(Levels), NEW v \in Lower(n + 1) PROVE X[v] \in Streams
    <3>1. Writes(X, Lower(n))
      BY <2>1, <2>2, AllLevels
    <3>2. IsValue(v, Lower(n)) /\ v \in Values
      BY <2>1, <2>2, LevelFacts
    <3>3. Content(v, X, server) \in Streams
      BY <3>1, <3>2, ContentType
    <3>4. "value" \in Strings
      BY DEF Strings, Tags
    <3>5. Node("value", Content(v, X, server)) \in Streams
      BY <3>3, <3>4, NodeType
    <3> QED
      BY <3>2, <3>5 DEF Xml
  <2> QED
    BY <2>1, <2>2 DEF Writes
<1>3. S = Nat
  <2>1. S \in SUBSET Nat
    OBVIOUS
  <2> HIDE DEF S
  <2> QED
    BY <1>1, <1>2, <2>1, NatInd
<1>4. Len(Levels) \in S
  BY <1>3, AllLevels
<1> QED
  BY <1>4, AllLevels

-----------------------------------------------------------------------------
(* What is left to read *)

\* The events from the i-th on.
Onward(i) == SubSeq(doc.events, i + 1, Len(doc.events))

\* An event and what follows it.
Then(e, rest) == <<e>> \o rest

\* What the builders will be given from here on.
Left(r) ==
    IF r.back THEN Then(r.curr, Onward(r.pos))
    ELSE IF r.curr.empty THEN Then(End(r.curr.str), Onward(r.pos))
    ELSE Onward(r.pos)

\* What is left when e is read and not yet its end, should it be empty.
After(e, rest) == IF e.empty THEN Then(End(e.str), rest) ELSE rest

LEMMA FirstFacts ==
    ASSUME NEW e \in AnyEvents, NEW f \in AnyEvents, NEW a \in Streams, NEW b \in Streams,
           Then(e, a) = Then(f, b)
    PROVE  e = f /\ a = b
<1>0. <<e>> \o a = <<f>> \o b
  BY DEF Then
<1>1. <<e>> \in Seq(AnyEvents) /\ <<f>> \in Seq(AnyEvents)
  OBVIOUS
<1>2. (<<e>> \o a)[1] = e /\ (<<f>> \o b)[1] = f
  BY <1>1 DEF Streams
<1>3. e = f
  BY <1>0, <1>2
<1>4. <<e>> \o a = <<e>> \o b
  BY <1>0, <1>3
<1>5. a = b
  <2> DEFINE c == <<e>> \o a
             d == <<e>> \o b
  <2>1. /\ a \in Seq(AnyEvents) /\ Len(a) \in Nat /\ Len(c) = Len(a) + 1
        /\ \A i \in 1..Len(a) : c[i + 1] = a[i]
    BY <1>1 DEF Streams
  <2>2. /\ b \in Seq(AnyEvents) /\ Len(b) \in Nat /\ Len(d) = Len(b) + 1
        /\ \A i \in 1..Len(b) : d[i + 1] = b[i]
    BY <1>1 DEF Streams
  <2>3. c = d
    BY <1>4
  <2> HIDE DEF c, d
  <2>4. Len(a) = Len(b) /\ \A i \in 1..Len(a) : a[i] = b[i]
    BY <2>1, <2>2, <2>3
  <2> QED
    BY <2>1, <2>2, <2>4, SeqEqual
<1> QED
  BY <1>3, <1>5

LEMMA NotEmpty ==
    ASSUME NEW e \in AnyEvents, NEW a \in Streams
    PROVE  Then(e, a) # <<>> /\ Then(e, a) \in Streams
<1>1. Len(<<e>> \o a) = 1 + Len(a) /\ Len(a) \in Nat
  BY DEF Streams
<1>2. <<e>> \o a \in Streams
  BY DEF Streams
<1> QED
  BY <1>1, <1>2 DEF Then

LEMMA FirstOfRest ==
    ASSUME NEW s \in Streams, NEW i \in Nat, i < Len(s)
    PROVE  /\ s[i + 1] \in AnyEvents
           /\ SubSeq(s, i + 1, Len(s)) = <<s[i + 1]>> \o SubSeq(s, i + 2, Len(s))
<1>1. PICK n \in Nat : n = Len(s) /\ i < n
  BY DEF Streams
<1>2. i + 1 \in 1..n /\ s \in Seq(AnyEvents)
  BY <1>1 DEF Streams
<1>3. PICK x \in AnyEvents : x = s[i + 1]
  BY <1>1, <1>2
<1>4. PICK m \in Nat : n - i = m + 1
  <2>1. n - i - 1 \in Nat
    BY <1>1
  <2> QED
    BY <2>1
<1>5. PICK a : a = SubSeq(s, i + 1, n)
  OBVIOUS
<1>6. PICK t : t = SubSeq(s, i + 2, n)
  OBVIOUS
<1>7. a \in Seq(AnyEvents) /\ Len(a) = m + 1 /\ \A j \in 1..(m + 1) : a[j] = s[i + j]
  BY <1>1, <1>2, <1>4, <1>5
<1>8. t \in Seq(AnyEvents) /\ Len(t) = m /\ \A j \in 1..m : t[j] = s[i + 1 + j]
  BY <1>1, <1>2, <1>4, <1>6
<1>9. PICK c : c = <<x>> \o t
  OBVIOUS
<1>10. /\ c \in Seq(AnyEvents) /\ Len(c) = m + 1
       /\ \A j \in 1..(m + 1) : c[j] = IF j = 1 THEN x ELSE t[j - 1]
  BY <1>8, <1>9
<1>11. ASSUME NEW j \in 1..(m + 1) PROVE a[j] = c[j]
  <2>1. CASE j = 1
    BY <1>3, <1>7, <1>10, <2>1
  <2>2. CASE j # 1
    <3>1. PICK k \in 1..m : j = k + 1
      BY <2>2
    <3>2. a[j] = s[i + j]
      BY <1>7
    <3>3. c[j] = t[j - 1]
      BY <1>10, <2>2
    <3>4. j - 1 = k /\ i + 1 + k = i + j
      BY <3>1
    <3>5. t[k] = s[i + 1 + k]
      BY <1>8, <3>1
    <3> QED
      BY <3>2, <3>3, <3>4, <3>5
  <2> QED
    BY <2>1, <2>2
<1>12. a = c
  BY <1>7, <1>10, <1>11, SeqEqual
<1> QED
  BY <1>1, <1>3, <1>5, <1>6, <1>9, <1>12

LEMMA DocStream ==
    ASSUME doc \in Docs
    PROVE  doc.events \in Streams /\ Len(doc.events) \in Nat
<1>1. Events \subseteq AnyEvents
  BY DEF Events, AnyEvents, Strings
<1>2. PICK s : s = doc.events
  OBVIOUS
<1>3. s \in Seq(Events)
  BY <1>2, DocFacts
<1>4. s \in Seq(AnyEvents) /\ Len(s) \in Nat
  <2> HIDE DEF Events
  <2> QED
    BY <1>1, <1>3
<1> QED
  BY <1>2, <1>4 DEF Streams

LEMMA OnwardType ==
    ASSUME doc \in Docs, NEW i \in Nat, i <= Len(doc.events)
    PROVE  Onward(i) \in Streams
<1>1. PICK s \in Streams : s = doc.events /\ Len(s) \in Nat /\ i <= Len(s)
  BY DocStream
<1>2. SubSeq(s, i + 1, Len(s)) \in Streams
  BY <1>1 DEF Streams
<1> QED
  BY <1>1, <1>2 DEF Onward

LEMMA OnwardEnd ==
    ASSUME doc \in Docs
    PROVE  Onward(Len(doc.events)) = <<>>
<1>1. PICK s \in Streams : s = doc.events /\ Len(s) \in Nat
  BY DocStream
<1>2. SubSeq(s, Len(s) + 1, Len(s)) = <<>>
  BY <1>1 DEF Streams
<1> QED
  BY <1>1, <1>2 DEF Onward

LEMMA OnwardNext ==
    ASSUME doc \in Docs, NEW i \in Nat, i < Len(doc.events)
    PROVE  /\ doc.events[i + 1] \in AnyEvents /\ Onward(i + 1) \in Streams
           /\ Onward(i) = Then(doc.events[i + 1], Onward(i + 1))
<1>1. PICK s \in Streams : s = doc.events /\ Len(s) \in Nat /\ i < Len(s)
  BY DocStream
<1>2. s[i + 1] \in AnyEvents /\ SubSeq(s, i + 1, Len(s)) = <<s[i + 1]>> \o SubSeq(s, i + 2, Len(s))
  BY <1>1, FirstOfRest
<1>3. Onward(i) = SubSeq(s, i + 1, Len(s)) /\ Onward(i + 1) = SubSeq(s, i + 2, Len(s))
  BY <1>1 DEF Onward
<1>4. Onward(i + 1) \in Streams
  BY <1>1, OnwardType
<1> QED
  BY <1>1, <1>2, <1>3, <1>4 DEF Then

\* A reader whose last event is one of the document's.
Known(r) == r.curr.str \in Strings /\ (r.back => r.curr \in AnyEvents)

LEMMA LeftType ==
    ASSUME doc \in Docs, NEW r, ReaderOK(r), Known(r)
    PROVE  Left(r) \in Streams
<1>1. Onward(r.pos) \in Streams
  BY OnwardType DEF ReaderOK, IsReader
<1>2. Then(End(r.curr.str), Onward(r.pos)) \in Streams
  BY <1>1, EventTypes, NotEmpty DEF Known
<1>3. r.back => Then(r.curr, Onward(r.pos)) \in Streams
  BY <1>1, NotEmpty DEF Known
<1> QED
  BY <1>1, <1>2, <1>3 DEF Left

\* Reading takes the first event of what is left.
LEMMA LeftNext ==
    ASSUME doc \in Docs, NEW q, ReaderOK(q), Known(q), NEW r, r = Read(q),
           NEW e \in AnyEvents, e.ev # "bad", NEW rest \in Streams, Left(q) = Then(e, rest)
    PROVE  /\ r.curr = e /\ ReaderOK(r) /\ Known(r) /\ ~r.back
           /\ Left(r) = After(e, rest)
<1>0. /\ IsReader(q) /\ q.pos \in Nat /\ Len(doc.events) \in Nat /\ q.pos <= Len(doc.events)
      /\ q.curr.empty => q.curr.ev = "begin"
      /\ q.back => q.curr.ev = "end" /\ ~q.curr.empty /\ q.curr \in AnyEvents
      /\ Onward(q.pos) \in Streams /\ End(q.curr.str) \in AnyEvents /\ e.str \in Strings
  <2>1. e.str \in Strings
    BY DEF AnyEvents
  <2> QED
    BY <2>1, DocFacts, OnwardType, EventTypes DEF ReaderOK, IsReader, Known
<1>1. CASE q.back
  <2>1. r = [q EXCEPT !.back = FALSE]
    BY <1>1 DEF Read
  <2>2. r.pos = q.pos /\ r.curr = q.curr /\ ~r.back
    BY <1>0, <2>1 DEF IsReader
  <2>3. Then(q.curr, Onward(q.pos)) = Then(e, rest)
    BY <1>1 DEF Left
  <2>4. q.curr = e /\ Onward(q.pos) = rest
    <3>1. PICK f \in AnyEvents, a \in Streams : f = q.curr /\ a = Onward(q.pos)
      BY <1>0, <1>1
    <3>2. Then(f, a) = Then(e, rest)
      BY <2>3, <3>1
    <3>3. f = e /\ a = rest
      BY <3>2, FirstFacts
    <3> QED
      BY <3>1, <3>3
  <2>5. Left(r) = rest
    BY <1>0, <1>1, <2>2, <2>4 DEF Left
  <2> QED
    BY <1>0, <1>1, <2>2, <2>4, <2>5, ReadFacts DEF Known, After
<1>2. CASE ~q.back /\ q.curr.empty
  <2>1. r = [q EXCEPT !.curr = End(q.curr.str)]
    BY <1>2 DEF Read
  <2>2. r.pos = q.pos /\ r.curr = End(q.curr.str) /\ ~r.back
    BY <1>0, <1>2, <2>1 DEF IsReader
  <2>3. Then(End(q.curr.str), Onward(q.pos)) = Then(e, rest)
    BY <1>2 DEF Left
  <2>4. End(q.curr.str) = e /\ Onward(q.pos) = rest
    <3>1. PICK f \in AnyEvents, a \in Streams : f = End(q.curr.str) /\ a = Onward(q.pos)
      BY <1>0
    <3>2. Then(f, a) = Then(e, rest)
      BY <2>3, <3>1
    <3>3. f = e /\ a = rest
      BY <3>2, FirstFacts
    <3> QED
      BY <3>1, <3>3
  <2>5. ~e.empty
    BY <2>4, EndFacts
  <2>6. Left(r) = rest
    BY <2>2, <2>4, <2>5 DEF Left
  <2> QED
    BY <1>0, <2>2, <2>4, <2>5, <2>6, ReadFacts DEF Known, After
<1>3. CASE ~q.back /\ ~q.curr.empty
  <2>1. Onward(q.pos) = Then(e, rest)
    BY <1>3 DEF Left
  <2>2. q.pos < Len(doc.events)
    <3>1. Onward(q.pos) # <<>>
      BY <2>1, NotEmpty
    <3>2. q.pos # Len(doc.events)
      BY <3>1, OnwardEnd
    <3> QED
      BY <1>0, <3>2
  <2>3. r = [q EXCEPT !.pos = @ + 1, !.curr = doc.events[q.pos + 1]]
    BY <1>0, <1>3, <2>2 DEF Read
  <2>4. r.pos = q.pos + 1 /\ r.curr = doc.events[q.pos + 1] /\ r.back = q.back
    BY <1>0, <2>3 DEF IsReader
  <2>5. Then(doc.events[q.pos + 1], Onward(q.pos + 1)) = Then(e, rest)
    BY <1>0, <2>1, <2>2, OnwardNext
  <2>6. doc.events[q.pos + 1] \in AnyEvents /\ Onward(q.pos + 1) \in Streams
    BY <1>0, <2>2, OnwardNext
  <2>7. doc.events[q.pos + 1] = e /\ Onward(q.pos + 1) = rest
    <3>1. PICK f \in AnyEvents, a \in Streams : f = doc.events[q.pos + 1] /\ a = Onward(q.pos + 1)
      BY <2>6
    <3>2. Then(f, a) = Then(e, rest)
      BY <2>5, <3>1
    <3>3. f = e /\ a = rest
      BY <3>2, FirstFacts
    <3> QED
      BY <3>1, <3>3
  <2>8. Left(r) = After(e, rest)
    BY <1>3, <2>4, <2>7 DEF Left, After
  <2> QED
    BY <1>0, <1>3, <2>4, <2>7, <2>8, ReadFacts DEF Known, After
<1> QED
  BY <1>1, <1>2, <1>3

\* Nothing is left.
LEMMA LeftNothing ==
    ASSUME doc \in Docs, NEW q, ReaderOK(q), Known(q), NEW r, r = Read(q), Left(q) = <<>>
    PROVE  r.curr.ev = "done" /\ Known(r)
<1>0. /\ IsReader(q) /\ q.pos \in Nat /\ Len(doc.events) \in Nat /\ q.pos <= Len(doc.events)
      /\ q.back => q.curr \in AnyEvents
      /\ Onward(q.pos) \in Streams /\ End(q.curr.str) \in AnyEvents
  BY DocFacts, OnwardType, EventTypes DEF ReaderOK, IsReader, Known
<1>1. ~q.back
  BY <1>0, NotEmpty DEF Left
<1>2. ~q.curr.empty
  BY <1>0, <1>1, NotEmpty DEF Left
<1>3. Onward(q.pos) = <<>>
  BY <1>1, <1>2 DEF Left
<1>4. q.pos = Len(doc.events)
  <2>1. ASSUME q.pos < Len(doc.events) PROVE FALSE
    <3>1. /\ doc.events[q.pos + 1] \in AnyEvents /\ Onward(q.pos + 1) \in Streams
          /\ Onward(q.pos) = Then(doc.events[q.pos + 1], Onward(q.pos + 1))
      BY <1>0, <2>1, OnwardNext
    <3> QED
      BY <1>3, <3>1, NotEmpty
  <2> QED
    BY <1>0, <2>1
<1>5. r = [q EXCEPT !.curr = Done]
  BY <1>1, <1>2, <1>4 DEF Read
<1>6. r.curr = Done /\ r.back = q.back
  BY <1>0, <1>5 DEF IsReader
<1>7. Done.str \in Strings
  BY DEF Done, Strings
<1> QED
  BY <1>1, <1>6, <1>7, DoneFacts DEF Known

\* An end tag that is put back is left again.
LEMMA LeftAgain ==
    ASSUME doc \in Docs, NEW q, ReaderOK(q), Known(q), NEW r, r = Read(q),
           NEW t \in Strings, NEW rest \in Streams, Left(q) = Then(End(t), rest),
           NEW p, p = [r EXCEPT !.back = TRUE]
    PROVE  Left(p) = Left(q) /\ Known(p)
<1>1. End(t) \in AnyEvents /\ End(t).ev = "end" /\ ~End(t).empty
  BY EventTypes, EndFacts
<1>2. r.curr = End(t) /\ ReaderOK(r) /\ Known(r) /\ ~r.back /\ Left(r) = rest
  <2>1. PICK e \in AnyEvents : e = End(t)
    BY <1>1
  <2>2. e.ev # "bad" /\ ~e.empty /\ Left(q) = Then(e, rest)
    BY <1>1, <2>1
  <2>3. /\ r.curr = e /\ ReaderOK(r) /\ Known(r) /\ ~r.back
        /\ Left(r) = After(e, rest)
    BY <2>2, LeftNext
  <2> QED
    BY <2>1, <2>2, <2>3 DEF After
<1>3. p.pos = r.pos /\ p.curr = r.curr /\ p.back
  BY <1>2 DEF ReaderOK, IsReader
<1>4. Onward(r.pos) = rest
  BY <1>1, <1>2 DEF Left
<1>5. Left(p) = Then(End(t), rest)
  BY <1>2, <1>3, <1>4 DEF Left
<1> QED
  BY <1>1, <1>2, <1>3, <1>5 DEF Known

\* A stream and what follows it; the end of an element and what follows it.
Before(c, rest) == c \o rest
Closing(t, rest) == Then(End(t), rest)

LEMMA BeforeType ==
    ASSUME NEW c \in Streams, NEW rest \in Streams
    PROVE  Before(c, rest) \in Streams
  BY StreamFacts DEF Before

LEMMA BeforeNothing ==
    ASSUME NEW rest \in Streams
    PROVE  Before(<<>>, rest) = rest
<1>0. <<>> \in Seq(AnyEvents)
  OBVIOUS
<1>2. <<>> \o rest = rest
  BY StreamFacts
<1> QED
  BY <1>2 DEF Before

LEMMA BeforeAssoc ==
    ASSUME NEW a \in Streams, NEW b \in Streams, NEW rest \in Streams
    PROVE  Before(a \o b, rest) = Before(a, Before(b, rest))
  BY StreamAssoc DEF Before

LEMMA ClosingType ==
    ASSUME NEW t \in Strings, NEW rest \in Streams
    PROVE  Closing(t, rest) \in Streams
<1>1. PICK e \in AnyEvents : e = End(t)
  BY EventTypes
<1>2. Then(e, rest) \in Streams
  BY NotEmpty
<1> QED
  BY <1>1, <1>2 DEF Closing

LEMMA BeginFacts ==
    ASSUME NEW t
    PROVE  /\ Begin(t).ev = "begin" /\ Begin(t).str = t /\ Begin(t).empty = FALSE
           /\ Empty(t).ev = "begin" /\ Empty(t).str = t /\ Empty(t).empty = TRUE
           /\ Text(t).ev = "text" /\ Text(t).str = t /\ Text(t).empty = FALSE
           /\ End(t).ev = "end" /\ End(t).str = t /\ End(t).empty = FALSE
<1>1. Begin(t).ev = "begin" /\ Begin(t).str = t /\ Begin(t).empty = FALSE
  BY DEF Begin
<1>2. Empty(t).ev = "begin" /\ Empty(t).str = t /\ Empty(t).empty = TRUE
  BY DEF Empty
<1>3. Text(t).ev = "text" /\ Text(t).str = t /\ Text(t).empty = FALSE
  BY DEF Text
<1>4. End(t).ev = "end" /\ End(t).str = t /\ End(t).empty = FALSE
  BY DEF End
<1> QED
  BY <1>1, <1>2, <1>3, <1>4

\* A reader in a document, and one that has read an event, with what is left then.
Reading(q) == doc \in Docs /\ ReaderOK(q) /\ Known(q)
HasRead(r, ev, str, rest) ==
    /\ r.curr.ev = ev /\ r.curr.str = str
    /\ Reading(r) /\ ~r.back /\ Left(r) = rest

LEMMA BeforeBefore ==
    ASSUME NEW a \in Streams, NEW b \in Streams, NEW c \in Streams
    PROVE  Before(Before(a, b), c) = Before(a, Before(b, c))
  BY StreamAssoc DEF Before

LEMMA FourStreams ==
    ASSUME NEW a \in Streams, NEW b \in Streams, NEW c \in Streams, NEW d \in Streams
    PROVE  Before(Before(Before(a, b), c), d) = Before(a, Before(b, Before(c, d)))
<1>1. PICK u \in Streams : u = Before(a, b)
  BY BeforeType
<1>2. PICK w \in Streams : w = Before(c, d)
  BY BeforeType
<1>3. Before(Before(u, c), d) = Before(u, w)
  BY <1>2, BeforeBefore
<1>4. Before(Before(a, b), w) = Before(a, Before(b, w))
  BY BeforeBefore
<1> QED
  BY <1>1, <1>2, <1>3, <1>4

\* An element starts.
LEMMA BeginRead ==
    ASSUME NEW q, Reading(q), NEW t \in Strings, NEW c \in Streams, NEW rest \in Streams,
           Left(q) = Before(Node(t, c), rest)
    PROVE  HasRead(Read(q), "begin", t, Before(c, Closing(t, rest)))
<1>0. PICK r : r = Read(q)
  OBVIOUS
<1>1. Begin(t) \in AnyEvents /\ Empty(t) \in AnyEvents /\ Closing(t, rest) \in Streams
  BY EventTypes, ClosingType
<1>2. CASE c = <<>>
  <2>1. PICK e \in AnyEvents : e = Empty(t)
    BY <1>1
  <2>2. e.ev = "begin" /\ e.str = t /\ e.empty
    BY <2>1, BeginFacts
  <2>3. Left(q) = Then(e, rest)
    BY <1>2, <2>1 DEF Node, Before, Then
  <2>4. r.curr = e /\ ReaderOK(r) /\ Known(r) /\ ~r.back /\ Left(r) = After(e, rest)
    <3>1. e.ev # "bad" /\ doc \in Docs /\ ReaderOK(q) /\ Known(q)
      BY <2>2 DEF Reading
    <3> QED
      BY <1>0, <2>3, <3>1, LeftNext
  <2>5. After(e, rest) = Closing(t, rest)
    BY <2>2 DEF After, Closing
  <2>6. Before(c, Closing(t, rest)) = Closing(t, rest)
    BY <1>1, <1>2, BeforeNothing
  <2> QED
    BY <1>0, <2>2, <2>4, <2>5, <2>6 DEF HasRead, Reading
<1>3. CASE c # <<>>
  <2>1. PICK e \in AnyEvents : e = Begin(t)
    BY <1>1
  <2>2. e.ev = "begin" /\ e.str = t /\ ~e.empty
    BY <2>1, BeginFacts
  <2>3. PICK s \in Streams : s = Before(c, Closing(t, rest))
    BY <1>1, BeforeType
  <2>4. Left(q) = Then(e, s)
    <3>1. PICK a \in Streams, z \in Streams : a = <<e>> /\ z = <<End(t)>>
      BY EventTypes, SingleStream
    <3>2. Node(t, c) = (a \o c) \o z
      BY <1>3, <2>1, <3>1 DEF Node
    <3>3. Before(Before(Before(a, c), z), rest) = Before(a, Before(c, Before(z, rest)))
      BY FourStreams
    <3>6. z \o rest = Closing(t, rest)
      BY <3>1 DEF Closing, Then
    <3>7. Left(q) = a \o s
      BY <2>3, <3>2, <3>3, <3>6 DEF Before
    <3> QED
      BY <3>1, <3>7 DEF Then
  <2>5. r.curr = e /\ ReaderOK(r) /\ Known(r) /\ ~r.back /\ Left(r) = After(e, s)
    <3>1. e.ev # "bad" /\ doc \in Docs /\ ReaderOK(q) /\ Known(q)
      BY <2>2 DEF Reading
    <3> QED
      BY <1>0, <2>4, <3>1, LeftNext
  <2>6. After(e, s) = s
    BY <2>2 DEF After
  <2> QED
    BY <1>0, <2>2, <2>3, <2>5, <2>6 DEF HasRead, Reading
<1> QED
  BY <1>2, <1>3

\* An element ends.
LEMMA EndRead ==
    ASSUME NEW q, Reading(q), NEW t \in Strings, NEW rest \in Streams, Left(q) = Closing(t, rest)
    PROVE  HasRead(Read(q), "end", t, rest)
<1>0. PICK r : r = Read(q)
  OBVIOUS
<1>1. PICK e \in AnyEvents : e = End(t)
  BY EventTypes
<1>2. e.ev = "end" /\ e.str = t /\ ~e.empty
  BY <1>1, BeginFacts
<1>3. Left(q) = Then(e, rest)
  BY <1>1 DEF Closing
<1>4. r.curr = e /\ ReaderOK(r) /\ Known(r) /\ ~r.back /\ Left(r) = After(e, rest)
  <2>1. e.ev # "bad" /\ doc \in Docs /\ ReaderOK(q) /\ Known(q)
    BY <1>2 DEF Reading
  <2> QED
    BY <1>0, <1>3, <2>1, LeftNext
<1>5. After(e, rest) = rest
  BY <1>2 DEF After
<1> QED
  BY <1>0, <1>2, <1>4, <1>5 DEF HasRead, Reading

\* A text that is neither empty nor blank.
LEMMA TextRead ==
    ASSUME NEW q, Reading(q), NEW s \in STRING \ Blank, s # "", NEW rest \in Streams,
           Left(q) = Before(TextData(s), rest)
    PROVE  HasRead(Read(q), "text", s, rest)
<1>0. PICK r : r = Read(q)
  OBVIOUS
<1>1. PICK e \in AnyEvents : e = Text(s)
  <2>1. s \in Strings
    BY DEF Strings
  <2> QED
    BY <2>1, EventTypes
<1>2. e.ev = "text" /\ e.str = s /\ ~e.empty
  BY <1>1, BeginFacts
<1>3. Left(q) = Then(e, rest)
  BY <1>1 DEF Before, TextData, Then
<1>4. r.curr = e /\ ReaderOK(r) /\ Known(r) /\ ~r.back /\ Left(r) = After(e, rest)
  <2>1. e.ev # "bad" /\ doc \in Docs /\ ReaderOK(q) /\ Known(q)
    BY <1>2 DEF Reading
  <2> QED
    BY <1>0, <1>3, <2>1, LeftNext
<1>5. After(e, rest) = rest
  BY <1>2 DEF After
<1> QED
  BY <1>0, <1>2, <1>4, <1>5 DEF HasRead, Reading

LEMMA NoText ==
    ASSUME NEW rest \in Streams
    PROVE  Before(TextData(""), rest) = rest
  BY BeforeNothing DEF TextData

\* The parts of a stream one by one.
LEMMA FromSplit ==
    ASSUME NEW parts \in Seq(Streams), NEW k \in Nat, k < Len(parts), NEW rest \in Streams
    PROVE  Before(From(parts, k), rest) = Before(parts[k + 1], Before(From(parts, k + 1), rest))
<1>1. Len(parts) \in Nat /\ parts[k + 1] \in Streams
  <2>1. k + 1 \in 1..Len(parts)
    OBVIOUS
  <2> QED
    BY <2>1
<1>2. PICK a \in Streams : a = parts[k + 1]
  BY <1>1
<1>3. PICK b \in Streams : b = From(parts, k + 1)
  <2>1. PICK j \in 0..Len(parts) : j = k + 1
    BY <1>1
  <2>2. From(parts, j) \in Streams
    BY FromType
  <2> QED
    BY <2>1, <2>2
<1>4. From(parts, k) = a \o b
  BY <1>1, <1>2, <1>3, FromNext
<1>5. Before(a \o b, rest) = Before(a, Before(b, rest))
  BY BeforeAssoc
<1> QED
  BY <1>2, <1>3, <1>4, <1>5

LEMMA FromLast ==
    ASSUME NEW parts \in Seq(Streams), NEW rest \in Streams
    PROVE  Before(From(parts, Len(parts)), rest) = rest
<1>1. Len(parts) \in Nat
  OBVIOUS
<1> QED
  BY <1>1, FromEnd, BeforeNothing

-----------------------------------------------------------------------------
(* What the steps do *)

\* Which step there is, by the event that is next.
LEMMA Guards ==
    /\ VisitElement => ~Top.exit /\ Read(reader).curr.ev = "begin"
    /\ PushBack => ~Top.exit /\ Read(reader).curr.ev = "end" /\ Top.depth = 0
    /\ VisitElementEnd => ~Top.exit /\ Read(reader).curr.ev = "end" /\ Top.depth > 0
    /\ VisitText => ~Top.exit /\ Read(reader).curr.ev = "text" /\ Top.kind = "Value"
    /\ Ignore => ~Top.exit /\ (\/ Read(reader).curr.ev = "space"
                               \/ Read(reader).curr.ev = "text" /\ Top.kind # "Value")
    /\ IllFormed => ~Top.exit /\ Read(reader).curr.ev = "bad"
    /\ EndOfDocument => ~Top.exit /\ Read(reader).curr.ev = "done"
    /\ SubBuilt => Top.exit /\ Len(stack) > 1
    /\ RootBuilt => Top.exit /\ Len(stack) = 1
<1>1. VisitElement => ~Top.exit /\ Read(reader).curr.ev = "begin"
  BY DEF VisitElement
<1>2. PushBack => ~Top.exit /\ Read(reader).curr.ev = "end" /\ Top.depth = 0
  BY DEF PushBack
<1>3. VisitElementEnd => ~Top.exit /\ Read(reader).curr.ev = "end" /\ Top.depth > 0
  BY DEF VisitElementEnd
<1>4. VisitText => ~Top.exit /\ Read(reader).curr.ev = "text" /\ Top.kind = "Value"
  BY DEF VisitText
<1>5. Ignore => ~Top.exit /\ (\/ Read(reader).curr.ev = "space"
                              \/ Read(reader).curr.ev = "text" /\ Top.kind # "Value")
  BY DEF Ignore
<1>6. IllFormed => ~Top.exit /\ Read(reader).curr.ev = "bad"
  BY DEF IllFormed
<1>7. EndOfDocument => ~Top.exit /\ Read(reader).curr.ev = "done"
  BY DEF EndOfDocument
<1>8. SubBuilt => Top.exit /\ Len(stack) > 1
  BY DEF SubBuilt
<1>9. RootBuilt => Top.exit /\ Len(stack) = 1
  BY DEF RootBuilt
<1> QED
  BY <1>1, <1>2, <1>3, <1>4, <1>5, <1>6, <1>7, <1>8, <1>9

\* A step of a parse whose last builder has not returned.
Running == IInv /\ Next /\ outcome = "parsing" /\ ~Top.exit /\ Reading(reader)

LEMMA StepOf ==
    ASSUME Running, NEW ev, Read(reader).curr.ev = ev
    PROVE  /\ ev = "begin" => VisitElement
           /\ ev = "end" /\ Top.depth = 0 => PushBack
           /\ ev = "end" /\ Top.depth > 0 => VisitElementEnd
           /\ ev = "text" /\ Top.kind = "Value" => VisitText
           /\ ev = "done" => EndOfDocument
<1>1. \/ VisitElement \/ PushBack \/ VisitElementEnd \/ VisitText \/ Ignore
      \/ IllFormed \/ EndOfDocument \/ SubBuilt \/ RootBuilt
  BY DEF Running, Next
<1>2. ~Top.exit
  BY DEF Running
<1> QED
  BY <1>1, <1>2, Guards

LEMMA StepAfterExit ==
    ASSUME IInv, Next, Top.exit
    PROVE  /\ Len(stack) > 1 => SubBuilt
           /\ Len(stack) = 1 => RootBuilt
<1>1. \/ VisitElement \/ PushBack \/ VisitElementEnd \/ VisitText \/ Ignore
      \/ IllFormed \/ EndOfDocument \/ SubBuilt \/ RootBuilt
  BY DEF Next
<1>2. SubBuilt \/ RootBuilt
  BY <1>1, Guards
<1>3. ~(Len(stack) > 1 /\ Len(stack) = 1)
  BY TopFacts
<1> QED
  BY <1>2, <1>3, Guards

\* All begin tags `tag' in f's state lead to s.
Leads(f, tag, s) == Change(f, tag) # {} /\ \A t \in Change(f, tag) : t[3] = s

\* The reader is after an event, and rest is left.
NowLeft(rest) == Reading(reader') /\ Left(reader') = rest

\* f goes on in state s, one element deeper.
Deeper(m, f, s) ==
    /\ IsFrame(m) /\ m.kind = f.kind /\ m.depth = f.depth + 1 /\ m.state = s
    /\ ~m.exit /\ m.val = f.val /\ m.name = f.name /\ m.member = f.member

LEMMA DeeperFacts ==
    ASSUME NEW f, IsFrame(f), ~f.exit, NEW tag, NEW s, Leads(f, tag, s),
           NEW t \in Change(f, tag), NEW m, m = Moved(f, t)
    PROVE  Deeper(m, f, s)
<1>1. IsFrame(m) /\ m.kind = f.kind /\ m.depth = f.depth + 1 /\ m.state = t[3] /\ ~m.exit /\ m.val = f.val
  BY MoveFacts
<1>2. m.name = f.name /\ m.member = f.member
  BY DEF IsFrame, Fields, Moved
<1>3. t[3] = s
  BY DEF Leads
<1> QED
  BY <1>1, <1>2, <1>3 DEF Deeper

\* The last builder goes on as f.
Stays(f) == stack' = Replace(f) /\ IsFrame(f) /\ UNCHANGED <<doc, outcome>>

LEMMA MoveStep ==
    ASSUME Running, NEW t, NEW rest, HasRead(Read(reader), "begin", t, rest),
           NEW s, Leads(Top, t, s),
           s \notin {"NIL", "METHOD_NAME", "NAME_READ", "STRUCT", "ARRAY", "VALUE", "OK_PARAM_VALUE",
                     "FAULT_RESPONSE_VALUE", "VALUE_READ", "VALUES"}
    PROVE  \E m : Deeper(m, Top, s) /\ Stays(m) /\ built' = built /\ NowLeft(rest)
<1>1. PICK r : r = Read(reader)
  OBVIOUS
<1>2. r.curr.ev = "begin" /\ r.curr.str = t /\ Reading(r) /\ Left(r) = rest
  BY <1>1 DEF HasRead
<1>3. VisitElement /\ IsFrame(Top) /\ ~Top.exit
  BY <1>1, <1>2, StepOf, TopFacts DEF Running
<1>4. PICK c \in Change(Top, t) :
         LET moved == [Top EXCEPT !.depth = @ + 1, !.state = c[3]] IN
           ~IsName(moved) /\ c[3] # "NIL" /\ Starts(moved) = Absent =>
             reader' = r /\ stack' = Replace(moved) /\ UNCHANGED <<doc, built, outcome>>
  BY <1>1, <1>2, <1>3 DEF VisitElement, Leads
<1>5. PICK m : m = Moved(Top, c)
  OBVIOUS
<1>6. Deeper(m, Top, s) /\ c[3] = s
  BY <1>3, <1>5, DeeperFacts DEF Leads
<1>7. m = [Top EXCEPT !.depth = @ + 1, !.state = c[3]]
  BY <1>5 DEF Moved
<1>8. m.state = s
  BY <1>6 DEF Deeper
<1>9. ~IsName(m)
  BY <1>8 DEF IsName
<1>10. Starts(m) = Absent
  BY <1>8 DEF Starts
<1>11. reader' = r /\ stack' = Replace(m) /\ UNCHANGED <<doc, built, outcome>>
  BY <1>4, <1>6, <1>7, <1>9, <1>10
<1> QED
  BY <1>2, <1>6, <1>11 DEF Stays, NowLeft, Deeper

\* sub_build()
LEMMA CallStep ==
    ASSUME Running, NEW t, NEW rest, HasRead(Read(reader), "begin", t, rest),
           NEW s, Leads(Top, t, s),
           s \in {"STRUCT", "ARRAY", "VALUE", "OK_PARAM_VALUE",
                  "FAULT_RESPONSE_VALUE", "VALUE_READ", "VALUES"}
    PROVE  \E m : /\ Deeper(m, Top, s) /\ Pushed(m, Builder(Starts(m), IsFlat(m)))
                  /\ UNCHANGED <<doc, built, outcome>> /\ NowLeft(rest)
<1>1. PICK r : r = Read(reader)
  OBVIOUS
<1>2. r.curr.ev = "begin" /\ r.curr.str = t /\ Reading(r) /\ Left(r) = rest
  BY <1>1 DEF HasRead
<1>3. VisitElement /\ IsFrame(Top) /\ ~Top.exit
  BY <1>1, <1>2, StepOf, TopFacts DEF Running
<1>4. PICK c \in Change(Top, t) :
         LET moved == [Top EXCEPT !.depth = @ + 1, !.state = c[3]] IN
           ~IsName(moved) /\ c[3] # "NIL" /\ Starts(moved) # Absent =>
             /\ reader' = r
             /\ stack' = Append(Replace(moved), Builder(Starts(moved), IsFlat(moved)))
             /\ UNCHANGED <<doc, built, outcome>>
  BY <1>1, <1>2, <1>3 DEF VisitElement, Leads
<1>5. PICK m : m = Moved(Top, c)
  OBVIOUS
<1>6. Deeper(m, Top, s) /\ c[3] = s
  BY <1>3, <1>5, DeeperFacts DEF Leads
<1>7. m = [Top EXCEPT !.depth = @ + 1, !.state = c[3]]
  BY <1>5 DEF Moved
<1>8. m.state = s
  BY <1>6 DEF Deeper
<1>9. ~IsName(m)
  BY <1>8 DEF IsName
<1>10. Starts(m) # Absent
  BY <1>8 DEF Starts, Absent
<1>11. PICK g : g = Builder(Starts(m), IsFlat(m))
  OBVIOUS
<1>12. PICK q : q = Replaced(stack, m)
  OBVIOUS
<1>13. /\ reader' = r /\ stack' = Append(q, g)
       /\ UNCHANGED <<doc, built, outcome>>
  BY <1>4, <1>6, <1>7, <1>9, <1>10, <1>11, <1>12 DEF Replace, Replaced
<1>14. Pushed(m, g)
  <2>1. IsSequence(stack) /\ Len(stack) > 0
    BY DEF Running, IInv, StackOK
  <2>2. /\ IsSequence(Append(q, g)) /\ Len(Append(q, g)) = Len(stack) + 1
        /\ Append(q, g)[Len(stack) + 1] = g /\ Append(q, g)[Len(stack)] = m
        /\ \A i \in 1..(Len(stack) - 1) : Append(q, g)[i] = stack[i]
    BY <1>12, <2>1, PushedFacts
  <2> QED
    BY <1>13, <2>2 DEF Pushed
<1> QED
  BY <1>2, <1>6, <1>11, <1>13, <1>14 DEF NowLeft

\* f goes on in state s, one element deeper, with the name n.
Named(m, f, s, n) ==
    /\ IsFrame(m) /\ m.kind = f.kind /\ m.depth = f.depth + 1 /\ m.state = s
    /\ ~m.exit /\ m.val = f.val /\ m.name = n /\ m.member = f.member

\* The name n is read, with its end if it is empty.
LEMMA DataFacts ==
    ASSUME NEW r, Reading(r), NEW t \in Strings, NEW n \in STRING \ Blank, NEW rest \in Streams,
           Left(r) = Before(TextData(n), Closing(t, rest))
    PROVE  /\ DataRead(r) /\ DataText(r) = n
           /\ Reading(Read(r))
           /\ \/ Left(Read(r)) = Closing(t, rest)
              \/ n = "" /\ Left(Read(r)) = rest
<1>1. Closing(t, rest) \in Streams
  BY ClosingType
<1>2. CASE n = ""
  <2>1. Left(r) = Closing(t, rest)
    BY <1>1, <1>2, NoText
  <2>2. HasRead(Read(r), "end", t, rest)
    BY <2>1, EndRead
  <2> QED
    BY <1>2, <2>2 DEF HasRead, DataRead, DataText
<1>3. CASE n # ""
  <2>1. HasRead(Read(r), "text", n, Closing(t, rest))
    BY <1>1, <1>3, TextRead
  <2> QED
    BY <2>1 DEF HasRead, DataRead, DataText
<1> QED
  BY <1>2, <1>3

LEMMA NameStep ==
    ASSUME Running, NEW t \in Strings, NEW n \in STRING \ Blank, NEW rest \in Streams,
           HasRead(Read(reader), "begin", t, Before(TextData(n), Closing(t, rest))),
           NEW s \in {"METHOD_NAME", "NAME_READ"}, Leads(Top, t, s)
    PROVE  \E f : /\ Named(f, Top, s, n) /\ Stays(f)
                  /\ Top.kind = "Request" => built' = [built EXCEPT !.name = n]
                  /\ Top.kind # "Request" => built' = built
                  /\ NowLeft(Closing(t, rest)) \/ (n = "" /\ NowLeft(rest))
<1>1. PICK r : r = Read(reader)
  OBVIOUS
<1>2. /\ r.curr.ev = "begin" /\ r.curr.str = t /\ Reading(r)
      /\ Left(r) = Before(TextData(n), Closing(t, rest))
  BY <1>1 DEF HasRead
<1>3. VisitElement /\ IsFrame(Top) /\ ~Top.exit
  BY <1>1, <1>2, StepOf, TopFacts DEF Running
<1>4. PICK c \in Change(Top, t) :
         LET moved == [Top EXCEPT !.depth = @ + 1, !.state = c[3]] IN
           IsName(moved) /\ DataRead(r) =>
             /\ reader' = Read(r)
             /\ stack' = Replace([moved EXCEPT !.name = DataText(r)])
             /\ built' = IF moved.kind = "Request"
                         THEN [built EXCEPT !.name = DataText(r)] ELSE built
             /\ UNCHANGED <<doc, outcome>>
  BY <1>1, <1>2, <1>3 DEF VisitElement, Leads
<1>5. PICK m : m = Moved(Top, c)
  OBVIOUS
<1>6. Deeper(m, Top, s)
  BY <1>3, <1>5, DeeperFacts
<1>7. m = [Top EXCEPT !.depth = @ + 1, !.state = c[3]]
  BY <1>5 DEF Moved
<1>8. m.state = s /\ m.kind = Top.kind /\ DOMAIN m = Fields
  BY <1>6 DEF Deeper, IsFrame
<1>9. IsName(m)
  BY <1>8 DEF IsName
<1>10. /\ DataRead(r) /\ DataText(r) = n
       /\ Reading(Read(r))
       /\ \/ Left(Read(r)) = Closing(t, rest)
          \/ n = "" /\ Left(Read(r)) = rest
  BY <1>2, DataFacts
<1>11. PICK f : f = [m EXCEPT !.name = n]
  OBVIOUS
<1>12. /\ reader' = Read(r) /\ stack' = Replace(f)
       /\ built' = IF m.kind = "Request" THEN [built EXCEPT !.name = n] ELSE built
       /\ UNCHANGED <<doc, outcome>>
  BY <1>4, <1>7, <1>9, <1>10, <1>11
<1>13. Named(f, Top, s, n)
  BY <1>6, <1>8, <1>11 DEF Deeper, Named, IsFrame, Fields
<1>14. Stays(f)
  BY <1>12, <1>13 DEF Stays, Named
<1> QED
  BY <1>8, <1>10, <1>12, <1>13, <1>14 DEF NowLeft

\* An element fewer is open, in state s and with the value v.
Shallower(m, f, s, v) ==
    /\ IsFrame(m) /\ m.kind = f.kind /\ m.depth = f.depth - 1 /\ m.state = s
    /\ m.exit <=> f.depth = 1
    /\ m.val = v /\ m.name = f.name /\ m.member = f.member

LEMMA ClosedFacts ==
    ASSUME NEW f, IsFrame(f), ~f.exit, f.depth > 0, NEW m, m = Closed(f)
    PROVE  Shallower(m, f, f.state, f.val)
<1>1. /\ DOMAIN m = Fields /\ m.kind = f.kind /\ m.depth = f.depth - 1 /\ m.state = f.state
      /\ m.exit = (f.exit \/ f.depth = 1) /\ m.val = f.val /\ m.name = f.name /\ m.member = f.member
  BY DEF Closed, IsFrame, Fields
<1>2. m.depth \in Nat
  BY <1>1 DEF IsFrame
<1>3. m.exit \in BOOLEAN
  BY <1>1
<1>4. IsFrame(m)
  BY <1>1, <1>2, <1>3 DEF IsFrame
<1>5. m.exit <=> f.depth = 1
  BY <1>1
<1> QED
  BY <1>1, <1>4, <1>5 DEF Shallower

LEMMA ValueEnds ==
    ASSUME Running, NEW t, NEW rest, HasRead(Read(reader), "end", t, rest),
           Top.kind = "Value", Top.depth > 0, NEW v, v = Emptied(Top), v # NoValue
    PROVE  \E f : Shallower(f, Top, Top.state, v) /\ Stays(f) /\ built' = built /\ NowLeft(rest)
<1>1. PICK r : r = Read(reader)
  OBVIOUS
<1>2. r.curr.ev = "end" /\ r.curr.str = t /\ Reading(r) /\ Left(r) = rest
  BY <1>1 DEF HasRead
<1>3. VisitElementEnd /\ IsFrame(Top) /\ ~Top.exit
  BY <1>1, <1>2, StepOf, TopFacts DEF Running
<1>4. PICK x : x = [Top EXCEPT !.val = v]
  OBVIOUS
<1>5. PICK f : f = Closed(x)
  OBVIOUS
<1>6. reader' = r /\ stack' = Replace(f) /\ UNCHANGED <<doc, built, outcome>>
  BY <1>1, <1>3, <1>4, <1>5 DEF VisitElementEnd
<1>7. /\ DOMAIN x = Fields /\ x.kind = Top.kind /\ x.depth = Top.depth /\ x.state = Top.state
      /\ x.exit = Top.exit /\ x.val = v /\ x.name = Top.name /\ x.member = Top.member
  BY <1>3, <1>4 DEF IsFrame, Fields
<1>8. IsFrame(x)
  BY <1>3, <1>7 DEF IsFrame
<1>9. Shallower(f, x, x.state, x.val)
  BY <1>3, <1>5, <1>7, <1>8, ClosedFacts
<1>10. Shallower(f, Top, Top.state, v)
  BY <1>7, <1>9 DEF Shallower
<1> QED
  BY <1>2, <1>6, <1>10 DEF Stays, NowLeft, Shallower

LEMMA MemberEnds ==
    ASSUME Running, NEW rest, HasRead(Read(reader), "end", "member", rest),
           Top.kind = "Struct", Top.state = "VALUE_READ", Top.depth > 0
    PROVE  \E f : /\ Shallower(f, Top, "NONE", Inserted(Top)) /\ Stays(f) /\ built' = built
                  /\ NowLeft(rest)
<1>1. PICK r : r = Read(reader)
  OBVIOUS
<1>2. r.curr.ev = "end" /\ r.curr.str = "member" /\ Reading(r) /\ Left(r) = rest
  BY <1>1 DEF HasRead
<1>3. VisitElementEnd /\ IsFrame(Top) /\ ~Top.exit
  BY <1>1, <1>2, StepOf, TopFacts DEF Running
<1>0. PICK v : v = Inserted(Top)
  OBVIOUS
<1>4. PICK x : x = [Top EXCEPT !.val = v, !.state = "NONE"]
  OBVIOUS
<1>5. PICK f : f = Closed(x)
  OBVIOUS
<1>6. reader' = r /\ stack' = Replace(f) /\ UNCHANGED <<doc, built, outcome>>
  BY <1>0, <1>1, <1>2, <1>3, <1>4, <1>5 DEF VisitElementEnd
<1>7. /\ DOMAIN x = Fields /\ x.kind = Top.kind /\ x.depth = Top.depth /\ x.state = "NONE"
      /\ x.exit = Top.exit /\ x.val = v /\ x.name = Top.name /\ x.member = Top.member
  BY <1>3, <1>4 DEF IsFrame, Fields
<1>8. IsFrame(x)
  BY <1>0, <1>3, <1>7, InsertedFacts DEF IsFrame
<1>9. Shallower(f, x, x.state, x.val)
  BY <1>3, <1>5, <1>7, <1>8, ClosedFacts
<1>10. Shallower(f, Top, "NONE", v)
  BY <1>7, <1>9 DEF Shallower
<1> QED
  BY <1>0, <1>2, <1>6, <1>10 DEF Stays, NowLeft, Shallower

LEMMA OtherEnds ==
    ASSUME Running, NEW t, NEW rest, HasRead(Read(reader), "end", t, rest),
           Top.kind # "Value", Top.kind = "Struct" => t # "member", Top.depth > 0
    PROVE  \E f : Shallower(f, Top, Top.state, Top.val) /\ Stays(f) /\ built' = built /\ NowLeft(rest)
<1>1. PICK r : r = Read(reader)
  OBVIOUS
<1>2. r.curr.ev = "end" /\ r.curr.str = t /\ Reading(r) /\ Left(r) = rest
  BY <1>1 DEF HasRead
<1>3. VisitElementEnd /\ IsFrame(Top) /\ ~Top.exit
  BY <1>1, <1>2, StepOf, TopFacts DEF Running
<1>5. PICK f : f = Closed(Top)
  OBVIOUS
<1>6. reader' = r /\ stack' = Replace(f) /\ UNCHANGED <<doc, built, outcome>>
  BY <1>1, <1>2, <1>3, <1>5 DEF VisitElementEnd
<1>9. Shallower(f, Top, Top.state, Top.val)
  BY <1>3, <1>5, ClosedFacts
<1> QED
  BY <1>2, <1>6, <1>9 DEF Stays, NowLeft, Shallower

\* The builder leaves with the value v.
Leaves(m, f, v) ==
    /\ IsFrame(m) /\ m.kind = f.kind /\ m.depth = f.depth /\ m.state = f.state
    /\ m.val = v /\ m.name = f.name /\ m.member = f.member

LEMMA EndIsLeft ==
    ASSUME Running, NEW t \in Strings, NEW rest \in Streams, Left(reader) = Closing(t, rest),
           Top.depth = 0
    PROVE  \E f : /\ Leaves(f, Top, Top.val) /\ f.exit /\ Stays(f) /\ built' = built
                  /\ NowLeft(Closing(t, rest))
<1>1. PICK r : r = Read(reader)
  OBVIOUS
<1>2. HasRead(r, "end", t, rest)
  BY <1>1, EndRead DEF Running
<1>3. PushBack /\ IsFrame(Top) /\ ~Top.exit
  BY <1>1, <1>2, StepOf, TopFacts DEF Running, HasRead
<1>4. PICK p : p = [r EXCEPT !.back = TRUE]
  OBVIOUS
<1>5. PICK f : f = [Top EXCEPT !.exit = TRUE]
  OBVIOUS
<1>6. reader' = p /\ stack' = Replace(f) /\ UNCHANGED <<doc, built, outcome>>
  BY <1>1, <1>3, <1>4, <1>5 DEF PushBack
<1>7. Leaves(f, Top, Top.val) /\ f.exit
  BY <1>3, <1>5 DEF IsFrame, Fields, Leaves
<1>8. Left(p) = Left(reader) /\ Known(p)
  <2>1. doc \in Docs /\ ReaderOK(reader) /\ Known(reader)
    BY DEF Running, Reading
  <2>2. Left(reader) = Then(End(t), rest)
    BY DEF Closing
  <2> QED
    BY <1>1, <1>4, <2>1, <2>2, LeftAgain
<1>9. ReaderOK(p)
  <2>1. IsReader(r) /\ ReaderOK(r) /\ r.curr.ev = "end"
    BY <1>2 DEF HasRead, Reading, ReaderOK
  <2>2. /\ DOMAIN p = {"pos", "curr", "back"} /\ p.pos = r.pos /\ p.curr = r.curr
        /\ p.back = TRUE
    BY <1>4, <2>1 DEF IsReader
  <2> QED
    BY <2>1, <2>2 DEF ReaderOK, IsReader
<1>10. doc \in Docs
  BY DEF Running, Reading
<1> QED
  BY <1>6, <1>7, <1>8, <1>9, <1>10 DEF Stays, Leaves, NowLeft, Reading

LEMMA TextStep ==
    ASSUME Running, NEW str, NEW rest, HasRead(Read(reader), "text", str, rest),
           Top.kind = "Value", NEW type, type = IF Top.state = "VALUE" THEN "STRING" ELSE Top.state,
           str \in Legal[type]
    PROVE  \E f : /\ Leaves(f, Top, Scalar(type, str)) /\ (f.exit <=> Top.state = "VALUE")
                  /\ Stays(f) /\ built' = built /\ NowLeft(rest)
<1>1. PICK r : r = Read(reader)
  OBVIOUS
<1>2. r.curr.ev = "text" /\ r.curr.str = str /\ Reading(r) /\ Left(r) = rest
  BY <1>1 DEF HasRead
<1>3. VisitText /\ IsFrame(Top) /\ ~Top.exit
  BY <1>1, <1>2, StepOf, TopFacts DEF Running
<1>4. PICK v : v = Scalar(type, str)
  OBVIOUS
<1>5. PICK f : f = [Top EXCEPT !.val = v, !.exit = TextExits(Top)]
  OBVIOUS
<1>6. reader' = r /\ stack' = Replace(f) /\ UNCHANGED <<doc, built, outcome>>
  BY <1>1, <1>2, <1>3, <1>4, <1>5 DEF VisitText
<1>7. /\ DOMAIN f = Fields /\ f.kind = Top.kind /\ f.depth = Top.depth /\ f.state = Top.state
      /\ f.exit = (Top.state = "VALUE") /\ f.val = v /\ f.name = Top.name /\ f.member = Top.member
  BY <1>3, <1>5 DEF IsFrame, Fields, TextExits
<1>8. IsFrame(f)
  BY <1>3, <1>7 DEF IsFrame
<1>9. Leaves(f, Top, v) /\ (f.exit <=> Top.state = "VALUE")
  BY <1>7, <1>8 DEF Leaves
<1> QED
  BY <1>2, <1>4, <1>6, <1>8, <1>9 DEF Stays, NowLeft

LEMMA DoneStep ==
    ASSUME Running, Left(reader) = <<>>
    PROVE  \E f : /\ Leaves(f, Top, Top.val) /\ f.exit /\ Stays(f) /\ built' = built
                  /\ Reading(reader')
<1>1. PICK r : r = Read(reader)
  OBVIOUS
<1>2. r.curr.ev = "done" /\ Known(r)
  BY <1>1, LeftNothing DEF Running, Reading
<1>3. EndOfDocument /\ IsFrame(Top) /\ ~Top.exit
  BY <1>1, <1>2, StepOf, TopFacts DEF Running
<1>5. PICK f : f = [Top EXCEPT !.exit = TRUE]
  OBVIOUS
<1>6. reader' = r /\ stack' = Replace(f) /\ UNCHANGED <<doc, built, outcome>>
  BY <1>1, <1>3, <1>5 DEF EndOfDocument
<1>7. Leaves(f, Top, Top.val) /\ f.exit
  BY <1>3, <1>5 DEF IsFrame, Fields, Leaves
<1>8. doc \in Docs /\ ReaderOK(r)
  BY <1>1, <1>2, EventFacts DEF Running, Reading
<1> QED
  BY <1>2, <1>6, <1>7, <1>8 DEF Stays, Leaves, Reading

-----------------------------------------------------------------------------
(* Where the builders are in what is written of a message *)

\* What a builder is to return (v), and what follows the element it reads; a value may
\* be called flat (1).
IsGoal(q) == q.v \in Values /\ q.after \in Streams /\ q.flat \in {0, 1}
Goal(v, after, flat) == [v |-> v, after |-> after, flat |-> flat]

\* X writes values, and c is what it writes of v into <value>.
Contents(X, v, c) == \E server : Xml(X, Values, server) /\ c = Content(v, X, server)
WritesValues(X) == \E server : Xml(X, Values, server)

\* A value: before its content, before the text of a scalar, after it, after its element,
\* and when the builder has left.
ValueBegins(f, q, L, X) ==
    /\ ~f.exit /\ f.state = "VALUE" /\ f.depth = q.flat /\ f.val = NoValue
    /\ \E c : Contents(X, q.v, c) /\ L = Before(c, Closing("value", q.after))
InScalar(f, q) ==
    ~f.exit /\ IsScalar(q.v) /\ f.state = q.v.type /\ f.depth = q.flat + 1
ScalarRest(q) == Closing(TagOf[q.v.type], Closing("value", q.after))
ScalarBegun(f, q, L) ==
    InScalar(f, q) /\ f.val = NoValue /\ L = Before(TextData(q.v.text), ScalarRest(q))
ScalarRead(f, q, L) == InScalar(f, q) /\ f.val = q.v /\ L = ScalarRest(q)
ScalarEnded(f, q, L) ==
    ~f.exit /\ q.flat = 1 /\ f.depth = 1 /\ f.val = q.v /\ L = Closing("value", q.after)
ValueReturns(f, q, L) ==
    /\ f.exit
    /\ \/ f.val = q.v /\ L = Closing("value", q.after)
       \/ f.val = q.v /\ q.flat = 1 /\ L = q.after
       \/ /\ q.flat = 0 /\ f.val = NoValue /\ q.v = EmptyString
          /\ L = Closing("value", q.after)
ValueAt(f, q, L, X) ==
    /\ f.kind = "Value" /\ IsGoal(q)
    /\ \/ ValueBegins(f, q, L, X) \/ ScalarBegun(f, q, L) \/ ScalarRead(f, q, L)
       \/ ScalarEnded(f, q, L) \/ ValueReturns(f, q, L)
ValueWaits(f, q, kind, r) ==
    /\ f.kind = "Value" /\ IsGoal(q)
    /\ \/ f.state = "STRUCT" /\ kind = "Struct"
       \/ f.state = "ARRAY" /\ kind = "Array"
    /\ r.v = q.v /\ r.after = Closing("value", q.after)

\* A struct: its members after the k-th and what follows them.
StructRest(q, X, k) == Before(From(MembersXml(q.v, X), k), Closing("struct", q.after))
MemberRest(q, X, k) == Closing("member", StructRest(q, X, k))
NameAt(q, k) == Names(q.v)[k]
PartAt(q, k) == q.v.fields[NameAt(q, k)]
MembersSoFar(q, k) ==
    StructOf([n \in {Names(q.v)[i] : i \in 1..k} |-> q.v.fields[n]])
PartRest(q, X, k) == Before(X[PartAt(q, k)], MemberRest(q, X, k))

\* Between members; in the k-th member: before its name, after it, after the name's
\* element, after its value, after the value's element; and when the builder has left.
StructBetween(f, q, L, X) ==
    /\ ~f.exit /\ IsStruct(q.v, Values) /\ f.state = "NONE" /\ f.depth = 1
    /\ \E k \in Nat : k <= Len(Names(q.v)) /\ f.val = MembersSoFar(q, k) /\ L = StructRest(q, X, k)
InMember(f, q, k) ==
    /\ ~f.exit /\ IsStruct(q.v, Values) /\ k \in Nat /\ k < Len(Names(q.v))
    /\ f.val = MembersSoFar(q, k)
MemberBegun(f, q, L, X, k) ==
    /\ InMember(f, q, k) /\ f.state = "MEMBER" /\ f.depth = 2
    /\ L = Before(TextNode("name", NameAt(q, k + 1)), PartRest(q, X, k + 1))
NameRead(f, q, L, X, k) ==
    /\ InMember(f, q, k) /\ f.state = "NAME_READ" /\ f.depth = 3 /\ f.name = NameAt(q, k + 1)
    /\ L = Closing("name", PartRest(q, X, k + 1))
NameEnded(f, q, L, X, k) ==
    /\ InMember(f, q, k) /\ f.state = "NAME_READ" /\ f.depth = 2 /\ f.name = NameAt(q, k + 1)
    /\ L = PartRest(q, X, k + 1)
PartRead(f, q, L, X, k) ==
    /\ InMember(f, q, k) /\ f.state = "VALUE_READ" /\ f.depth = 3 /\ f.name = NameAt(q, k + 1)
    /\ f.member = PartAt(q, k + 1)
    /\ L = Closing("value", MemberRest(q, X, k + 1))
PartEnded(f, q, L, X, k) ==
    /\ InMember(f, q, k) /\ f.state = "VALUE_READ" /\ f.depth = 2 /\ f.name = NameAt(q, k + 1)
    /\ f.member = PartAt(q, k + 1)
    /\ L = MemberRest(q, X, k + 1)
ContainerReturns(f, q, L) == f.exit /\ f.val = q.v /\ L = q.after
StructAt(f, q, L, X) ==
    /\ f.kind = "Struct" /\ IsGoal(q)
    /\ \/ StructBetween(f, q, L, X)
       \/ \E k : \/ MemberBegun(f, q, L, X, k) \/ NameRead(f, q, L, X, k)
                 \/ NameEnded(f, q, L, X, k) \/ PartRead(f, q, L, X, k)
                 \/ PartEnded(f, q, L, X, k)
       \/ ContainerReturns(f, q, L)
PartAwaited(f, q, X, k, r) ==
    /\ InMember(f, q, k) /\ f.state = "VALUE_READ" /\ f.depth = 3 /\ f.name = NameAt(q, k + 1)
    /\ r.v = PartAt(q, k + 1) /\ r.after = MemberRest(q, X, k + 1) /\ r.flat = 0
StructWaits(f, q, kind, r, X) ==
    f.kind = "Struct" /\ IsGoal(q) /\ kind = "Value" /\ \E k : PartAwaited(f, q, X, k, r)

\* An array: its items after the k-th and what follows them.
ArrayRest(q, X, k) ==
    Before(From(ItemsXml(q.v, X), k), Closing("data", Closing("array", q.after)))
ItemsSoFar(q, k) == ArrayOf(SubSeq(q.v.items, 1, k))

\* Before <data>; between items; after an item; after </data>; and when it has left.
ArrayBegins(f, q, L, X) ==
    /\ ~f.exit /\ IsArray(q.v, Values) /\ f.state = "NONE" /\ f.depth = 1 /\ f.val = ArrayOf(<<>>)
    /\ L = Before(Node("data", Joined(ItemsXml(q.v, X))), Closing("array", q.after))
InArray(f, q, k) ==
    /\ ~f.exit /\ IsArray(q.v, Values) /\ k \in Nat /\ k <= Len(q.v.items)
    /\ f.val = ItemsSoFar(q, k)
ArrayBetween(f, q, L, X, k) ==
    InArray(f, q, k) /\ f.state \in {"DATA", "VALUES"} /\ f.depth = 2 /\ L = ArrayRest(q, X, k)
ItemRead(f, q, L, X, k) ==
    /\ InArray(f, q, k) /\ f.state = "VALUES" /\ f.depth = 3
    /\ L = Closing("value", ArrayRest(q, X, k))
ArrayEnds(f, q, L) ==
    ~f.exit /\ f.depth = 1 /\ f.val = q.v /\ L = Closing("array", q.after)
ArrayAt(f, q, L, X) ==
    /\ f.kind = "Array" /\ IsGoal(q)
    /\ \/ ArrayBegins(f, q, L, X)
       \/ \E k : ArrayBetween(f, q, L, X, k) \/ ItemRead(f, q, L, X, k)
       \/ ArrayEnds(f, q, L)
       \/ ContainerReturns(f, q, L)
ItemAwaited(f, q, X, k, r) ==
    /\ InArray(f, q, k) /\ k < Len(q.v.items) /\ f.state = "VALUES" /\ f.depth = 3
    /\ r.v = q.v.items[k + 1] /\ r.after = ArrayRest(q, X, k + 1) /\ r.flat = 0
ArrayWaits(f, q, kind, r, X) ==
    f.kind = "Array" /\ IsGoal(q) /\ kind = "Value" /\ \E k : ItemAwaited(f, q, X, k, r)

\* After the last value of a message m: ends of elements, which the root builder has
\* all on its count.
AllEnds(L, depth) ==
    /\ L \in Streams /\ Len(L) <= depth
    /\ \A i \in 1..Len(L) : L[i] = End(L[i].str)
RootEnds(f, L, b, m) == b = m /\ (f.exit \/ AllEnds(L, f.depth))

\* A request m, of whose parameters k are read.
Message(name, params, fault) == [name |-> name, params |-> params, fault |-> fault]
Nothing == Message(Absent, <<>>, <<>>)
ParamXml(m, X) == [i \in DOMAIN m.params |-> Node("param", X[m.params[i]])]
ParamsNode(m, X) == Node("params", Joined(ParamXml(m, X)))
RequestEnd == Closing("methodCall", <<>>)
ParamsRest(m, X, k) == Before(From(ParamXml(m, X), k), Closing("params", RequestEnd))
ParamsSoFar(m, k) == Message(m.name, SubSeq(m.params, 1, k), <<>>)
InRequest(f, b, m, k) == /\ ~f.exit /\ k \in Nat /\ k <= Len(m.params) /\ b = ParamsSoFar(m, k)

RequestBegins(f, L, b, m, X) ==
    /\ ~f.exit /\ f.state = "NONE" /\ b = Nothing
    /\ L = Before(Node("methodCall", TextNode("methodName", m.name) \o ParamsNode(m, X)), <<>>)
RequestBegun(f, L, b, m, X) ==
    /\ ~f.exit /\ f.state = "METHOD_CALL" /\ f.depth >= 1 /\ b = Nothing
    /\ L = Before(TextNode("methodName", m.name), Before(ParamsNode(m, X), RequestEnd))
MethodRead(f, L, b, m, X) ==
    /\ ~f.exit /\ f.state = "METHOD_NAME" /\ f.depth >= 2 /\ b = ParamsSoFar(m, 0)
    /\ L = Closing("methodName", Before(ParamsNode(m, X), RequestEnd))
MethodEnded(f, L, b, m, X) ==
    /\ ~f.exit /\ f.state = "METHOD_NAME" /\ f.depth >= 1 /\ b = ParamsSoFar(m, 0)
    /\ L = Before(ParamsNode(m, X), RequestEnd)
ParamsBetween(f, L, b, m, X, k) ==
    InRequest(f, b, m, k) /\ f.state \in {"PARAMS", "VALUE"} /\ f.depth >= 2 /\ L = ParamsRest(m, X, k)
ParamBegun(f, L, b, m, X, k) ==
    /\ InRequest(f, b, m, k) /\ k < Len(m.params) /\ f.state = "PARAM" /\ f.depth >= 3
    /\ L = Before(X[m.params[k + 1]], Closing("param", ParamsRest(m, X, k + 1)))
ParamRead(f, L, b, m, X, k) ==
    /\ InRequest(f, b, m, k) /\ f.state = "VALUE" /\ f.depth >= 4
    /\ L = Closing("value", Closing("param", ParamsRest(m, X, k)))
ParamEnded(f, L, b, m, X, k) ==
    /\ InRequest(f, b, m, k) /\ f.state = "VALUE" /\ f.depth >= 3
    /\ L = Closing("param", ParamsRest(m, X, k))
RequestAt(f, L, b, m, X) ==
    /\ f.kind = "Request" /\ IsMessage("Request", m)
    /\ \/ RequestBegins(f, L, b, m, X) \/ RequestBegun(f, L, b, m, X)
       \/ MethodRead(f, L, b, m, X) \/ MethodEnded(f, L, b, m, X)
       \/ \E k : \/ ParamsBetween(f, L, b, m, X, k) \/ ParamBegun(f, L, b, m, X, k)
                 \/ ParamRead(f, L, b, m, X, k) \/ ParamEnded(f, L, b, m, X, k)
       \/ RootEnds(f, L, b, m)
ParamAwaited(f, b, m, X, k, r) ==
    /\ InRequest(f, b, m, k) /\ k < Len(m.params) /\ f.state = "VALUE" /\ f.depth >= 4
    /\ r.v = m.params[k + 1] /\ r.after = Closing("param", ParamsRest(m, X, k + 1))
RequestWaits(f, kind, r, b, m, X) ==
    /\ f.kind = "Request" /\ IsMessage("Request", m) /\ kind = "Value"
    /\ \E k : ParamAwaited(f, b, m, X, k, r)

\* A response m: a value, or a fault.
ResponseEnd == Closing("methodResponse", <<>>)
FaultEnd == Closing("fault", ResponseEnd)
ParamsEnd == Closing("params", ResponseEnd)
ParamEnd == Closing("param", ParamsEnd)
IsFaulty(m) == m.fault # <<>>
FaultMessage(m) == FaultOf(m.fault[1], m.fault[2])
Body(m, X) ==
    IF IsFaulty(m) THEN Node("fault", X[FaultMessage(m)])
    ELSE Node("params", Node("param", X[m.params[1]]))
InResponse(f, b) == ~f.exit /\ b = Nothing

ResponseBegins(f, L, b, m, X) ==
    InResponse(f, b) /\ f.state = "NONE" /\ L = Before(Node("methodResponse", Body(m, X)), <<>>)
ResponseBegun(f, L, b, m, X) ==
    /\ InResponse(f, b) /\ f.state = "RESPONSE" /\ f.depth >= 1
    /\ L = Before(Body(m, X), ResponseEnd)
ResultBegun(f, L, b, m, X) ==
    /\ InResponse(f, b) /\ ~IsFaulty(m) /\ f.state = "OK_RESPONSE" /\ f.depth >= 2
    /\ L = Before(Node("param", X[m.params[1]]), ParamsEnd)
ResultParam(f, L, b, m, X) ==
    /\ InResponse(f, b) /\ ~IsFaulty(m) /\ f.state = "OK_PARAM" /\ f.depth >= 3
    /\ L = Before(X[m.params[1]], ParamEnd)
FaultBegun(f, L, b, m, X) ==
    /\ InResponse(f, b) /\ IsFaulty(m) /\ f.state = "FAULT_RESPONSE" /\ f.depth >= 2
    /\ L = Before(X[FaultMessage(m)], FaultEnd)
ResponseAt(f, L, b, m, X) ==
    /\ f.kind = "Response" /\ IsMessage("Response", m)
    /\ \/ ResponseBegins(f, L, b, m, X) \/ ResponseBegun(f, L, b, m, X)
       \/ ResultBegun(f, L, b, m, X) \/ ResultParam(f, L, b, m, X) \/ FaultBegun(f, L, b, m, X)
       \/ RootEnds(f, L, b, m)
ResultAwaited(f, b, m, r) ==
    /\ InResponse(f, b) /\ ~IsFaulty(m) /\ f.state = "OK_PARAM_VALUE" /\ f.depth >= 4
    /\ r.v = m.params[1] /\ r.after = ParamEnd
FaultAwaited(f, b, m, r) ==
    /\ InResponse(f, b) /\ IsFaulty(m) /\ f.state = "FAULT_RESPONSE_VALUE" /\ f.depth >= 3
    /\ r.v = FaultMessage(m) /\ r.after = FaultEnd /\ r.flat = 0
ResponseWaits(f, kind, r, b, m) ==
    /\ f.kind = "Response" /\ IsMessage("Response", m) /\ kind = "Value"
    /\ ResultAwaited(f, b, m, r) \/ FaultAwaited(f, b, m, r)

\* The last builder f has the goal q; the builder f, of goal q, has called one of goal r.
TopAt(f, q, L, b, m, X) ==
    \/ ValueAt(f, q, L, X) \/ StructAt(f, q, L, X) \/ ArrayAt(f, q, L, X)
    \/ RequestAt(f, L, b, m, X) \/ ResponseAt(f, L, b, m, X)
Waits(f, q, kind, r, b, m, X) ==
    \/ ValueWaits(f, q, kind, r) \/ StructWaits(f, q, kind, r, X) \/ ArrayWaits(f, q, kind, r, X)
    \/ RequestWaits(f, kind, r, b, m, X) \/ ResponseWaits(f, kind, r, b, m)

\* A step of the last builder that keeps to its goal q.
Goes(q, m, X) ==
    \/ \E f : /\ Stays(f) /\ (Len(stack) = 1 \/ built' = built)
              /\ Reading(reader') /\ TopAt(f, q, Left(reader'), built', m, X)
    \/ \E g, h, r : /\ Pushed(g, h) /\ UNCHANGED <<doc, built, outcome>>
                    /\ Reading(reader') /\ Waits(g, q, h.kind, r, built, m, X)
                    /\ TopAt(h, r, Left(reader'), built, m, X)

-----------------------------------------------------------------------------
(* Values *)

LEMMA Words ==
    /\ Tags \subseteq Strings /\ STRING \subseteq Strings /\ "" \in Strings
    /\ {"value", "array", "data", "struct", "member", "name"} \subseteq Strings
    /\ {"methodCall", "methodName", "params", "param", "methodResponse", "fault"} \subseteq Strings
  BY DEF Strings, Tags

LEMMA ContentsFacts ==
    ASSUME NEW X, NEW v \in Values, NEW c, Contents(X, v, c)
    PROVE  /\ c \in Streams /\ X[v] = Node("value", c)
           /\ IsScalar(v) => \/ c = TextNode(TagOf[v.type], v.text)
                             \/ v.type = "STRING" /\ c = TextData(v.text)
           /\ IsArray(v, Values) => c = Node("array", Node("data", Joined(ItemsXml(v, X))))
           /\ IsStruct(v, Values) => c = Node("struct", Joined(MembersXml(v, X)))
<1>1. PICK server : Xml(X, Values, server) /\ c = Content(v, X, server)
  BY DEF Contents
<1>2. Writes(X, Values)
  BY <1>1, XmlType
<1>3. IsValue(v, Values)
  BY AllLevels
<1>4. Content(v, X, server) \in Streams
  BY <1>2, <1>3, ContentType
<1>5. X[v] = Node("value", Content(v, X, server))
  BY <1>1 DEF Xml
<1>6. IsScalar(v) => \/ c = TextNode(TagOf[v.type], v.text)
                     \/ v.type = "STRING" /\ c = TextData(v.text)
  BY <1>1, ScalarContent DEF IsScalar
<1>7. IsArray(v, Values) => c = Node("array", Node("data", Joined(ItemsXml(v, X))))
  BY <1>1, ArrayContent DEF IsArray
<1>8. IsStruct(v, Values) => c = Node("struct", Joined(MembersXml(v, X)))
  BY <1>1, StructContent DEF IsStruct
<1> QED
  BY <1>1, <1>4, <1>5, <1>6, <1>7, <1>8

LEMMA ContentsExist ==
    ASSUME NEW X, WritesValues(X), NEW v \in Values
    PROVE  \E c \in Streams : Contents(X, v, c) /\ X[v] = Node("value", c)
<1>1. PICK server : Xml(X, Values, server)
  BY DEF WritesValues
<1>2. PICK c : c = Content(v, X, server)
  OBVIOUS
<1>3. Contents(X, v, c)
  BY <1>1, <1>2 DEF Contents
<1> QED
  BY <1>3, ContentsFacts

LEMMA WrittenStreams ==
    ASSUME NEW X, WritesValues(X)
    PROVE  Writes(X, Values)
  BY XmlType DEF WritesValues

\* Of what a builder needs to be given, nothing is missing.
LEMMA PlainFacts ==
    ASSUME Plain, NEW v \in Values
    PROVE  /\ IsScalar(v) \/ IsArray(v, Values) \/ IsStruct(v, Values)
           /\ IsScalar(v) => /\ v.text \in STRING \ Blank /\ v.text \in Legal[v.type]
                             /\ v.text = "" => v.type \in {"STRING", "BINARY"}
                             /\ v.type \in DOMAIN TagOf
           /\ IsStruct(v, Values) =>
                 \A n \in DOMAIN v.fields : n \in STRING \ Blank /\ n # ""
           /\ v # NoValue
<1>1. IsValue(v, Values)
  BY AllLevels
<1>2. /\ v.type # "NIL"
      /\ v.type \in DOMAIN TagOf => /\ v.text \in Legal[v.type] \ Blank
                                    /\ v.text = "" => v.type \in {"STRING", "BINARY"}
      /\ DOMAIN v.fields \cap (Blank \cup {""}) = {}
  BY DEF Plain
<1>3. IsScalar(v) \/ IsArray(v, Values) \/ IsStruct(v, Values)
  BY <1>1, <1>2, ValueKinds DEF IsNil
<1>4. IsScalar(v) => /\ v.text \in STRING \ Blank /\ v.text \in Legal[v.type]
                     /\ v.text = "" => v.type \in {"STRING", "BINARY"}
                     /\ v.type \in DOMAIN TagOf
  BY <1>2 DEF IsScalar
<1>5. IsStruct(v, Values) => \A n \in DOMAIN v.fields : n \in STRING \ Blank /\ n # ""
  BY <1>2 DEF IsStruct
<1>6. v # NoValue
  <2>1. v.type # Absent
    BY <1>3, TagFacts DEF IsScalar, IsArray, IsStruct, Absent
  <2> QED
    BY <2>1, NullFacts
<1> QED
  BY <1>3, <1>4, <1>5, <1>6

LEMMA LeadsBy ==
    ASSUME NEW f, NEW tag, NEW s, NEW T, Transitions[f.kind] = T,
           NEW state, f.state = state, <<state, tag, s>> \in T,
           \A t \in T : t[1] = state /\ t[2] = tag => t[3] = s
    PROVE  Leads(f, tag, s)
<1>1. Change(f, tag) = {t \in T : t[1] = state /\ t[2] = tag}
  BY DEF Change
<1>2. PICK u : u = <<state, tag, s>>
  OBVIOUS
<1>3. u[1] = state /\ u[2] = tag /\ u \in T
  BY <1>2
<1> QED
  BY <1>1, <1>3 DEF Leads

\* The rows of the tables.
LEMMA ValueRows ==
    ASSUME NEW f, f.kind = "Value"
    PROVE  /\ f.state = "VALUE" => Leads(f, "i4", "INT")
           /\ f.state = "VALUE" => Leads(f, "i8", "INT64")
           /\ f.state = "VALUE" => Leads(f, "boolean", "BOOL")
           /\ f.state = "VALUE" => Leads(f, "double", "DOUBLE")
           /\ f.state = "VALUE" => Leads(f, "string", "STRING")
           /\ f.state = "VALUE" => Leads(f, "base64", "BINARY")
           /\ f.state = "VALUE" => Leads(f, "dateTime.iso8601", "TIME")
           /\ f.state = "VALUE" => Leads(f, "struct", "STRUCT")
           /\ f.state = "VALUE" => Leads(f, "array", "ARRAY")
<1>0. Transitions[f.kind] = ValueTable
  BY DEF Transitions
<1>1. ASSUME f.state = "VALUE" PROVE Leads(f, "i4", "INT")
  <2>1. <<"VALUE", "i4", "INT">> \in ValueTable
    BY DEF ValueTable
  <2>2. \A t \in ValueTable : t[1] = "VALUE" /\ t[2] = "i4" => t[3] = "INT"
    BY DEF ValueTable
  <2> QED
    BY <1>0, <1>1, <2>1, <2>2, LeadsBy
<1>2. ASSUME f.state = "VALUE" PROVE Leads(f, "i8", "INT64")
  <2>1. <<"VALUE", "i8", "INT64">> \in ValueTable
    BY DEF ValueTable
  <2>2. \A t \in ValueTable : t[1] = "VALUE" /\ t[2] = "i8" => t[3] = "INT64"
    BY DEF ValueTable
  <2> QED
    BY <1>0, <1>2, <2>1, <2>2, LeadsBy
<1>3. ASSUME f.state = "VALUE" PROVE Leads(f, "boolean", "BOOL")
  <2>1. <<"VALUE", "boolean", "BOOL">> \in ValueTable
    BY DEF ValueTable
  <2>2. \A t \in ValueTable : t[1] = "VALUE" /\ t[2] = "boolean" => t[3] = "BOOL"
    BY DEF ValueTable
  <2> QED
    BY <1>0, <1>3, <2>1, <2>2, LeadsBy
<1>4. ASSUME f.state = "VALUE" PROVE Leads(f, "double", "DOUBLE")
  <2>1. <<"VALUE", "double", "DOUBLE">> \in ValueTable
    BY DEF ValueTable
  <2>2. \A t \in ValueTable : t[1] = "VALUE" /\ t[2] = "double" => t[3] = "DOUBLE"
    BY DEF ValueTable
  <2> QED
    BY <1>0, <1>4, <2>1, <2>2, LeadsBy
<1>5. ASSUME f.state = "VALUE" PROVE Leads(f, "string", "STRING")
  <2>1. <<"VALUE", "string", "STRING">> \in ValueTable
    BY DEF ValueTable
  <2>2. \A t \in ValueTable : t[1] = "VALUE" /\ t[2] = "string" => t[3] = "STRING"
    BY DEF ValueTable
  <2> QED
    BY <1>0, <1>5, <2>1, <2>2, LeadsBy
<1>6. ASSUME f.state = "VALUE" PROVE Leads(f, "base64", "BINARY")
  <2>1. <<"VALUE", "base64", "BINARY">> \in ValueTable
    BY DEF ValueTable
  <2>2. \A t \in ValueTable : t[1] = "VALUE" /\ t[2] = "base64" => t[3] = "BINARY"
    BY DEF ValueTable
  <2> QED
    BY <1>0, <1>6, <2>1, <2>2, LeadsBy
<1>7. ASSUME f.state = "VALUE" PROVE Leads(f, "dateTime.iso8601", "TIME")
  <2>1. <<"VALUE", "dateTime.iso8601", "TIME">> \in ValueTable
    BY DEF ValueTable
  <2>2. \A t \in ValueTable : t[1] = "VALUE" /\ t[2] = "dateTime.iso8601" => t[3] = "TIME"
    BY DEF ValueTable
  <2> QED
    BY <1>0, <1>7, <2>1, <2>2, LeadsBy
<1>8. ASSUME f.state = "VALUE" PROVE Leads(f, "struct", "STRUCT")
  <2>1. <<"VALUE", "struct", "STRUCT">> \in ValueTable
    BY DEF ValueTable
  <2>2. \A t \in ValueTable : t[1] = "VALUE" /\ t[2] = "struct" => t[3] = "STRUCT"
    BY DEF ValueTable
  <2> QED
    BY <1>0, <1>8, <2>1, <2>2, LeadsBy
<1>9. ASSUME f.state = "VALUE" PROVE Leads(f, "array", "ARRAY")
  <2>1. <<"VALUE", "array", "ARRAY">> \in ValueTable
    BY DEF ValueTable
  <2>2. \A t \in ValueTable : t[1] = "VALUE" /\ t[2] = "array" => t[3] = "ARRAY"
    BY DEF ValueTable
  <2> QED
    BY <1>0, <1>9, <2>1, <2>2, LeadsBy
<1> QED
  BY <1>1, <1>2, <1>3, <1>4, <1>5, <1>6, <1>7, <1>8, <1>9

LEMMA StructRows ==
    ASSUME NEW f, f.kind = "Struct"
    PROVE  /\ f.state = "NONE" => Leads(f, "member", "MEMBER")
           /\ f.state = "MEMBER" => Leads(f, "name", "NAME_READ")
           /\ f.state = "NAME_READ" => Leads(f, "value", "VALUE_READ")
<1>0. Transitions[f.kind] = StructTable
  BY DEF Transitions
<1>1. ASSUME f.state = "NONE" PROVE Leads(f, "member", "MEMBER")
  <2>1. <<"NONE", "member", "MEMBER">> \in StructTable
    BY DEF StructTable
  <2>2. \A t \in StructTable : t[1] = "NONE" /\ t[2] = "member" => t[3] = "MEMBER"
    BY DEF StructTable
  <2> QED
    BY <1>0, <1>1, <2>1, <2>2, LeadsBy
<1>2. ASSUME f.state = "MEMBER" PROVE Leads(f, "name", "NAME_READ")
  <2>1. <<"MEMBER", "name", "NAME_READ">> \in StructTable
    BY DEF StructTable
  <2>2. \A t \in StructTable : t[1] = "MEMBER" /\ t[2] = "name" => t[3] = "NAME_READ"
    BY DEF StructTable
  <2> QED
    BY <1>0, <1>2, <2>1, <2>2, LeadsBy
<1>3. ASSUME f.state = "NAME_READ" PROVE Leads(f, "value", "VALUE_READ")
  <2>1. <<"NAME_READ", "value", "VALUE_READ">> \in StructTable
    BY DEF StructTable
  <2>2. \A t \in StructTable : t[1] = "NAME_READ" /\ t[2] = "value" => t[3] = "VALUE_READ"
    BY DEF StructTable
  <2> QED
    BY <1>0, <1>3, <2>1, <2>2, LeadsBy
<1> QED
  BY <1>1, <1>2, <1>3

LEMMA ArrayRows ==
    ASSUME NEW f, f.kind = "Array"
    PROVE  /\ f.state = "NONE" => Leads(f, "data", "DATA")
           /\ f.state = "DATA" => Leads(f, "value", "VALUES")
           /\ f.state = "VALUES" => Leads(f, "value", "VALUES")
<1>0. Transitions[f.kind] = ArrayTable
  BY DEF Transitions
<1>1. ASSUME f.state = "NONE" PROVE Leads(f, "data", "DATA")
  <2>1. <<"NONE", "data", "DATA">> \in ArrayTable
    BY DEF ArrayTable
  <2>2. \A t \in ArrayTable : t[1] = "NONE" /\ t[2] = "data" => t[3] = "DATA"
    BY DEF ArrayTable
  <2> QED
    BY <1>0, <1>1, <2>1, <2>2, LeadsBy
<1>2. ASSUME f.state = "DATA" PROVE Leads(f, "value", "VALUES")
  <2>1. <<"DATA", "value", "VALUES">> \in ArrayTable
    BY DEF ArrayTable
  <2>2. \A t \in ArrayTable : t[1] = "DATA" /\ t[2] = "value" => t[3] = "VALUES"
    BY DEF ArrayTable
  <2> QED
    BY <1>0, <1>2, <2>1, <2>2, LeadsBy
<1>3. ASSUME f.state = "VALUES" PROVE Leads(f, "value", "VALUES")
  <2>1. <<"VALUES", "value", "VALUES">> \in ArrayTable
    BY DEF ArrayTable
  <2>2. \A t \in ArrayTable : t[1] = "VALUES" /\ t[2] = "value" => t[3] = "VALUES"
    BY DEF ArrayTable
  <2> QED
    BY <1>0, <1>3, <2>1, <2>2, LeadsBy
<1> QED
  BY <1>1, <1>2, <1>3

LEMMA RequestRows ==
    ASSUME NEW f, f.kind = "Request"
    PROVE  /\ f.state = "NONE" => Leads(f, "methodCall", "METHOD_CALL")
           /\ f.state = "METHOD_CALL" => Leads(f, "methodName", "METHOD_NAME")
           /\ f.state = "METHOD_NAME" => Leads(f, "params", "PARAMS")
           /\ f.state = "PARAMS" => Leads(f, "param", "PARAM")
           /\ f.state = "PARAM" => Leads(f, "value", "VALUE")
           /\ f.state = "VALUE" => Leads(f, "param", "PARAM")
<1>0. Transitions[f.kind] = RequestTable
  BY DEF Transitions
<1>1. ASSUME f.state = "NONE" PROVE Leads(f, "methodCall", "METHOD_CALL")
  <2>1. <<"NONE", "methodCall", "METHOD_CALL">> \in RequestTable
    BY DEF RequestTable
  <2>2. \A t \in RequestTable : t[1] = "NONE" /\ t[2] = "methodCall" => t[3] = "METHOD_CALL"
    BY DEF RequestTable
  <2> QED
    BY <1>0, <1>1, <2>1, <2>2, LeadsBy
<1>2. ASSUME f.state = "METHOD_CALL" PROVE Leads(f, "methodName", "METHOD_NAME")
  <2>1. <<"METHOD_CALL", "methodName", "METHOD_NAME">> \in RequestTable
    BY DEF RequestTable
  <2>2. \A t \in RequestTable : t[1] = "METHOD_CALL" /\ t[2] = "methodName" => t[3] = "METHOD_NAME"
    BY DEF RequestTable
  <2> QED
    BY <1>0, <1>2, <2>1, <2>2, LeadsBy
<1>3. ASSUME f.state = "METHOD_NAME" PROVE Leads(f, "params", "PARAMS")
  <2>1. <<"METHOD_NAME", "params", "PARAMS">> \in RequestTable
    BY DEF RequestTable
  <2>2. \A t \in RequestTable : t[1] = "METHOD_NAME" /\ t[2] = "params" => t[3] = "PARAMS"
    BY DEF RequestTable
  <2> QED
    BY <1>0, <1>3, <2>1, <2>2, LeadsBy
<1>4. ASSUME f.state = "PARAMS" PROVE Leads(f, "param", "PARAM")
  <2>1. <<"PARAMS", "param", "PARAM">> \in RequestTable
    BY DEF RequestTable
  <2>2. \A t \in RequestTable : t[1] = "PARAMS" /\ t[2] = "param" => t[3] = "PARAM"
    BY DEF RequestTable
  <2> QED
    BY <1>0, <1>4, <2>1, <2>2, LeadsBy
<1>5. ASSUME f.state = "PARAM" PROVE Leads(f, "value", "VALUE")
  <2>1. <<"PARAM", "value", "VALUE">> \in RequestTable
    BY DEF RequestTable
  <2>2. \A t \in RequestTable : t[1] = "PARAM" /\ t[2] = "value" => t[3] = "VALUE"
    BY DEF RequestTable
  <2> QED
    BY <1>0, <1>5, <2>1, <2>2, LeadsBy
<1>6. ASSUME f.state = "VALUE" PROVE Leads(f, "param", "PARAM")
  <2>1. <<"VALUE", "param", "PARAM">> \in RequestTable
    BY DEF RequestTable
  <2>2. \A t \in RequestTable : t[1] = "VALUE" /\ t[2] = "param" => t[3] = "PARAM"
    BY DEF RequestTable
  <2> QED
    BY <1>0, <1>6, <2>1, <2>2, LeadsBy
<1> QED
  BY <1>1, <1>2, <1>3, <1>4, <1>5, <1>6

LEMMA ResponseRows ==
    ASSUME NEW f, f.kind = "Response"
    PROVE  /\ f.state = "NONE" => Leads(f, "methodResponse", "RESPONSE")
           /\ f.state = "RESPONSE" => Leads(f, "params", "OK_RESPONSE")
           /\ f.state = "OK_RESPONSE" => Leads(f, "param", "OK_PARAM")
           /\ f.state = "OK_PARAM" => Leads(f, "value", "OK_PARAM_VALUE")
           /\ f.state = "RESPONSE" => Leads(f, "fault", "FAULT_RESPONSE")
           /\ f.state = "FAULT_RESPONSE" => Leads(f, "value", "FAULT_RESPONSE_VALUE")
<1>0. Transitions[f.kind] = ResponseTable
  BY DEF Transitions
<1>1. ASSUME f.state = "NONE" PROVE Leads(f, "methodResponse", "RESPONSE")
  <2>1. <<"NONE", "methodResponse", "RESPONSE">> \in ResponseTable
    BY DEF ResponseTable
  <2>2. \A t \in ResponseTable : t[1] = "NONE" /\ t[2] = "methodResponse" => t[3] = "RESPONSE"
    BY DEF ResponseTable
  <2> QED
    BY <1>0, <1>1, <2>1, <2>2, LeadsBy
<1>2. ASSUME f.state = "RESPONSE" PROVE Leads(f, "params", "OK_RESPONSE")
  <2>1. <<"RESPONSE", "params", "OK_RESPONSE">> \in ResponseTable
    BY DEF ResponseTable
  <2>2. \A t \in ResponseTable : t[1] = "RESPONSE" /\ t[2] = "params" => t[3] = "OK_RESPONSE"
    BY DEF ResponseTable
  <2> QED
    BY <1>0, <1>2, <2>1, <2>2, LeadsBy
<1>3. ASSUME f.state = "OK_RESPONSE" PROVE Leads(f, "param", "OK_PARAM")
  <2>1. <<"OK_RESPONSE", "param", "OK_PARAM">> \in ResponseTable
    BY DEF ResponseTable
  <2>2. \A t \in ResponseTable : t[1] = "OK_RESPONSE" /\ t[2] = "param" => t[3] = "OK_PARAM"
    BY DEF ResponseTable
  <2> QED
    BY <1>0, <1>3, <2>1, <2>2, LeadsBy
<1>4. ASSUME f.state = "OK_PARAM" PROVE Leads(f, "value", "OK_PARAM_VALUE")
  <2>1. <<"OK_PARAM", "value", "OK_PARAM_VALUE">> \in ResponseTable
    BY DEF ResponseTable
  <2>2. \A t \in ResponseTable : t[1] = "OK_PARAM" /\ t[2] = "value" => t[3] = "OK_PARAM_VALUE"
    BY DEF ResponseTable
  <2> QED
    BY <1>0, <1>4, <2>1, <2>2, LeadsBy
<1>5. ASSUME f.state = "RESPONSE" PROVE Leads(f, "fault", "FAULT_RESPONSE")
  <2>1. <<"RESPONSE", "fault", "FAULT_RESPONSE">> \in ResponseTable
    BY DEF ResponseTable
  <2>2. \A t \in ResponseTable : t[1] = "RESPONSE" /\ t[2] = "fault" => t[3] = "FAULT_RESPONSE"
    BY DEF ResponseTable
  <2> QED
    BY <1>0, <1>5, <2>1, <2>2, LeadsBy
<1>6. ASSUME f.state = "FAULT_RESPONSE" PROVE Leads(f, "value", "FAULT_RESPONSE_VALUE")
  <2>1. <<"FAULT_RESPONSE", "value", "FAULT_RESPONSE_VALUE">> \in ResponseTable
    BY DEF ResponseTable
  <2>2. \A t \in ResponseTable : t[1] = "FAULT_RESPONSE" /\ t[2] = "value" => t[3] = "FAULT_RESPONSE_VALUE"
    BY DEF ResponseTable
  <2> QED
    BY <1>0, <1>6, <2>1, <2>2, LeadsBy
<1> QED
  BY <1>1, <1>2, <1>3, <1>4, <1>5, <1>6

LEMMA ValueLeads ==
    ASSUME NEW f, f.kind = "Value", f.state = "VALUE"
    PROVE  /\ \A type \in DOMAIN TagOf : Leads(f, TagOf[type], type)
           /\ Leads(f, "struct", "STRUCT") /\ Leads(f, "array", "ARRAY")
  BY ValueRows, TagFacts

\* What a builder starts with.
LEMMA BuilderStarts ==
    ASSUME NEW kind \in {"Value", "Struct", "Array"}, NEW flat \in BOOLEAN,
           NEW f, f = Builder(kind, flat)
    PROVE  /\ IsFrame(f) /\ f.kind = kind /\ ~f.exit
           /\ f.depth = IF flat THEN 1 ELSE 0
           /\ kind = "Value" => f.state = "VALUE" /\ f.val = NoValue
           /\ kind = "Struct" => f.state = "NONE" /\ f.val = StructOf(<<>>)
           /\ kind = "Array" => f.state = "NONE" /\ f.val = ArrayOf(<<>>)
<1>1. IsFrame(f) /\ f.kind = kind /\ ~f.exit /\ f.depth = IF flat THEN 1 ELSE 0
  BY BuilderFacts
<1>2. f.state = IF kind = "Value" THEN "VALUE" ELSE "NONE"
  BY Zenon DEF Builder
<1>3. f.val = CASE kind = "Struct" -> StructOf(<<>>)
                [] kind = "Array"  -> ArrayOf(<<>>)
                [] OTHER           -> NoValue
  BY Zenon DEF Builder
<1> QED
  BY <1>1, <1>2, <1>3

LEMMA GoalFacts ==
    ASSUME NEW v, NEW after, NEW flat
    PROVE  Goal(v, after, flat).v = v /\ Goal(v, after, flat).after = after
           /\ Goal(v, after, flat).flat = flat
<1>1. Goal(v, after, flat).v = v
  BY Zenon DEF Goal
<1>2. Goal(v, after, flat).after = after
  BY Zenon DEF Goal
<1>3. Goal(v, after, flat).flat = flat
  BY Zenon DEF Goal
<1> QED
  BY <1>1, <1>2, <1>3

LEMMA NoMembersYet ==
    ASSUME NEW q
    PROVE  MembersSoFar(q, 0) = StructOf(<<>>)
<1>1. {Names(q.v)[i] : i \in 1..0} = {}
  OBVIOUS
<1>2. [n \in {} |-> q.v.fields[n]] = <<>>
  OBVIOUS
<1> QED
  BY <1>1, <1>2 DEF MembersSoFar

LEMMA NoItemsYet ==
    ASSUME NEW q, q.v.items \in Seq(Values)
    PROVE  ItemsSoFar(q, 0) = ArrayOf(<<>>)
<1>1. PICK s \in Seq(Values) : s = q.v.items
  OBVIOUS
<1>2. SubSeq(s, 1, 0) = <<>>
  OBVIOUS
<1> QED
  BY <1>1, <1>2 DEF ItemsSoFar

LEMMA GoesOn ==
    ASSUME NEW f, Stays(f), built' = built, NEW L, NowLeft(L),
           NEW q, NEW msg, NEW X, TopAt(f, q, L, built, msg, X)
    PROVE  Goes(q, msg, X)
  BY DEF Goes, NowLeft

LEMMA GoesDown ==
    ASSUME NEW g, NEW h, Pushed(g, h), UNCHANGED <<doc, built, outcome>>, NEW L, NowLeft(L),
           NEW q, NEW r, NEW kind, h.kind = kind, NEW msg, NEW X,
           Waits(g, q, kind, r, built, msg, X), TopAt(h, r, L, built, msg, X)
    PROVE  Goes(q, msg, X)
  BY DEF Goes, NowLeft

LEMMA EndingOf ==
    ASSUME NEW q, IsGoal(q)
    PROVE  Closing("value", q.after) \in Streams /\ q.after \in Streams
  BY ClosingType, Words DEF IsGoal

\* The value's element ends.
LEMMA ValueElementEnds ==
    ASSUME Running, NEW q, IsGoal(q), Top.kind = "Value", Top.depth = 1, q.flat = 1,
           Left(reader) = Closing("value", q.after), Emptied(Top) = q.v, q.v # NoValue,
           NEW msg, NEW X
    PROVE  Goes(q, msg, X)
<1>1. HasRead(Read(reader), "end", "value", q.after)
  BY EndRead, EndingOf, Words DEF Running
<1>2. PICK f : Shallower(f, Top, Top.state, q.v) /\ Stays(f) /\ built' = built /\ NowLeft(q.after)
  <2>1. PICK v : v = q.v
    OBVIOUS
  <2>2. PICK rest : rest = q.after
    OBVIOUS
  <2>3. Top.depth > 0
    OBVIOUS
  <2>4. \E f : Shallower(f, Top, Top.state, v) /\ Stays(f) /\ built' = built /\ NowLeft(rest)
    BY <1>1, <2>1, <2>2, <2>3, ValueEnds
  <2> QED
    BY <2>1, <2>2, <2>4
<1>3. f.kind = "Value" /\ f.exit /\ f.val = q.v
  BY <1>2 DEF Shallower
<1>4. ValueAt(f, q, q.after, X)
  BY <1>3 DEF ValueAt, ValueReturns
<1>5. TopAt(f, q, q.after, built, msg, X)
  BY <1>4 DEF TopAt
<1> QED
  BY <1>2, <1>5, GoesOn

\* A scalar's element begins.
LEMMA ScalarBegins ==
    ASSUME Running, Plain, NEW q, IsGoal(q), Top.kind = "Value", Top.state = "VALUE",
           Top.depth = q.flat, Top.val = NoValue, IsScalar(q.v),
           Left(reader) = Before(TextNode(TagOf[q.v.type], q.v.text), Closing("value", q.after)),
           NEW msg, NEW X
    PROVE  Goes(q, msg, X)
<1>1. PICK type \in DOMAIN TagOf : type = q.v.type
  BY DEF IsScalar
<1>2. PICK tag \in Strings : tag = TagOf[type]
  BY TagFacts, Words
<1>3. PICK text \in STRING : text = q.v.text
  BY DEF IsScalar
<1>4. PICK c \in Streams : c = TextData(text)
  BY <1>2, TextType
<1>5. PICK rest \in Streams : rest = Closing("value", q.after)
  BY EndingOf
<1>6. HasRead(Read(reader), "begin", tag, Before(c, Closing(tag, rest)))
  BY <1>1, <1>2, <1>3, <1>4, <1>5, BeginRead DEF Running, TextNode
<1>7. Leads(Top, tag, type)
  BY <1>2, ValueLeads
<1>8. type \notin {"NIL", "METHOD_NAME", "NAME_READ", "STRUCT", "ARRAY", "VALUE", "OK_PARAM_VALUE",
                   "FAULT_RESPONSE_VALUE", "VALUE_READ", "VALUES"}
  BY <1>1, TagFacts
<1>9. PICK L : L = Before(c, Closing(tag, rest))
  OBVIOUS
<1>10. PICK f : Deeper(f, Top, type) /\ Stays(f) /\ built' = built /\ NowLeft(L)
  BY <1>6, <1>7, <1>8, <1>9, MoveStep
<1>11. /\ f.kind = "Value" /\ f.depth = q.flat + 1 /\ f.state = type /\ ~f.exit
       /\ f.val = NoValue
  BY <1>10 DEF Deeper
<1>12. ScalarBegun(f, q, L)
  BY <1>1, <1>2, <1>3, <1>4, <1>5, <1>9, <1>11 DEF ScalarBegun, InScalar, ScalarRest
<1>13. TopAt(f, q, L, built, msg, X)
  BY <1>11, <1>12 DEF TopAt, ValueAt
<1> QED
  BY <1>10, <1>13, GoesOn

\* A string without its tag.
LEMMA UntaggedGoes ==
    ASSUME Running, Plain, NEW q, IsGoal(q), Top.kind = "Value", Top.state = "VALUE",
           Top.depth = q.flat, Top.val = NoValue, IsScalar(q.v), q.v.type = "STRING",
           Left(reader) = Before(TextData(q.v.text), Closing("value", q.after)),
           NEW msg, NEW X
    PROVE  Goes(q, msg, X)
<1>1. PICK text \in STRING \ Blank : text = q.v.text /\ text \in Legal["STRING"]
  BY PlainFacts DEF IsGoal
<1>2. q.v = Scalar("STRING", text) /\ q.v # NoValue
  BY <1>1, PlainFacts DEF IsScalar, IsGoal
<1>3. PICK rest \in Streams : rest = Closing("value", q.after)
  BY EndingOf
<1>4. CASE text = ""
  <2>1. Left(reader) = rest
    BY <1>1, <1>3, <1>4, NoText
  <2>2. q.v = EmptyString
    BY <1>2, <1>4 DEF EmptyString
  <2>3. CASE q.flat = 0
    <3>1. PICK after \in Streams : after = q.after
      BY EndingOf
    <3>2. Left(reader) = Closing("value", after) /\ "value" \in Strings /\ Top.depth = 0
      BY <1>3, <2>1, <2>3, <3>1, Words
    <3>3. PICK f : /\ Leaves(f, Top, Top.val) /\ f.exit /\ Stays(f) /\ built' = built
                   /\ NowLeft(Closing("value", after))
      BY <3>2, EndIsLeft
    <3>4. f.kind = "Value" /\ f.val = NoValue
      BY <3>3 DEF Leaves
    <3>5. ValueAt(f, q, rest, X)
      BY <1>3, <2>2, <2>3, <3>3, <3>4 DEF ValueAt, ValueReturns
    <3>6. TopAt(f, q, rest, built, msg, X)
      BY <3>5 DEF TopAt
    <3>7. NowLeft(rest)
      BY <1>3, <3>1, <3>3
    <3> QED
      BY <3>3, <3>6, <3>7, GoesOn
  <2>4. CASE q.flat = 1
    <3>1. Emptied(Top) = q.v
      BY <2>2 DEF Emptied
    <3> QED
      BY <1>2, <1>3, <2>1, <2>4, <3>1, ValueElementEnds
  <2> QED
    BY <2>3, <2>4 DEF IsGoal
<1>5. CASE text # ""
  <2>1. HasRead(Read(reader), "text", text, rest)
    BY <1>1, <1>3, <1>5, TextRead DEF Running
  <2>2. PICK type : type = IF Top.state = "VALUE" THEN "STRING" ELSE Top.state
    OBVIOUS
  <2>3. type = "STRING"
    BY <2>2
  <2>4. text \in Legal[type]
    BY <1>1, <2>3
  <2>5. PICK f : /\ Leaves(f, Top, Scalar(type, text)) /\ (f.exit <=> Top.state = "VALUE")
                 /\ Stays(f) /\ built' = built /\ NowLeft(rest)
    BY <2>1, <2>2, <2>4, TextStep
  <2>6. f.kind = "Value" /\ f.val = q.v /\ f.exit
    BY <1>2, <2>3, <2>5 DEF Leaves
  <2>7. ValueAt(f, q, rest, X)
    BY <1>3, <2>6 DEF ValueAt, ValueReturns
  <2>8. TopAt(f, q, rest, built, msg, X)
    BY <2>7 DEF TopAt
  <2> QED
    BY <2>5, <2>8, GoesOn
<1> QED
  BY <1>4, <1>5

\* A struct's or an array's element begins.
LEMMA ContainerBegins ==
    ASSUME Running, NEW q, IsGoal(q), Top.kind = "Value", Top.state = "VALUE",
           NEW X, WritesValues(X), NEW c, Contents(X, q.v, c),
           Left(reader) = Before(c, Closing("value", q.after)), NEW msg,
           IsArray(q.v, Values) \/ IsStruct(q.v, Values)
    PROVE  Goes(q, msg, X)
<1>1. PICK rest \in Streams : rest = Closing("value", q.after)
  BY EndingOf
<1>2. PICK v \in Values : v = q.v
  BY DEF IsGoal
<1>3. Writes(X, Values)
  BY WrittenStreams
<1>4. PICK r : r = Goal(v, rest, 0)
  OBVIOUS
<1>5. r.v = v /\ r.after = rest /\ r.flat = 0 /\ IsGoal(r)
  BY <1>4, GoalFacts DEF IsGoal
<1>6. CASE IsArray(q.v, Values)
  <2>1. PICK items \in Streams : items = Node("data", Joined(ItemsXml(v, X)))
    BY <1>2, <1>3, <1>6, ItemsType, JoinedType, NodeType, Words
  <2>2. c = Node("array", items)
    BY <1>2, <1>6, <2>1, ContentsFacts
  <2>3. PICK L : L = Before(items, Closing("array", rest))
    OBVIOUS
  <2>4. HasRead(Read(reader), "begin", "array", L)
    BY <1>1, <2>2, <2>3, BeginRead, Words DEF Running
  <2>5. Leads(Top, "array", "ARRAY")
    BY ValueLeads
  <2>6. PICK m : /\ Deeper(m, Top, "ARRAY") /\ Pushed(m, Builder(Starts(m), IsFlat(m)))
                 /\ UNCHANGED <<doc, built, outcome>> /\ NowLeft(L)
    BY <2>4, <2>5, CallStep
  <2>7. m.state = "ARRAY" /\ m.kind = "Value"
    BY <2>6 DEF Deeper
  <2>8. Starts(m) = "Array" /\ IsFlat(m) = TRUE
    BY <2>7 DEF Starts, IsFlat
  <2>9. PICK h : h = Builder("Array", TRUE)
    OBVIOUS
  <2>10. /\ h.kind = "Array" /\ ~h.exit /\ h.depth = 1 /\ h.state = "NONE"
         /\ h.val = ArrayOf(<<>>)
    BY <2>9, BuilderStarts
  <2>11. Pushed(m, h)
    BY <2>6, <2>8, <2>9
  <2>12. ArrayBegins(h, r, L, X)
    BY <1>2, <1>5, <1>6, <2>1, <2>3, <2>10 DEF ArrayBegins
  <2>13. TopAt(h, r, L, built, msg, X)
    BY <1>5, <2>10, <2>12 DEF TopAt, ArrayAt
  <2>14. Waits(m, q, "Array", r, built, msg, X)
    BY <1>1, <1>2, <1>5, <2>7 DEF Waits, ValueWaits
  <2> QED
    BY <2>6, <2>10, <2>11, <2>13, <2>14, GoesDown
<1>7. CASE IsStruct(q.v, Values)
  <2>1. PICK members \in Streams : members = Joined(MembersXml(v, X))
    BY <1>2, <1>3, <1>7, MembersType, JoinedType
  <2>2. c = Node("struct", members)
    BY <1>2, <1>7, <2>1, ContentsFacts
  <2>3. PICK L : L = Before(members, Closing("struct", rest))
    OBVIOUS
  <2>4. HasRead(Read(reader), "begin", "struct", L)
    BY <1>1, <2>2, <2>3, BeginRead, Words DEF Running
  <2>5. Leads(Top, "struct", "STRUCT")
    BY ValueLeads
  <2>6. PICK m : /\ Deeper(m, Top, "STRUCT") /\ Pushed(m, Builder(Starts(m), IsFlat(m)))
                 /\ UNCHANGED <<doc, built, outcome>> /\ NowLeft(L)
    BY <2>4, <2>5, CallStep
  <2>7. m.state = "STRUCT" /\ m.kind = "Value"
    BY <2>6 DEF Deeper
  <2>8. Starts(m) = "Struct" /\ IsFlat(m) = TRUE
    BY <2>7 DEF Starts, IsFlat
  <2>9. PICK h : h = Builder("Struct", TRUE)
    OBVIOUS
  <2>10. /\ h.kind = "Struct" /\ ~h.exit /\ h.depth = 1 /\ h.state = "NONE"
         /\ h.val = StructOf(<<>>)
    BY <2>9, BuilderStarts
  <2>11. Pushed(m, h)
    BY <2>6, <2>8, <2>9
  <2>12. StructBetween(h, r, L, X)
    <3>1. MembersXml(v, X) \in Seq(Streams) /\ Len(MembersXml(v, X)) = Len(Names(v))
      BY <1>2, <1>3, <1>7, MembersType
    <3>2. PICK parts \in Seq(Streams) : parts = MembersXml(v, X)
      BY <3>1
    <3>3. Len(parts) \in Nat /\ From(parts, 0) = Joined(parts)
      BY FromStart
    <3>4. L = StructRest(r, X, 0)
      BY <1>5, <2>1, <2>3, <3>2, <3>3 DEF StructRest
    <3>5. h.val = MembersSoFar(r, 0)
      BY <2>10, NoMembersYet
    <3>6. 0 <= Len(Names(r.v))
      BY <1>5, <3>1, <3>2, <3>3
    <3> QED
      BY <1>2, <1>5, <1>7, <2>10, <3>4, <3>5, <3>6 DEF StructBetween
  <2>13. TopAt(h, r, L, built, msg, X)
    BY <1>5, <2>10, <2>12 DEF TopAt, StructAt
  <2>14. Waits(m, q, "Struct", r, built, msg, X)
    BY <1>1, <1>2, <1>5, <2>7 DEF Waits, ValueWaits
  <2> QED
    BY <2>6, <2>10, <2>11, <2>13, <2>14, GoesDown
<1> QED
  BY <1>6, <1>7

\* A scalar's element ends.
LEMMA ScalarElementEnds ==
    ASSUME Running, Plain, NEW q, IsGoal(q), Top.kind = "Value", InScalar(Top, q),
           Left(reader) = ScalarRest(q), Emptied(Top) = q.v, NEW msg, NEW X
    PROVE  Goes(q, msg, X)
<1>1. PICK tag \in Strings : tag = TagOf[q.v.type]
  BY TagFacts, Words DEF InScalar, IsScalar
<1>2. PICK rest \in Streams : rest = Closing("value", q.after)
  BY EndingOf
<1>3. HasRead(Read(reader), "end", tag, rest)
  BY <1>1, <1>2, EndRead DEF Running, ScalarRest
<1>4. PICK v : v = q.v
  OBVIOUS
<1>5. v # NoValue
  BY <1>4, PlainFacts DEF IsGoal
<1>6. Top.depth > 0 /\ Top.depth = q.flat + 1 /\ q.flat \in {0, 1}
  BY DEF InScalar, IsGoal
<1>7. PICK f : Shallower(f, Top, Top.state, v) /\ Stays(f) /\ built' = built /\ NowLeft(rest)
  BY <1>3, <1>4, <1>5, <1>6, ValueEnds
<1>8. /\ f.kind = "Value" /\ f.val = q.v /\ f.depth = q.flat
      /\ f.exit <=> q.flat = 0
      /\ f.exit \in BOOLEAN
  BY <1>4, <1>6, <1>7 DEF Shallower, IsFrame
<1>9. CASE q.flat = 0
  <2>1. ValueAt(f, q, rest, X)
    BY <1>2, <1>8, <1>9 DEF ValueAt, ValueReturns
  <2>2. TopAt(f, q, rest, built, msg, X)
    BY <2>1 DEF TopAt
  <2> QED
    BY <1>7, <2>2, GoesOn
<1>10. CASE q.flat = 1
  <2>1. ValueAt(f, q, rest, X)
    BY <1>2, <1>8, <1>10 DEF ValueAt, ScalarEnded
  <2>2. TopAt(f, q, rest, built, msg, X)
    BY <2>1 DEF TopAt
  <2> QED
    BY <1>7, <2>2, GoesOn
<1> QED
  BY <1>6, <1>9, <1>10

\* A scalar's text.
LEMMA ScalarTextGoes ==
    ASSUME Running, Plain, NEW q, IsGoal(q), Top.kind = "Value",
           ScalarBegun(Top, q, Left(reader)), NEW msg, NEW X
    PROVE  Goes(q, msg, X)
<1>1. InScalar(Top, q) /\ Top.val = NoValue /\ IsScalar(q.v)
  BY DEF ScalarBegun, InScalar
<1>2. PICK text \in STRING \ Blank :
          text = q.v.text /\ text \in Legal[q.v.type] /\ (text = "" => q.v.type \in {"STRING", "BINARY"})
  BY <1>1, PlainFacts DEF IsGoal
<1>3. PICK rest \in Streams : rest = ScalarRest(q)
  <2>1. PICK tag \in Strings : tag = TagOf[q.v.type]
    BY <1>1, TagFacts, Words DEF IsScalar
  <2>2. PICK L \in Streams : L = Closing("value", q.after)
    BY EndingOf
  <2> QED
    BY <2>1, <2>2, ClosingType DEF ScalarRest
<1>4. q.v = Scalar(q.v.type, text) /\ Top.state = q.v.type /\ q.v.type \in DOMAIN TagOf
  BY <1>1, <1>2 DEF IsScalar, InScalar
<1>5. CASE text = ""
  <2>1. Left(reader) = rest
    BY <1>2, <1>3, <1>5, NoText DEF ScalarBegun
  <2>2. Emptied(Top) = q.v
    BY <1>1, <1>2, <1>4, <1>5 DEF Emptied, EmptyString
  <2> QED
    BY <1>1, <1>3, <2>1, <2>2, ScalarElementEnds
<1>6. CASE text # ""
  <2>1. HasRead(Read(reader), "text", text, rest)
    BY <1>2, <1>3, <1>6, TextRead DEF Running, ScalarBegun
  <2>2. PICK type : type = q.v.type
    OBVIOUS
  <2>3. type = IF Top.state = "VALUE" THEN "STRING" ELSE Top.state
    BY <1>4, <2>2, TagFacts
  <2>4. PICK f : /\ Leaves(f, Top, Scalar(type, text)) /\ (f.exit <=> Top.state = "VALUE")
                 /\ Stays(f) /\ built' = built /\ NowLeft(rest)
    BY <1>2, <2>1, <2>2, <2>3, TextStep
  <2>5. Top.state # "VALUE"
    BY <1>4, TagFacts
  <2>6. InScalar(f, q) /\ f.val = q.v /\ f.kind = "Value"
    BY <1>1, <1>4, <2>2, <2>4, <2>5 DEF InScalar, Leaves
  <2>7. ValueAt(f, q, rest, X)
    BY <1>3, <2>6 DEF ValueAt, ScalarRead
  <2>8. TopAt(f, q, rest, built, msg, X)
    BY <2>7 DEF TopAt
  <2> QED
    BY <2>4, <2>8, GoesOn
<1> QED
  BY <1>5, <1>6

LEMMA ValueGoes ==
    ASSUME Running, Plain, NEW q, NEW X, WritesValues(X), ValueAt(Top, q, Left(reader), X), NEW msg
    PROVE  Goes(q, msg, X)
<1>1. Top.kind = "Value" /\ IsGoal(q) /\ ~Top.exit /\ q.v # NoValue
  BY PlainFacts DEF ValueAt, Running, IsGoal
<1>2. CASE ValueBegins(Top, q, Left(reader), X)
  <2>1. PICK c : Contents(X, q.v, c) /\ Left(reader) = Before(c, Closing("value", q.after))
    BY <1>2 DEF ValueBegins
  <2>2. Top.state = "VALUE" /\ Top.depth = q.flat /\ Top.val = NoValue
    BY <1>2 DEF ValueBegins
  <2>3. CASE IsArray(q.v, Values) \/ IsStruct(q.v, Values)
    BY <1>1, <2>1, <2>2, <2>3, ContainerBegins
  <2>4. CASE IsScalar(q.v)
    <3>1. \/ c = TextNode(TagOf[q.v.type], q.v.text)
          \/ q.v.type = "STRING" /\ c = TextData(q.v.text)
      BY <1>1, <2>1, <2>4, ContentsFacts DEF IsGoal
    <3>2. CASE c = TextNode(TagOf[q.v.type], q.v.text)
      <4>1. Left(reader) = Before(TextNode(TagOf[q.v.type], q.v.text), Closing("value", q.after))
        BY <2>1, <3>2
      <4> QED
        BY <1>1, <2>2, <2>4, <4>1, ScalarBegins
    <3>3. CASE q.v.type = "STRING" /\ c = TextData(q.v.text)
      <4>1. Left(reader) = Before(TextData(q.v.text), Closing("value", q.after))
        BY <2>1, <3>3
      <4> QED
        BY <1>1, <2>2, <2>4, <3>3, <4>1, UntaggedGoes
    <3> QED
      BY <3>1, <3>2, <3>3
  <2> QED
    BY <1>1, <2>3, <2>4, PlainFacts DEF IsGoal
<1>3. CASE ScalarBegun(Top, q, Left(reader))
  BY <1>1, <1>3, ScalarTextGoes
<1>4. CASE ScalarRead(Top, q, Left(reader))
  <2>1. InScalar(Top, q) /\ Left(reader) = ScalarRest(q) /\ Top.val = q.v
    BY <1>4 DEF ScalarRead
  <2>2. Emptied(Top) = q.v
    BY <1>1, <2>1 DEF Emptied
  <2> QED
    BY <1>1, <2>1, <2>2, ScalarElementEnds
<1>5. CASE ScalarEnded(Top, q, Left(reader))
  <2>1. q.flat = 1 /\ Top.depth = 1 /\ Left(reader) = Closing("value", q.after) /\ Top.val = q.v
    BY <1>5 DEF ScalarEnded
  <2>2. Emptied(Top) = q.v
    BY <1>1, <2>1 DEF Emptied
  <2> QED
    BY <1>1, <2>1, <2>2, ValueElementEnds
<1>6. CASE ValueReturns(Top, q, Left(reader))
  BY <1>1, <1>6 DEF ValueReturns
<1> QED
  BY <1>2, <1>3, <1>4, <1>5, <1>6 DEF ValueAt

-----------------------------------------------------------------------------
(* Structs *)

LEMMA MembersFacts ==
    ASSUME NEW q, IsGoal(q), IsStruct(q.v, Values), NEW X, WritesValues(X), NEW k \in Nat, k <= Len(Names(q.v))
    PROVE  /\ MembersXml(q.v, X) \in Seq(Streams)
           /\ Len(MembersXml(q.v, X)) = Len(Names(q.v)) /\ Len(Names(q.v)) \in Nat
           /\ StructRest(q, X, k) \in Streams
           /\ MemberRest(q, X, k) \in Streams
           /\ k > 0 => PartAt(q, k) \in Values /\ PartRest(q, X, k) \in Streams
           /\ k > 0 => NameAt(q, k) \in DOMAIN q.v.fields
<1>1. Writes(X, Values)
  BY WrittenStreams
<1>2. MembersXml(q.v, X) \in Seq(Streams) /\ Len(MembersXml(q.v, X)) = Len(Names(q.v))
  BY <1>1, MembersType
<1>3. /\ Len(Names(q.v)) \in Nat
      /\ \A i \in 1..Len(Names(q.v)) : Names(q.v)[i] \in DOMAIN q.v.fields
  BY NamesFacts DEF IsStruct
<1>4. Closing("struct", q.after) \in Streams
  BY ClosingType, Words DEF IsGoal
<1>5. From(MembersXml(q.v, X), k) \in Streams
  BY <1>2, <1>3, FromType
<1>6. StructRest(q, X, k) \in Streams
  BY <1>4, <1>5, BeforeType DEF StructRest
<1>7. MemberRest(q, X, k) \in Streams
  BY <1>6, ClosingType, Words DEF MemberRest
<1>8. ASSUME k > 0 PROVE /\ NameAt(q, k) \in DOMAIN q.v.fields
                         /\ PartAt(q, k) \in Values /\ PartRest(q, X, k) \in Streams
  <2>1. k \in 1..Len(Names(q.v))
    BY <1>3, <1>8
  <2>2. NameAt(q, k) \in DOMAIN q.v.fields
    BY <1>3, <2>1 DEF NameAt
  <2>3. PartAt(q, k) \in Values
    BY <2>2 DEF PartAt, IsStruct
  <2>4. X[PartAt(q, k)] \in Streams
    BY <1>1, <2>3 DEF Writes
  <2> QED
    BY <1>7, <2>2, <2>3, <2>4, BeforeType DEF PartRest
<1> QED
  BY <1>2, <1>3, <1>6, <1>7, <1>8

\* Struct::insert()
LEMMA InsertedNext ==
    ASSUME NEW f, NEW q, NEW k \in Nat, f.val = MembersSoFar(q, k),
           f.name = NameAt(q, k + 1), f.member = PartAt(q, k + 1)
    PROVE  Inserted(f) = MembersSoFar(q, k + 1)
<1> DEFINE S == {Names(q.v)[i] : i \in 1..k}
           T == {Names(q.v)[i] : i \in 1..(k + 1)}
           g == [n \in S |-> q.v.fields[n]]
<1>1. T = S \cup {f.name}
  <2>1. 1..(k + 1) = 1..k \cup {k + 1}
    OBVIOUS
  <2> QED
    BY <2>1 DEF NameAt
<1>2. f.val.fields = g
  BY Zenon, ContainerParts DEF MembersSoFar
<1>3. DOMAIN g = S /\ \A n \in S : g[n] = q.v.fields[n]
  OBVIOUS
<1>4. f.member = q.v.fields[f.name]
  BY DEF PartAt
<1> HIDE DEF S, T, g
<1>5. PICK old : old = f.val.fields
  OBVIOUS
<1>6. DOMAIN old = S /\ \A n \in S : old[n] = q.v.fields[n]
  BY <1>2, <1>3, <1>5
<1>7. [n \in DOMAIN old \cup {f.name} |-> IF n = f.name THEN f.member ELSE old[n]]
         = [n \in T |-> q.v.fields[n]]
  BY <1>1, <1>4, <1>6
<1>8. Inserted(f) = StructOf([n \in DOMAIN old \cup {f.name} |->
                                 IF n = f.name THEN f.member ELSE old[n]])
  BY <1>5 DEF Inserted
<1> QED
  BY <1>7, <1>8 DEF MembersSoFar, T

LEMMA AllMembers ==
    ASSUME NEW q, IsStruct(q.v, Values)
    PROVE  MembersSoFar(q, Len(Names(q.v))) = q.v
<1>1. /\ \A i \in 1..Len(Names(q.v)) : Names(q.v)[i] \in DOMAIN q.v.fields
      /\ \A n \in DOMAIN q.v.fields : \E i \in 1..Len(Names(q.v)) : Names(q.v)[i] = n
  BY NamesFacts DEF IsStruct
<1>2. {Names(q.v)[i] : i \in 1..Len(Names(q.v))} = DOMAIN q.v.fields
  BY <1>1
<1>3. [n \in DOMAIN q.v.fields |-> q.v.fields[n]] = q.v.fields
  BY DEF IsStruct
<1>4. q.v = StructOf(q.v.fields)
  BY DEF IsStruct
<1> QED
  BY <1>2, <1>3, <1>4 DEF MembersSoFar

\* A member begins, or the struct ends.
LEMMA BetweenMembersGoes ==
    ASSUME Running, NEW q, IsGoal(q), NEW X, WritesValues(X), Top.kind = "Struct",
           StructBetween(Top, q, Left(reader), X), NEW msg
    PROVE  Goes(q, msg, X)
<1>1. PICK k \in Nat : /\ k <= Len(Names(q.v)) /\ Top.val = MembersSoFar(q, k)
                       /\ Left(reader) = StructRest(q, X, k)
  BY DEF StructBetween
<1>2. IsStruct(q.v, Values) /\ Top.state = "NONE" /\ Top.depth = 1 /\ ~Top.exit
  BY DEF StructBetween
<1>3. /\ MembersXml(q.v, X) \in Seq(Streams)
      /\ Len(MembersXml(q.v, X)) = Len(Names(q.v)) /\ Len(Names(q.v)) \in Nat
  BY <1>1, <1>2, MembersFacts
<1>4. PICK after \in Streams : after = q.after
  BY DEF IsGoal
<1>5. PICK end \in Streams : end = Closing("struct", after)
  BY ClosingType, Words
<1>6. PICK parts \in Seq(Streams) : parts = MembersXml(q.v, X)
  BY <1>3
<1>7. CASE k = Len(Names(q.v))
  <2>1. Left(reader) = Closing("struct", after)
    BY <1>1, <1>3, <1>4, <1>5, <1>6, <1>7, FromLast DEF StructRest
  <2>2. HasRead(Read(reader), "end", "struct", after)
    BY <2>1, EndRead, Words DEF Running
  <2>3. Top.depth > 0 /\ "struct" # "member" /\ Top.kind # "Value"
    BY <1>2
  <2>4. PICK f : Shallower(f, Top, Top.state, Top.val) /\ Stays(f) /\ built' = built /\ NowLeft(after)
    BY <2>2, <2>3, OtherEnds
  <2>5. f.kind = "Struct" /\ f.exit /\ f.val = q.v
    BY <1>1, <1>2, <1>7, <2>4, AllMembers DEF Shallower
  <2>6. StructAt(f, q, after, X)
    BY <1>4, <2>5 DEF StructAt, ContainerReturns
  <2>7. TopAt(f, q, after, built, msg, X)
    BY <2>6 DEF TopAt
  <2> QED
    BY <2>4, <2>7, GoesOn
<1>8. CASE k # Len(Names(q.v))
  <2>1. k < Len(Names(q.v)) /\ k < Len(parts) /\ k + 1 \in 1..Len(Names(q.v))
    BY <1>1, <1>3, <1>6, <1>8
  <2>2. PICK rest \in Streams : rest = StructRest(q, X, k + 1)
    BY <1>2, <2>1, MembersFacts
  <2>3. PICK a \in Streams : a = TextNode("name", NameAt(q, k + 1))
    <3>1. NameAt(q, k + 1) \in STRING
      BY <1>2, <2>1, MembersFacts DEF IsStruct
    <3> QED
      BY <3>1, TextType, Words
  <2>4. PICK b \in Streams : b = X[PartAt(q, k + 1)]
    <3>1. PartAt(q, k + 1) \in Values
      BY <1>2, <2>1, MembersFacts
    <3> QED
      BY <3>1, WrittenStreams DEF Writes
  <2>5. PICK c \in Streams : c = a \o b
    BY StreamFacts
  <2>6. parts[k + 1] = Node("member", c)
    <3>1. k + 1 \in DOMAIN Names(q.v)
      BY <1>2, <2>1, NamesFacts DEF IsStruct
    <3>2. parts[k + 1] = MemberXml(q.v, X, NameAt(q, k + 1))
      BY <1>6, <3>1 DEF MembersXml, NameAt
    <3> QED
      BY <2>3, <2>4, <2>5, <3>2 DEF MemberXml, PartAt
  <2>7. Left(reader) = Before(Node("member", c), rest)
    <3>1. Before(From(parts, k), end) = Before(parts[k + 1], Before(From(parts, k + 1), end))
      BY <2>1, FromSplit
    <3> QED
      BY <1>1, <1>4, <1>5, <1>6, <2>2, <2>6, <3>1 DEF StructRest
  <2>8. PICK z \in Streams : z = Closing("member", rest)
    BY ClosingType, Words
  <2>9. PICK L : L = Before(c, z)
    OBVIOUS
  <2>10. HasRead(Read(reader), "begin", "member", L)
    BY <2>7, <2>8, <2>9, BeginRead, Words DEF Running
  <2>11. L = Before(TextNode("name", NameAt(q, k + 1)), PartRest(q, X, k + 1))
    <3>1. Before(a \o b, z) = Before(a, Before(b, z))
      BY BeforeAssoc
    <3> QED
      BY <2>2, <2>3, <2>4, <2>5, <2>8, <2>9, <3>1 DEF PartRest, MemberRest
  <2>12. Leads(Top, "member", "MEMBER")
    BY <1>2, StructRows
  <2>13. PICK f : Deeper(f, Top, "MEMBER") /\ Stays(f) /\ built' = built /\ NowLeft(L)
    BY <2>10, <2>12, MoveStep
  <2>14. f.kind = "Struct" /\ f.depth = 2 /\ f.state = "MEMBER" /\ ~f.exit /\ f.val = Top.val
    BY <1>2, <2>13 DEF Deeper
  <2>15. MemberBegun(f, q, L, X, k)
    BY <1>1, <1>2, <2>1, <2>11, <2>14 DEF MemberBegun, InMember
  <2>16. TopAt(f, q, L, built, msg, X)
    BY <2>14, <2>15 DEF TopAt, StructAt
  <2> QED
    BY <2>13, <2>16, GoesOn
<1> QED
  BY <1>7, <1>8

\* The name of a member.
LEMMA MemberNameGoes ==
    ASSUME Running, Plain, NEW q, IsGoal(q), NEW X, WritesValues(X), Top.kind = "Struct",
           NEW k, MemberBegun(Top, q, Left(reader), X, k), NEW msg
    PROVE  Goes(q, msg, X)
<1>1. /\ InMember(Top, q, k) /\ IsStruct(q.v, Values) /\ k \in Nat /\ k < Len(Names(q.v))
      /\ Top.state = "MEMBER" /\ Top.depth = 2
  BY DEF MemberBegun, InMember
<1>2. k + 1 \in Nat /\ k + 1 <= Len(Names(q.v)) /\ k + 1 > 0
  <2>1. Len(Names(q.v)) \in Nat
    BY <1>1, NamesFacts DEF IsStruct
  <2> QED
    BY <1>1, <2>1
<1>3. PICK n \in STRING \ Blank : n = NameAt(q, k + 1) /\ n # ""
  BY <1>1, <1>2, MembersFacts, PlainFacts DEF IsGoal
<1>4. PICK rest \in Streams : rest = PartRest(q, X, k + 1)
  BY <1>1, <1>2, MembersFacts
<1>5. PICK c \in Streams : c = TextData(n)
  BY <1>3, TextType, Words
<1>6. HasRead(Read(reader), "begin", "name", Before(TextData(n), Closing("name", rest)))
  <2>1. Left(reader) = Before(Node("name", c), rest)
    BY <1>3, <1>4, <1>5 DEF MemberBegun, TextNode
  <2>2. HasRead(Read(reader), "begin", "name", Before(c, Closing("name", rest)))
    BY <2>1, BeginRead, Words DEF Running
  <2> QED
    BY <1>5, <2>2
<1>7. Leads(Top, "name", "NAME_READ")
  BY <1>1, StructRows
<1>8. PICK f : /\ Named(f, Top, "NAME_READ", n) /\ Stays(f)
               /\ Top.kind # "Request" => built' = built
               /\ NowLeft(Closing("name", rest)) \/ (n = "" /\ NowLeft(rest))
  BY <1>6, <1>7, NameStep, Words
<1>9. PICK L : L = Closing("name", rest)
  OBVIOUS
<1>10. NowLeft(L) /\ built' = built
  BY <1>3, <1>8, <1>9
<1>11. /\ f.kind = "Struct" /\ f.depth = 3 /\ f.state = "NAME_READ" /\ ~f.exit /\ f.val = Top.val
       /\ f.name = n
  <2>1. Named(f, Top, "NAME_READ", n)
    BY <1>8
  <2>2. Top.depth = 2
    BY <1>1
  <2> QED
    BY <2>1, <2>2 DEF Named
<1>12. NameRead(f, q, L, X, k)
  BY <1>1, <1>3, <1>4, <1>9, <1>11 DEF NameRead, InMember
<1>13. TopAt(f, q, L, built, msg, X)
  BY <1>11, <1>12 DEF TopAt, StructAt
<1> QED
  BY <1>8, <1>10, <1>13, GoesOn

\* The end of a name's or of a value's element.
LEMMA InMemberEnds ==
    ASSUME Running, NEW q, IsGoal(q), NEW X, WritesValues(X), Top.kind = "Struct",
           NEW k, NameRead(Top, q, Left(reader), X, k) \/ PartRead(Top, q, Left(reader), X, k), NEW msg
    PROVE  Goes(q, msg, X)
<1>1. /\ InMember(Top, q, k) /\ IsStruct(q.v, Values) /\ k \in Nat /\ k < Len(Names(q.v))
      /\ Top.depth = 3
  BY DEF NameRead, PartRead, InMember
<1>2. k + 1 \in Nat /\ k + 1 <= Len(Names(q.v)) /\ k + 1 > 0
  <2>1. Len(Names(q.v)) \in Nat
    BY <1>1, NamesFacts DEF IsStruct
  <2> QED
    BY <1>1, <2>1
<1>3. PICK t \in Strings, rest \in Streams :
         /\ t # "member" /\ Left(reader) = Closing(t, rest)
         /\ \/ NameRead(Top, q, Left(reader), X, k) /\ rest = PartRest(q, X, k + 1)
            \/ PartRead(Top, q, Left(reader), X, k) /\ rest = MemberRest(q, X, k + 1)
  <2>1. PartRest(q, X, k + 1) \in Streams /\ MemberRest(q, X, k + 1) \in Streams
    BY <1>1, <1>2, MembersFacts
  <2>2. "name" \in Strings /\ "value" \in Strings
    BY Words
  <2> QED
    BY <2>1, <2>2 DEF NameRead, PartRead
<1>4. HasRead(Read(reader), "end", t, rest)
  BY <1>3, EndRead DEF Running
<1>5. Top.depth > 0 /\ Top.kind # "Value"
  BY <1>1
<1>6. PICK f : Shallower(f, Top, Top.state, Top.val) /\ Stays(f) /\ built' = built /\ NowLeft(rest)
  BY <1>3, <1>4, <1>5, OtherEnds
<1>7. /\ f.kind = "Struct" /\ f.depth = 2 /\ ~f.exit /\ f.val = Top.val /\ f.state = Top.state
      /\ f.name = Top.name /\ f.member = Top.member
  BY <1>1, <1>6 DEF Shallower
<1>8. NameEnded(f, q, rest, X, k) \/ PartEnded(f, q, rest, X, k)
  BY <1>1, <1>3, <1>7 DEF NameRead, PartRead, NameEnded, PartEnded, InMember
<1>9. TopAt(f, q, rest, built, msg, X)
  BY <1>7, <1>8 DEF TopAt, StructAt
<1> QED
  BY <1>6, <1>9, GoesOn

\* The value of a member begins.
LEMMA PartBegins ==
    ASSUME Running, NEW q, IsGoal(q), NEW X, WritesValues(X), Top.kind = "Struct",
           NEW k, NameEnded(Top, q, Left(reader), X, k), NEW msg
    PROVE  Goes(q, msg, X)
<1>1. /\ InMember(Top, q, k) /\ IsStruct(q.v, Values) /\ k \in Nat /\ k < Len(Names(q.v))
      /\ Top.depth = 2 /\ Top.state = "NAME_READ"
  BY DEF NameEnded, InMember
<1>2. k + 1 \in Nat /\ k + 1 <= Len(Names(q.v)) /\ k + 1 > 0
  <2>1. Len(Names(q.v)) \in Nat
    BY <1>1, NamesFacts DEF IsStruct
  <2> QED
    BY <1>1, <2>1
<1>3. PICK v \in Values : v = PartAt(q, k + 1)
  BY <1>1, <1>2, MembersFacts
<1>4. PICK rest \in Streams : rest = MemberRest(q, X, k + 1)
  BY <1>1, <1>2, MembersFacts
<1>5. PICK c \in Streams : Contents(X, v, c) /\ X[v] = Node("value", c)
  BY ContentsExist
<1>6. PICK L : L = Before(c, Closing("value", rest))
  OBVIOUS
<1>7. HasRead(Read(reader), "begin", "value", L)
  <2>1. Left(reader) = Before(Node("value", c), rest)
    BY <1>3, <1>4, <1>5 DEF NameEnded, PartRest
  <2> QED
    BY <1>6, <2>1, BeginRead, Words DEF Running
<1>8. Leads(Top, "value", "VALUE_READ")
  BY <1>1, StructRows
<1>9. PICK m : /\ Deeper(m, Top, "VALUE_READ") /\ Pushed(m, Builder(Starts(m), IsFlat(m)))
               /\ UNCHANGED <<doc, built, outcome>> /\ NowLeft(L)
  BY <1>7, <1>8, CallStep
<1>10. /\ m.state = "VALUE_READ" /\ m.kind = "Struct" /\ m.depth = 3 /\ ~m.exit
       /\ m.val = Top.val /\ m.name = Top.name
  BY <1>1, <1>9 DEF Deeper
<1>11. Starts(m) = "Value" /\ IsFlat(m) = FALSE
  BY <1>10 DEF Starts, IsFlat
<1>12. PICK h : h = Builder("Value", FALSE)
  OBVIOUS
<1>13. h.kind = "Value" /\ ~h.exit /\ h.depth = 0 /\ h.state = "VALUE" /\ h.val = NoValue
  BY <1>12, BuilderStarts
<1>14. Pushed(m, h)
  BY <1>9, <1>11, <1>12
<1>15. PICK r : r.v = v /\ r.after = rest /\ r.flat = 0 /\ IsGoal(r)
  <2>1. PICK r : r = Goal(v, rest, 0)
    OBVIOUS
  <2>2. r.v = v /\ r.after = rest /\ r.flat = 0
    BY <2>1, GoalFacts
  <2> QED
    BY <2>2 DEF IsGoal
<1>16. ValueBegins(h, r, L, X)
  BY <1>5, <1>6, <1>13, <1>15 DEF ValueBegins
<1>17. TopAt(h, r, L, built, msg, X)
  BY <1>13, <1>15, <1>16 DEF TopAt, ValueAt
<1>18. PartAwaited(m, q, X, k, r)
  BY <1>1, <1>3, <1>4, <1>10, <1>15 DEF PartAwaited, InMember, NameEnded
<1>19. Waits(m, q, "Value", r, built, msg, X)
  BY <1>10, <1>18 DEF Waits, StructWaits
<1> QED
  BY <1>9, <1>13, <1>14, <1>17, <1>19, GoesDown

\* A member ends.
LEMMA MemberEndGoes ==
    ASSUME Running, NEW q, IsGoal(q), NEW X, WritesValues(X), Top.kind = "Struct",
           NEW k, PartEnded(Top, q, Left(reader), X, k), NEW msg
    PROVE  Goes(q, msg, X)
<1>1. /\ InMember(Top, q, k) /\ IsStruct(q.v, Values) /\ k \in Nat /\ k < Len(Names(q.v))
      /\ Top.depth = 2 /\ Top.state = "VALUE_READ"
      /\ Top.val = MembersSoFar(q, k) /\ Top.name = NameAt(q, k + 1) /\ Top.member = PartAt(q, k + 1)
  BY DEF PartEnded, InMember
<1>2. k + 1 \in Nat /\ k + 1 <= Len(Names(q.v)) /\ k + 1 > 0
  <2>1. Len(Names(q.v)) \in Nat
    BY <1>1, NamesFacts DEF IsStruct
  <2> QED
    BY <1>1, <2>1
<1>3. PICK rest \in Streams : rest = StructRest(q, X, k + 1)
  BY <1>1, <1>2, MembersFacts
<1>4. HasRead(Read(reader), "end", "member", rest)
  <2>1. Left(reader) = Closing("member", rest)
    BY <1>3 DEF PartEnded, MemberRest
  <2> QED
    BY <2>1, EndRead, Words DEF Running
<1>5. Top.depth > 0
  BY <1>1
<1>6. PICK f : /\ Shallower(f, Top, "NONE", Inserted(Top)) /\ Stays(f) /\ built' = built
               /\ NowLeft(rest)
  BY <1>1, <1>4, <1>5, MemberEnds
<1>7. f.val = MembersSoFar(q, k + 1)
  BY <1>1, <1>6, InsertedNext DEF Shallower
<1>8. f.kind = "Struct" /\ f.depth = 1 /\ ~f.exit /\ f.state = "NONE"
  BY <1>1, <1>6 DEF Shallower
<1>9. StructBetween(f, q, rest, X)
  BY <1>1, <1>2, <1>3, <1>7, <1>8 DEF StructBetween
<1>10. TopAt(f, q, rest, built, msg, X)
  BY <1>8, <1>9 DEF TopAt, StructAt
<1> QED
  BY <1>6, <1>10, GoesOn

LEMMA StructGoes ==
    ASSUME Running, Plain, NEW q, NEW X, WritesValues(X), StructAt(Top, q, Left(reader), X), NEW msg
    PROVE  Goes(q, msg, X)
<1>1. Top.kind = "Struct" /\ IsGoal(q) /\ ~Top.exit
  BY DEF StructAt, Running
<1>2. CASE StructBetween(Top, q, Left(reader), X)
  BY <1>1, <1>2, BetweenMembersGoes
<1>3. ASSUME NEW k, MemberBegun(Top, q, Left(reader), X, k) PROVE Goes(q, msg, X)
  BY <1>1, <1>3, MemberNameGoes
<1>4. ASSUME NEW k, NameRead(Top, q, Left(reader), X, k) \/ PartRead(Top, q, Left(reader), X, k)
      PROVE  Goes(q, msg, X)
  BY <1>1, <1>4, InMemberEnds
<1>5. ASSUME NEW k, NameEnded(Top, q, Left(reader), X, k) PROVE Goes(q, msg, X)
  BY <1>1, <1>5, PartBegins
<1>6. ASSUME NEW k, PartEnded(Top, q, Left(reader), X, k) PROVE Goes(q, msg, X)
  BY <1>1, <1>6, MemberEndGoes
<1>7. CASE ContainerReturns(Top, q, Left(reader))
  BY <1>1, <1>7 DEF ContainerReturns
<1> QED
  BY <1>2, <1>3, <1>4, <1>5, <1>6, <1>7 DEF StructAt

-----------------------------------------------------------------------------
(* Arrays *)

LEMMA ItemsFacts ==
    ASSUME NEW q, IsGoal(q), IsArray(q.v, Values), NEW X, WritesValues(X),
           NEW k \in Nat, k <= Len(q.v.items)
    PROVE  /\ ItemsXml(q.v, X) \in Seq(Streams)
           /\ Len(ItemsXml(q.v, X)) = Len(q.v.items) /\ Len(q.v.items) \in Nat
           /\ Closing("data", Closing("array", q.after)) \in Streams
           /\ Closing("array", q.after) \in Streams
           /\ ArrayRest(q, X, k) \in Streams
           /\ k > 0 => /\ q.v.items[k] \in Values
                       /\ ItemsXml(q.v, X)[k] = X[q.v.items[k]]
<1>1. Writes(X, Values)
  BY WrittenStreams
<1>2. ItemsXml(q.v, X) \in Seq(Streams) /\ Len(ItemsXml(q.v, X)) = Len(q.v.items)
  BY <1>1, ItemsType
<1>3. q.v.items \in Seq(Values)
  BY DEF IsArray
<1>4. PICK items \in Seq(Values) : items = q.v.items
  BY <1>3
<1>5. Len(items) \in Nat /\ DOMAIN items = 1..Len(items) /\ \A i \in 1..Len(items) : items[i] \in Values
  OBVIOUS
<1>6. PICK end \in Streams : end = Closing("array", q.after)
  BY ClosingType, Words DEF IsGoal
<1>7. Closing("data", end) \in Streams
  BY ClosingType, Words
<1>8. From(ItemsXml(q.v, X), k) \in Streams
  BY <1>2, <1>4, <1>5, FromType
<1>9. ArrayRest(q, X, k) \in Streams
  BY <1>6, <1>7, <1>8, BeforeType DEF ArrayRest
<1>10. k > 0 => /\ q.v.items[k] \in Values
                /\ ItemsXml(q.v, X)[k] = X[q.v.items[k]]
  BY <1>4, <1>5 DEF ItemsXml
<1> QED
  BY <1>2, <1>4, <1>5, <1>6, <1>7, <1>9, <1>10

LEMMA AllItems ==
    ASSUME NEW q, IsArray(q.v, Values)
    PROVE  ItemsSoFar(q, Len(q.v.items)) = q.v
<1>1. q.v.items \in Seq(Values) /\ q.v = ArrayOf(q.v.items)
  BY DEF IsArray
<1>2. PICK items \in Seq(Values) : items = q.v.items
  BY <1>1
<1>3. SubSeq(items, 1, Len(items)) = items
  OBVIOUS
<1> QED
  BY <1>1, <1>2, <1>3 DEF ItemsSoFar

\* <data> begins.
LEMMA DataBegins ==
    ASSUME Running, NEW q, IsGoal(q), NEW X, WritesValues(X), Top.kind = "Array",
           ArrayBegins(Top, q, Left(reader), X), NEW msg
    PROVE  Goes(q, msg, X)
<1>1. /\ IsArray(q.v, Values) /\ Top.state = "NONE" /\ Top.depth = 1 /\ Top.val = ArrayOf(<<>>)
      /\ Left(reader) = Before(Node("data", Joined(ItemsXml(q.v, X))), Closing("array", q.after))
  BY DEF ArrayBegins
<1>2. q.v.items \in Seq(Values)
  BY <1>1 DEF IsArray
<1>3. 0 \in Nat /\ 0 <= Len(q.v.items)
  BY <1>2, LengthFacts
<1>4. /\ ItemsXml(q.v, X) \in Seq(Streams)
      /\ Closing("array", q.after) \in Streams
      /\ ArrayRest(q, X, 0) \in Streams
  BY <1>1, <1>3, ItemsFacts
<1>5. PICK parts \in Seq(Streams) : parts = ItemsXml(q.v, X)
  BY <1>4
<1>6. PICK c \in Streams : c = Joined(parts) /\ c = From(parts, 0)
  <2>1. Len(parts) \in Nat
    OBVIOUS
  <2> QED
    BY <2>1, JoinedType, FromStart
<1>7. PICK end \in Streams : end = Closing("array", q.after)
  BY <1>4
<1>8. PICK L : L = Before(c, Closing("data", end))
  OBVIOUS
<1>9. HasRead(Read(reader), "begin", "data", L)
  <2>1. Left(reader) = Before(Node("data", c), end)
    BY <1>1, <1>5, <1>6, <1>7
  <2> QED
    BY <1>8, <2>1, BeginRead, Words DEF Running
<1>10. Leads(Top, "data", "DATA")
  BY <1>1, ArrayRows
<1>11. PICK f : Deeper(f, Top, "DATA") /\ Stays(f) /\ built' = built /\ NowLeft(L)
  BY <1>9, <1>10, MoveStep
<1>12. f.kind = "Array" /\ f.depth = 2 /\ f.state = "DATA" /\ ~f.exit /\ f.val = ArrayOf(<<>>)
  BY <1>1, <1>11 DEF Deeper
<1>13. L = ArrayRest(q, X, 0)
  BY <1>5, <1>6, <1>7, <1>8 DEF ArrayRest
<1>14. f.val = ItemsSoFar(q, 0)
  BY <1>2, <1>12, NoItemsYet
<1>15. ArrayBetween(f, q, L, X, 0)
  BY <1>1, <1>3, <1>12, <1>13, <1>14 DEF ArrayBetween, InArray
<1>16. TopAt(f, q, L, built, msg, X)
  BY <1>12, <1>15 DEF TopAt, ArrayAt
<1> QED
  BY <1>11, <1>16, GoesOn

\* An item begins, or <data> ends.
LEMMA BetweenItemsGoes ==
    ASSUME Running, NEW q, IsGoal(q), NEW X, WritesValues(X), Top.kind = "Array",
           NEW k, ArrayBetween(Top, q, Left(reader), X, k), NEW msg
    PROVE  Goes(q, msg, X)
<1>1. /\ InArray(Top, q, k) /\ IsArray(q.v, Values) /\ k \in Nat /\ k <= Len(q.v.items)
      /\ Top.state \in {"DATA", "VALUES"} /\ Top.depth = 2 /\ Top.val = ItemsSoFar(q, k)
      /\ Left(reader) = ArrayRest(q, X, k)
  BY DEF ArrayBetween, InArray
<1>2. /\ ItemsXml(q.v, X) \in Seq(Streams)
      /\ Len(ItemsXml(q.v, X)) = Len(q.v.items) /\ Len(q.v.items) \in Nat
      /\ Closing("data", Closing("array", q.after)) \in Streams
      /\ Closing("array", q.after) \in Streams
  BY <1>1, ItemsFacts
<1>3. PICK parts \in Seq(Streams) : parts = ItemsXml(q.v, X)
  BY <1>2
<1>4. PICK end \in Streams : end = Closing("array", q.after)
  BY <1>2
<1>5. PICK after \in Streams : after = Closing("data", end)
  BY <1>2, <1>4
<1>6. Left(reader) = Before(From(parts, k), after)
  BY <1>1, <1>3, <1>4, <1>5 DEF ArrayRest
<1>7. CASE k = Len(q.v.items)
  <2>1. Left(reader) = Closing("data", end)
    <3>1. k = Len(parts)
      BY <1>2, <1>3, <1>7
    <3> QED
      BY <1>5, <1>6, <3>1, FromLast
  <2>2. HasRead(Read(reader), "end", "data", end)
    BY <2>1, EndRead, Words DEF Running
  <2>3. Top.depth > 0 /\ Top.kind # "Value" /\ Top.kind # "Struct"
    BY <1>1
  <2>4. PICK f : Shallower(f, Top, Top.state, Top.val) /\ Stays(f) /\ built' = built /\ NowLeft(end)
    BY <2>2, <2>3, OtherEnds
  <2>5. f.kind = "Array" /\ ~f.exit /\ f.depth = 1 /\ f.val = q.v
    BY <1>1, <1>7, <2>4, AllItems DEF Shallower
  <2>6. ArrayEnds(f, q, end)
    BY <1>4, <2>5 DEF ArrayEnds
  <2>7. TopAt(f, q, end, built, msg, X)
    BY <2>5, <2>6 DEF TopAt, ArrayAt
  <2> QED
    BY <2>4, <2>7, GoesOn
<1>8. CASE k # Len(q.v.items)
  <2>1. /\ k < Len(q.v.items) /\ k < Len(parts)
        /\ k + 1 \in Nat /\ k + 1 > 0 /\ k + 1 <= Len(q.v.items)
    BY <1>1, <1>2, <1>3, <1>8
  <2>2. q.v.items[k + 1] \in Values /\ parts[k + 1] = X[q.v.items[k + 1]]
    BY <1>1, <1>3, <2>1, ItemsFacts
  <2>3. PICK rest \in Streams : rest = ArrayRest(q, X, k + 1)
    BY <1>1, <2>1, ItemsFacts
  <2>4. PICK v \in Values : v = q.v.items[k + 1]
    BY <2>2
  <2>5. PICK c \in Streams : Contents(X, v, c) /\ X[v] = Node("value", c)
    BY ContentsExist
  <2>6. PICK L : L = Before(c, Closing("value", rest))
    OBVIOUS
  <2>7. Left(reader) = Before(Node("value", c), rest)
    <3>1. Before(From(parts, k), after) = Before(parts[k + 1], Before(From(parts, k + 1), after))
      BY <1>1, <2>1, FromSplit
    <3>2. rest = Before(From(parts, k + 1), after)
      BY <1>3, <1>4, <1>5, <2>3 DEF ArrayRest
    <3> QED
      BY <1>6, <2>2, <2>4, <2>5, <3>1, <3>2
  <2>8. HasRead(Read(reader), "begin", "value", L)
    BY <2>6, <2>7, BeginRead, Words DEF Running
  <2>9. Leads(Top, "value", "VALUES")
    BY <1>1, ArrayRows
  <2>10. PICK m : /\ Deeper(m, Top, "VALUES") /\ Pushed(m, Builder(Starts(m), IsFlat(m)))
                  /\ UNCHANGED <<doc, built, outcome>> /\ NowLeft(L)
    BY <2>8, <2>9, CallStep
  <2>11. m.state = "VALUES" /\ m.kind = "Array" /\ m.depth = 3 /\ ~m.exit /\ m.val = Top.val
    BY <1>1, <2>10 DEF Deeper
  <2>12. Starts(m) = "Value" /\ IsFlat(m) = FALSE
    BY <2>11 DEF Starts, IsFlat
  <2>13. PICK h : h = Builder("Value", FALSE)
    OBVIOUS
  <2>14. h.kind = "Value" /\ ~h.exit /\ h.depth = 0 /\ h.state = "VALUE" /\ h.val = NoValue
    BY <2>13, BuilderStarts
  <2>15. Pushed(m, h)
    BY <2>10, <2>12, <2>13
  <2>16. PICK r : r.v = v /\ r.after = rest /\ r.flat = 0 /\ IsGoal(r)
    <3>1. PICK r : r = Goal(v, rest, 0)
      OBVIOUS
    <3>2. r.v = v /\ r.after = rest /\ r.flat = 0
      BY <3>1, GoalFacts
    <3> QED
      BY <3>2 DEF IsGoal
  <2>17. ValueBegins(h, r, L, X)
    BY <2>5, <2>6, <2>14, <2>16 DEF ValueBegins
  <2>18. TopAt(h, r, L, built, msg, X)
    BY <2>14, <2>16, <2>17 DEF TopAt, ValueAt
  <2>19. ItemAwaited(m, q, X, k, r)
    BY <1>1, <2>1, <2>3, <2>4, <2>11, <2>16 DEF ItemAwaited, InArray
  <2>20. Waits(m, q, "Value", r, built, msg, X)
    BY <2>11, <2>19 DEF Waits, ArrayWaits
  <2> QED
    BY <2>10, <2>14, <2>15, <2>18, <2>20, GoesDown
<1> QED
  BY <1>7, <1>8

\* The end of an item's element, and of the array's.
LEMMA ItemEndGoes ==
    ASSUME Running, NEW q, IsGoal(q), NEW X, WritesValues(X), Top.kind = "Array",
           NEW k, ItemRead(Top, q, Left(reader), X, k), NEW msg
    PROVE  Goes(q, msg, X)
<1>1. /\ InArray(Top, q, k) /\ IsArray(q.v, Values) /\ k \in Nat /\ k <= Len(q.v.items)
      /\ Top.state = "VALUES" /\ Top.depth = 3 /\ Top.val = ItemsSoFar(q, k)
      /\ Left(reader) = Closing("value", ArrayRest(q, X, k))
  BY DEF ItemRead, InArray
<1>2. PICK rest \in Streams : rest = ArrayRest(q, X, k)
  BY <1>1, ItemsFacts
<1>3. HasRead(Read(reader), "end", "value", rest)
  BY <1>1, <1>2, EndRead, Words DEF Running
<1>4. Top.depth > 0 /\ Top.kind # "Value" /\ Top.kind # "Struct"
  BY <1>1
<1>5. PICK f : Shallower(f, Top, Top.state, Top.val) /\ Stays(f) /\ built' = built /\ NowLeft(rest)
  BY <1>3, <1>4, OtherEnds
<1>6. f.kind = "Array" /\ ~f.exit /\ f.depth = 2 /\ f.state = "VALUES" /\ f.val = Top.val
  BY <1>1, <1>5 DEF Shallower
<1>7. ArrayBetween(f, q, rest, X, k)
  BY <1>1, <1>2, <1>6 DEF ArrayBetween, InArray
<1>8. TopAt(f, q, rest, built, msg, X)
  BY <1>6, <1>7 DEF TopAt, ArrayAt
<1> QED
  BY <1>5, <1>8, GoesOn

LEMMA ArrayEndGoes ==
    ASSUME Running, NEW q, IsGoal(q), Top.kind = "Array", ArrayEnds(Top, q, Left(reader)),
           NEW X, NEW msg
    PROVE  Goes(q, msg, X)
<1>1. Top.depth = 1 /\ Top.val = q.v /\ Left(reader) = Closing("array", q.after)
  BY DEF ArrayEnds
<1>2. PICK after \in Streams : after = q.after
  BY DEF IsGoal
<1>3. HasRead(Read(reader), "end", "array", after)
  BY <1>1, <1>2, EndRead, Words DEF Running
<1>4. Top.depth > 0 /\ Top.kind # "Value" /\ Top.kind # "Struct"
  BY <1>1
<1>5. PICK f : Shallower(f, Top, Top.state, Top.val) /\ Stays(f) /\ built' = built /\ NowLeft(after)
  BY <1>3, <1>4, OtherEnds
<1>6. f.kind = "Array" /\ f.exit /\ f.val = q.v
  BY <1>1, <1>5 DEF Shallower
<1>7. ArrayAt(f, q, after, X)
  BY <1>2, <1>6 DEF ArrayAt, ContainerReturns
<1>8. TopAt(f, q, after, built, msg, X)
  BY <1>7 DEF TopAt
<1> QED
  BY <1>5, <1>8, GoesOn

LEMMA ArrayGoes ==
    ASSUME Running, NEW q, NEW X, WritesValues(X), ArrayAt(Top, q, Left(reader), X), NEW msg
    PROVE  Goes(q, msg, X)
<1>1. Top.kind = "Array" /\ IsGoal(q) /\ ~Top.exit
  BY DEF ArrayAt, Running
<1>2. CASE ArrayBegins(Top, q, Left(reader), X)
  BY <1>1, <1>2, DataBegins
<1>3. ASSUME NEW k, ArrayBetween(Top, q, Left(reader), X, k) PROVE Goes(q, msg, X)
  BY <1>1, <1>3, BetweenItemsGoes
<1>4. ASSUME NEW k, ItemRead(Top, q, Left(reader), X, k) PROVE Goes(q, msg, X)
  BY <1>1, <1>4, ItemEndGoes
<1>5. CASE ArrayEnds(Top, q, Left(reader))
  BY <1>1, <1>5, ArrayEndGoes
<1>6. CASE ContainerReturns(Top, q, Left(reader))
  BY <1>1, <1>6 DEF ContainerReturns
<1> QED
  BY <1>2, <1>3, <1>4, <1>5, <1>6 DEF ArrayAt

-----------------------------------------------------------------------------
(* The root builder *)

\* No builder calls one for a message.
LEMMA RootIsFirst ==
    ASSUME IInv, Top.kind \in {"Request", "Response"}
    PROVE  Len(stack) = 1
<1>1. Len(stack) \in Nat /\ Len(stack) > 0 /\ Top = stack[Len(stack)]
  BY TopFacts
<1>2. ASSUME Len(stack) > 1 PROVE FALSE
  <2>1. PICK i \in 1..(Len(stack) - 1) : i + 1 = Len(stack)
    <3>1. Len(stack) - 1 \in 1..(Len(stack) - 1)
      BY <1>1, <1>2
    <3> QED
      BY <1>1, <3>1
  <2>2. Calls(stack[i], stack[i + 1].kind)
    BY <2>1 DEF IInv, StackOK
  <2> QED
    BY <1>1, <2>1, <2>2 DEF Calls
<1>3. PICK n \in Nat : n = Len(stack) /\ n > 0
  BY <1>1
<1>4. ~(n > 1)
  BY <1>2, <1>3
<1>5. n = 1
  BY <1>3, <1>4
<1> QED
  BY <1>3, <1>5

\* The root builder goes on, and the message with it.
LEMMA RootGoesOn ==
    ASSUME IInv, Top.kind \in {"Request", "Response"},
           NEW f, Stays(f), NEW L, NowLeft(L), NEW b, built' = b,
           NEW q, NEW msg, NEW X, TopAt(f, q, L, b, msg, X)
    PROVE  Goes(q, msg, X)
  BY RootIsFirst DEF Goes, NowLeft

LEMMA NoEnds ==
    ASSUME NEW n \in Nat
    PROVE  AllEnds(<<>>, n)
  BY EmptyStream, LengthFacts DEF AllEnds

LEMMA MoreEnds ==
    ASSUME NEW t \in Strings, NEW rest, NEW n \in Nat, AllEnds(rest, n)
    PROVE  AllEnds(Closing(t, rest), n + 1)
<1>1. rest \in Streams /\ Len(rest) <= n /\ \A i \in 1..Len(rest) : rest[i] = End(rest[i].str)
  BY DEF AllEnds
<1>2. PICK e \in AnyEvents : e = End(t) /\ e.str = t
  BY EventTypes, BeginFacts
<1>3. PICK L \in Streams : L = Then(e, rest) /\ L = Closing(t, rest)
  BY <1>1, <1>2, NotEmpty DEF Closing
<1>4. /\ Len(rest) \in Nat /\ Len(L) = Len(rest) + 1 /\ L[1] = e
      /\ \A i \in 1..Len(rest) : L[i + 1] = rest[i]
  <2>1. L = <<e>> \o rest /\ rest \in Seq(AnyEvents) /\ <<e>> \in Seq(AnyEvents)
    BY <1>1, <1>3 DEF Then, Streams
  <2> QED
    BY <2>1
<1>5. ASSUME NEW i \in 1..Len(L) PROVE L[i] = End(L[i].str)
  <2>1. CASE i = 1
    BY <1>2, <1>4, <2>1
  <2>2. CASE i # 1
    <3>1. PICK j \in 1..Len(rest) : i = j + 1
      BY <1>4, <2>2
    <3>2. L[i] = rest[j]
      BY <1>4, <3>1
    <3> QED
      BY <1>1, <3>1, <3>2
  <2> QED
    BY <2>1, <2>2
<1> QED
  BY <1>1, <1>3, <1>4, <1>5 DEF AllEnds

LEMMA FirstEnd ==
    ASSUME NEW L, NEW n \in Nat, AllEnds(L, n), L # <<>>
    PROVE  /\ n > 0
           /\ \E t \in Strings, rest \in Streams : L = Closing(t, rest) /\ AllEnds(rest, n - 1)
<1>1. L \in Streams /\ Len(L) <= n /\ \A i \in 1..Len(L) : L[i] = End(L[i].str)
  BY DEF AllEnds
<1>2. Len(L) \in Nat /\ Len(L) > 0 /\ L \in Seq(AnyEvents)
  BY <1>1 DEF Streams
<1>3. 0 \in Nat /\ 0 < Len(L) /\ 0 + 1 = 1 /\ 0 + 2 = 2
  BY <1>2
<1>4. L[1] \in AnyEvents /\ SubSeq(L, 1, Len(L)) = <<L[1]>> \o SubSeq(L, 2, Len(L))
  BY <1>1, <1>3, FirstOfRest
<1>5. SubSeq(L, 1, Len(L)) = L
  BY <1>2
<1>6. PICK rest : rest = SubSeq(L, 2, Len(L))
  OBVIOUS
<1>7. rest \in Seq(AnyEvents) /\ Len(rest) = Len(L) - 1 /\ \A i \in 1..Len(rest) : rest[i] = L[i + 1]
  <2>1. PICK m \in Nat : Len(L) = m + 1
    <3>1. Len(L) - 1 \in Nat /\ Len(L) = (Len(L) - 1) + 1
      BY <1>2
    <3> QED
      BY <3>1
  <2>2. rest = SubSeq(L, 2, m + 1)
    BY <1>6, <2>1
  <2>3. rest \in Seq(AnyEvents) /\ Len(rest) = m
    BY <1>2, <2>1, <2>2
  <2>4. \A i \in 1..m : rest[i] = L[i + 1]
    BY <1>2, <2>1, <2>2
  <2> QED
    BY <2>1, <2>3, <2>4
<1>8. PICK t \in Strings : t = L[1].str
  BY <1>4 DEF AnyEvents
<1>9. L[1] = End(t)
  BY <1>1, <1>2, <1>8
<1>10. L = Closing(t, rest)
  BY <1>4, <1>5, <1>6, <1>9 DEF Closing, Then
<1>11. AllEnds(rest, n - 1)
  <2>1. \A i \in 1..Len(rest) : rest[i] = End(rest[i].str)
    BY <1>1, <1>2, <1>7
  <2> QED
    BY <1>1, <1>2, <1>7, <2>1 DEF AllEnds, Streams
<1> QED
  BY <1>1, <1>2, <1>7, <1>10, <1>11 DEF Streams

\* After the last value the root builder takes ends of elements only.
LEMMA RootEndGoes ==
    ASSUME Running, Top.kind \in {"Request", "Response"}, NEW msg, IsMessage(Top.kind, msg),
           RootEnds(Top, Left(reader), built, msg), NEW q, NEW X
    PROVE  Goes(q, msg, X)
<1>1. built = msg /\ AllEnds(Left(reader), Top.depth) /\ Top.depth \in Nat /\ IInv
  BY TopFacts DEF RootEnds, Running
<1>2. PICK L : L = Left(reader)
  OBVIOUS
<1>3. CASE L = <<>>
  <2>1. PICK f : /\ Leaves(f, Top, Top.val) /\ f.exit /\ Stays(f) /\ built' = built
                 /\ Reading(reader')
    BY <1>2, <1>3, DoneStep
  <2>2. PICK R : R = Left(reader')
    OBVIOUS
  <2>3. f.kind = Top.kind /\ RootEnds(f, R, built, msg)
    BY <1>1, <2>1 DEF Leaves, RootEnds
  <2>4. TopAt(f, q, R, built, msg, X)
    BY <2>3 DEF TopAt, RequestAt, ResponseAt
  <2>5. NowLeft(R)
    BY <2>1, <2>2 DEF NowLeft
  <2> QED
    BY <2>1, <2>4, <2>5, GoesOn
<1>4. CASE L # <<>>
  <2>1. Top.depth > 0
    BY <1>1, <1>2, <1>4, FirstEnd
  <2>2. PICK t \in Strings, rest \in Streams : L = Closing(t, rest) /\ AllEnds(rest, Top.depth - 1)
    BY <1>1, <1>2, <1>4, FirstEnd
  <2>3. HasRead(Read(reader), "end", t, rest)
    BY <1>2, <2>2, EndRead DEF Running
  <2>4. Top.kind # "Value" /\ Top.kind # "Struct"
    OBVIOUS
  <2>5. PICK f : Shallower(f, Top, Top.state, Top.val) /\ Stays(f) /\ built' = built /\ NowLeft(rest)
    BY <2>1, <2>3, <2>4, OtherEnds
  <2>6. f.kind = Top.kind /\ f.depth = Top.depth - 1
    BY <2>5 DEF Shallower
  <2>7. RootEnds(f, rest, built, msg)
    BY <1>1, <2>2, <2>6 DEF RootEnds
  <2>8. TopAt(f, q, rest, built, msg, X)
    BY <2>6, <2>7 DEF TopAt, RequestAt, ResponseAt
  <2> QED
    BY <2>5, <2>8, GoesOn
<1> QED
  BY <1>3, <1>4

-----------------------------------------------------------------------------
(* Requests *)

LEMMA RequestFacts ==
    ASSUME NEW m, IsMessage("Request", m), NEW X, WritesValues(X)
    PROVE  /\ m = ParamsSoFar(m, Len(m.params))
           /\ Len(m.params) \in Nat
           /\ ParamXml(m, X) \in Seq(Streams) /\ Len(ParamXml(m, X)) = Len(m.params)
           /\ Joined(ParamXml(m, X)) \in Streams /\ ParamsNode(m, X) \in Streams
           /\ RequestEnd \in Streams /\ Closing("params", RequestEnd) \in Streams
           /\ m.name \in STRING
<1>1. /\ m = [name |-> m.name, params |-> m.params, fault |-> m.fault]
      /\ m.name \in STRING /\ m.params \in Seq(Values) /\ m.fault = <<>>
  BY DEF IsMessage
<1>2. PICK params \in Seq(Values) : params = m.params
  BY <1>1
<1>3. Len(params) \in Nat /\ DOMAIN params = 1..Len(params) /\ SubSeq(params, 1, Len(params)) = params
      /\ \A i \in 1..Len(params) : params[i] \in Values
  OBVIOUS
<1>4. m = ParamsSoFar(m, Len(m.params))
  BY <1>1, <1>2, <1>3 DEF ParamsSoFar, Message
<1>5. ASSUME NEW i \in 1..Len(params) PROVE ParamXml(m, X)[i] \in Streams
  <2>1. PICK c \in Streams : c = X[params[i]]
    BY <1>3, WrittenStreams DEF Writes
  <2>2. Node("param", c) \in Streams
    BY NodeType, Words
  <2>3. ParamXml(m, X)[i] = Node("param", c)
    BY <1>2, <1>3, <2>1 DEF ParamXml
  <2> QED
    BY <2>2, <2>3
<1>6. PICK parts : parts = ParamXml(m, X)
  OBVIOUS
<1>7. parts \in [1..Len(params) -> Streams]
  <2>1. parts = [i \in 1..Len(params) |-> Node("param", X[params[i]])]
    BY <1>2, <1>3, <1>6 DEF ParamXml
  <2> QED
    BY <1>5, <1>6, <2>1
<1>8. parts \in Seq(Streams) /\ Len(parts) = Len(params)
  BY <1>3, <1>7
<1>9. PICK c \in Streams : c = Joined(ParamXml(m, X))
  BY <1>6, <1>8, JoinedType
<1>10. ParamsNode(m, X) \in Streams
  BY <1>9, NodeType, Words DEF ParamsNode
<1>11. RequestEnd \in Streams
  <2>1. PICK none \in Streams : none = <<>>
    BY EmptyStream
  <2> QED
    BY <2>1, ClosingType, Words DEF RequestEnd
<1>12. Closing("params", RequestEnd) \in Streams
  BY <1>11, ClosingType, Words
<1> QED
  BY <1>1, <1>2, <1>3, <1>4, <1>6, <1>8, <1>9, <1>10, <1>11, <1>12

LEMMA ParamsFacts ==
    ASSUME NEW m, IsMessage("Request", m), NEW X, WritesValues(X), NEW k \in Nat, k <= Len(m.params)
    PROVE  /\ ParamsRest(m, X, k) \in Streams /\ Closing("param", ParamsRest(m, X, k)) \in Streams
           /\ k > 0 => /\ m.params[k] \in Values
                       /\ ParamXml(m, X)[k] = Node("param", X[m.params[k]])
<1>1. /\ Len(m.params) \in Nat /\ Closing("params", RequestEnd) \in Streams
      /\ ParamXml(m, X) \in Seq(Streams) /\ Len(ParamXml(m, X)) = Len(m.params)
  BY RequestFacts
<1>2. From(ParamXml(m, X), k) \in Streams
  BY <1>1, FromType
<1>3. PICK rest \in Streams : rest = ParamsRest(m, X, k)
  BY <1>1, <1>2, BeforeType DEF ParamsRest
<1>4. Closing("param", rest) \in Streams
  BY ClosingType, Words
<1>5. PICK params \in Seq(Values) : params = m.params
  BY DEF IsMessage
<1>6. ASSUME k > 0 PROVE m.params[k] \in Values /\ ParamXml(m, X)[k] = Node("param", X[m.params[k]])
  <2>1. k \in 1..Len(params) /\ k \in DOMAIN params
    BY <1>1, <1>5, <1>6
  <2> QED
    BY <1>5, <2>1 DEF ParamXml
<1> QED
  BY <1>3, <1>4, <1>6

LEMMA NoParamsYet ==
    ASSUME NEW m, IsMessage("Request", m)
    PROVE  /\ [Nothing EXCEPT !.name = m.name] = ParamsSoFar(m, 0)
           /\ 0 <= Len(m.params)
<1>1. PICK params \in Seq(Values) : params = m.params
  BY DEF IsMessage
<1>2. SubSeq(params, 1, 0) = <<>> /\ 0 <= Len(params)
  OBVIOUS
<1>3. PICK n : n = m.name
  OBVIOUS
<1>4. [Message(Absent, <<>>, <<>>) EXCEPT !.name = n] = Message(n, <<>>, <<>>)
  BY DEF Message
<1>5. ParamsSoFar(m, 0) = Message(n, <<>>, <<>>)
  BY <1>1, <1>2, <1>3 DEF ParamsSoFar
<1> QED
  BY <1>1, <1>2, <1>3, <1>4, <1>5 DEF Nothing

\* The last builder is that of a request m.
AtRequest(m, X) ==
    Running /\ Top.kind = "Request" /\ IsMessage("Request", m) /\ WritesValues(X)

\* The root builder is now f, and a request is still read.
LEMMA RequestGoesOn ==
    ASSUME NEW m, NEW X, AtRequest(m, X), NEW f, Stays(f), f.kind = "Request", NEW L, NowLeft(L),
           NEW b, built' = b,
           \/ RequestBegun(f, L, b, m, X) \/ MethodRead(f, L, b, m, X) \/ MethodEnded(f, L, b, m, X)
           \/ \E k : \/ ParamsBetween(f, L, b, m, X, k) \/ ParamBegun(f, L, b, m, X, k)
                     \/ ParamEnded(f, L, b, m, X, k)
           \/ RootEnds(f, L, b, m),
           NEW q
    PROVE  Goes(q, m, X)
<1>1. RequestAt(f, L, b, m, X)
  BY DEF RequestAt, AtRequest
<1>2. TopAt(f, q, L, b, m, X)
  BY <1>1 DEF TopAt
<1>3. IInv /\ Top.kind \in {"Request", "Response"}
  BY DEF AtRequest, Running
<1> QED
  BY <1>2, <1>3, RootGoesOn

LEMMA CallBegins ==
    ASSUME NEW m, NEW X, AtRequest(m, X), RequestBegins(Top, Left(reader), built, m, X), NEW q
    PROVE  Goes(q, m, X)
<1>1. /\ Top.state = "NONE" /\ built = Nothing /\ Top.kind = "Request"
      /\ Left(reader) = Before(Node("methodCall", TextNode("methodName", m.name) \o ParamsNode(m, X)), <<>>)
  BY DEF RequestBegins, AtRequest
<1>2. IsMessage("Request", m) /\ WritesValues(X) /\ Running
  BY DEF AtRequest
<1>3. PICK a \in Streams : a = TextNode("methodName", m.name)
  BY <1>2, RequestFacts, TextType, Words
<1>4. PICK b \in Streams : b = ParamsNode(m, X)
  BY <1>2, RequestFacts
<1>5. PICK c \in Streams : c = a \o b
  BY StreamFacts
<1>6. PICK none \in Streams : none = <<>>
  BY EmptyStream
<1>7. PICK end \in Streams : end = RequestEnd
  BY <1>2, RequestFacts
<1>8. PICK L : L = Before(a, Before(b, end))
  OBVIOUS
<1>9. HasRead(Read(reader), "begin", "methodCall", L)
  <2>1. Left(reader) = Before(Node("methodCall", c), none)
    BY <1>1, <1>3, <1>4, <1>5, <1>6
  <2>2. HasRead(Read(reader), "begin", "methodCall", Before(c, Closing("methodCall", none)))
    BY <1>2, <2>1, BeginRead, Words DEF Running
  <2>3. Closing("methodCall", none) = end
    BY <1>6, <1>7 DEF RequestEnd
  <2>4. Before(a \o b, end) = Before(a, Before(b, end))
    BY BeforeAssoc
  <2> QED
    BY <1>5, <1>8, <2>2, <2>3, <2>4
<1>10. Leads(Top, "methodCall", "METHOD_CALL")
  BY <1>1, RequestRows
<1>11. PICK f : Deeper(f, Top, "METHOD_CALL") /\ Stays(f) /\ built' = built /\ NowLeft(L)
  BY <1>2, <1>9, <1>10, MoveStep
<1>12. f.kind = "Request" /\ f.depth >= 1 /\ f.state = "METHOD_CALL" /\ ~f.exit
  <2>1. IInv /\ Top.depth \in Nat
    BY <1>2, TopFacts DEF Running
  <2> QED
    BY <1>1, <1>11, <2>1 DEF Deeper
<1>13. RequestBegun(f, L, built, m, X)
  BY <1>1, <1>3, <1>4, <1>7, <1>8, <1>12 DEF RequestBegun
<1> QED
  BY <1>11, <1>12, <1>13, RequestGoesOn

\* The name of the method, which may be empty.
LEMMA MethodNameGoes ==
    ASSUME NEW m, NEW X, AtRequest(m, X), m.name \notin Blank,
           RequestBegun(Top, Left(reader), built, m, X), NEW q
    PROVE  Goes(q, m, X)
<1>1. /\ Top.state = "METHOD_CALL" /\ Top.depth >= 1 /\ built = Nothing /\ Top.kind = "Request"
      /\ Left(reader) = Before(TextNode("methodName", m.name), Before(ParamsNode(m, X), RequestEnd))
  BY DEF RequestBegun, AtRequest
<1>2. IsMessage("Request", m) /\ WritesValues(X) /\ Running
  BY DEF AtRequest
<1>3. PICK n \in STRING \ Blank : n = m.name
  BY <1>2, RequestFacts
<1>4. PICK c \in Streams : c = TextData(n)
  BY <1>3, TextType, Words
<1>5. PICK rest \in Streams : rest = Before(ParamsNode(m, X), RequestEnd)
  BY <1>2, RequestFacts, BeforeType
<1>6. HasRead(Read(reader), "begin", "methodName", Before(TextData(n), Closing("methodName", rest)))
  <2>1. Left(reader) = Before(Node("methodName", c), rest)
    BY <1>1, <1>3, <1>4, <1>5 DEF TextNode
  <2>2. HasRead(Read(reader), "begin", "methodName", Before(c, Closing("methodName", rest)))
    BY <1>2, <2>1, BeginRead, Words DEF Running
  <2> QED
    BY <1>4, <2>2
<1>7. Leads(Top, "methodName", "METHOD_NAME")
  BY <1>1, RequestRows
<1>8. PICK f : /\ Named(f, Top, "METHOD_NAME", n) /\ Stays(f)
               /\ Top.kind = "Request" => built' = [built EXCEPT !.name = n]
               /\ NowLeft(Closing("methodName", rest)) \/ (n = "" /\ NowLeft(rest))
  BY <1>2, <1>6, <1>7, NameStep, Words
<1>9. PICK b : b = ParamsSoFar(m, 0)
  OBVIOUS
<1>10. built' = b
  BY <1>1, <1>2, <1>3, <1>8, <1>9, NoParamsYet
<1>11. f.kind = "Request" /\ f.depth >= 2 /\ f.depth >= 1 /\ f.state = "METHOD_NAME" /\ ~f.exit
  <2>1. IInv /\ Top.depth \in Nat
    BY <1>2, TopFacts DEF Running
  <2>2. Named(f, Top, "METHOD_NAME", n)
    BY <1>8
  <2> QED
    BY <1>1, <2>1, <2>2 DEF Named
<1>12. PICK L : L = Closing("methodName", rest)
  OBVIOUS
<1>13. CASE NowLeft(L)
  <2>1. MethodRead(f, L, b, m, X)
    BY <1>5, <1>9, <1>11, <1>12 DEF MethodRead
  <2> QED
    BY <1>8, <1>10, <1>11, <1>13, <2>1, RequestGoesOn
<1>14. CASE NowLeft(rest)
  <2>1. MethodEnded(f, rest, b, m, X)
    BY <1>5, <1>9, <1>11 DEF MethodEnded
  <2> QED
    BY <1>8, <1>10, <1>11, <1>14, <2>1, RequestGoesOn
<1> QED
  BY <1>8, <1>12, <1>13, <1>14

LEMMA MethodNameEnds ==
    ASSUME NEW m, NEW X, AtRequest(m, X), MethodRead(Top, Left(reader), built, m, X), NEW q
    PROVE  Goes(q, m, X)
<1>1. /\ Top.state = "METHOD_NAME" /\ Top.depth >= 2 /\ built = ParamsSoFar(m, 0)
      /\ Top.kind = "Request"
      /\ Left(reader) = Closing("methodName", Before(ParamsNode(m, X), RequestEnd))
  BY DEF MethodRead, AtRequest
<1>2. IsMessage("Request", m) /\ WritesValues(X) /\ Running
  BY DEF AtRequest
<1>3. Top.depth \in Nat
  BY <1>2, TopFacts DEF Running
<1>4. PICK rest \in Streams : rest = Before(ParamsNode(m, X), RequestEnd)
  BY <1>2, RequestFacts, BeforeType
<1>5. HasRead(Read(reader), "end", "methodName", rest)
  BY <1>1, <1>2, <1>4, EndRead, Words DEF Running
<1>6. Top.depth > 0 /\ Top.kind # "Value" /\ Top.kind # "Struct"
  BY <1>1, <1>3
<1>7. PICK f : Shallower(f, Top, Top.state, Top.val) /\ Stays(f) /\ built' = built /\ NowLeft(rest)
  BY <1>2, <1>5, <1>6, OtherEnds
<1>8. f.kind = "Request" /\ ~f.exit /\ f.depth >= 1 /\ f.state = "METHOD_NAME"
  BY <1>1, <1>3, <1>7 DEF Shallower
<1>9. MethodEnded(f, rest, built, m, X)
  BY <1>1, <1>4, <1>8 DEF MethodEnded
<1> QED
  BY <1>7, <1>8, <1>9, RequestGoesOn

LEMMA ParamsBegin ==
    ASSUME NEW m, NEW X, AtRequest(m, X), MethodEnded(Top, Left(reader), built, m, X), NEW q
    PROVE  Goes(q, m, X)
<1>1. /\ Top.state = "METHOD_NAME" /\ Top.depth >= 1 /\ built = ParamsSoFar(m, 0)
      /\ Top.kind = "Request" /\ Left(reader) = Before(ParamsNode(m, X), RequestEnd)
  BY DEF MethodEnded, AtRequest
<1>2. IsMessage("Request", m) /\ WritesValues(X) /\ Running
  BY DEF AtRequest
<1>3. Top.depth \in Nat
  BY <1>2, TopFacts DEF Running
<1>4. PICK parts \in Seq(Streams) : parts = ParamXml(m, X)
  BY <1>2, RequestFacts
<1>5. PICK c \in Streams : c = Joined(parts) /\ c = From(parts, 0)
  <2>1. Len(parts) \in Nat
    OBVIOUS
  <2> QED
    BY <2>1, JoinedType, FromStart
<1>6. PICK end \in Streams : end = RequestEnd
  BY <1>2, RequestFacts
<1>7. PICK L : L = Before(c, Closing("params", end))
  OBVIOUS
<1>8. HasRead(Read(reader), "begin", "params", L)
  <2>1. Left(reader) = Before(Node("params", c), end)
    BY <1>1, <1>4, <1>5, <1>6 DEF ParamsNode
  <2> QED
    BY <1>2, <1>7, <2>1, BeginRead, Words DEF Running
<1>9. Leads(Top, "params", "PARAMS")
  BY <1>1, RequestRows
<1>10. PICK f : Deeper(f, Top, "PARAMS") /\ Stays(f) /\ built' = built /\ NowLeft(L)
  BY <1>2, <1>8, <1>9, MoveStep
<1>11. f.kind = "Request" /\ f.depth >= 2 /\ f.state = "PARAMS" /\ ~f.exit
  BY <1>1, <1>3, <1>10 DEF Deeper
<1>12. ParamsBetween(f, L, built, m, X, 0)
  <2>1. L = ParamsRest(m, X, 0)
    BY <1>4, <1>5, <1>6, <1>7 DEF ParamsRest
  <2>2. 0 \in Nat /\ 0 <= Len(m.params)
    BY <1>2, NoParamsYet
  <2> QED
    BY <1>1, <1>11, <2>1, <2>2 DEF ParamsBetween, InRequest
<1> QED
  BY <1>10, <1>11, <1>12, RequestGoesOn

\* A parameter begins, or <params> ends.
LEMMA BetweenParamsGoes ==
    ASSUME NEW m, NEW X, AtRequest(m, X), NEW k, ParamsBetween(Top, Left(reader), built, m, X, k), NEW q
    PROVE  Goes(q, m, X)
<1>1. /\ Top.state \in {"PARAMS", "VALUE"} /\ Top.depth >= 2 /\ Top.kind = "Request"
      /\ k \in Nat /\ k <= Len(m.params) /\ built = ParamsSoFar(m, k)
      /\ Left(reader) = ParamsRest(m, X, k)
  BY DEF ParamsBetween, InRequest, AtRequest
<1>2. IsMessage("Request", m) /\ WritesValues(X) /\ Running
  BY DEF AtRequest
<1>3. Top.depth \in Nat
  BY <1>2, TopFacts DEF Running
<1>4. PICK parts \in Seq(Streams) : parts = ParamXml(m, X) /\ Len(parts) = Len(m.params)
  BY <1>2, RequestFacts
<1>5. PICK end \in Streams : end = RequestEnd
  BY <1>2, RequestFacts
<1>6. PICK after \in Streams : after = Closing("params", end)
  BY ClosingType, Words
<1>7. Left(reader) = Before(From(parts, k), after) /\ Len(m.params) \in Nat
  BY <1>1, <1>2, <1>4, <1>5, <1>6, RequestFacts DEF ParamsRest
<1>8. CASE k = Len(m.params)
  <2>1. Left(reader) = Closing("params", end)
    BY <1>4, <1>6, <1>7, <1>8, FromLast
  <2>2. HasRead(Read(reader), "end", "params", end)
    BY <1>2, <2>1, EndRead, Words DEF Running
  <2>3. Top.depth > 0 /\ Top.kind # "Value" /\ Top.kind # "Struct"
    BY <1>1, <1>3
  <2>4. PICK f : Shallower(f, Top, Top.state, Top.val) /\ Stays(f) /\ built' = built /\ NowLeft(end)
    BY <1>2, <2>2, <2>3, OtherEnds
  <2>5. f.kind = "Request" /\ f.depth \in Nat /\ f.depth >= 1
    BY <1>1, <1>3, <2>4 DEF Shallower, IsFrame
  <2>6. built = m
    BY <1>1, <1>2, <1>8, RequestFacts
  <2>7. AllEnds(end, f.depth)
    <3>1. PICK n \in Nat : f.depth = n + 1
      <4>1. f.depth - 1 \in Nat /\ f.depth = (f.depth - 1) + 1
        BY <2>5
      <4> QED
        BY <4>1
    <3>2. AllEnds(<<>>, n)
      BY NoEnds
    <3> QED
      BY <1>5, <3>1, <3>2, MoreEnds, Words DEF RequestEnd
  <2>8. RootEnds(f, end, built, m)
    BY <2>6, <2>7 DEF RootEnds
  <2> QED
    BY <2>4, <2>5, <2>8, RequestGoesOn
<1>9. CASE k # Len(m.params)
  <2>1. k < Len(m.params) /\ k < Len(parts) /\ k + 1 \in Nat /\ k + 1 > 0 /\ k + 1 <= Len(m.params)
    BY <1>1, <1>4, <1>7, <1>9
  <2>2. m.params[k + 1] \in Values /\ parts[k + 1] = Node("param", X[m.params[k + 1]])
    BY <1>2, <1>4, <2>1, ParamsFacts
  <2>3. PICK rest \in Streams : rest = ParamsRest(m, X, k + 1)
    BY <1>2, <2>1, ParamsFacts
  <2>4. PICK c \in Streams : c = X[m.params[k + 1]]
    BY <1>2, <2>2, WrittenStreams DEF Writes
  <2>5. PICK L : L = Before(c, Closing("param", rest))
    OBVIOUS
  <2>6. Left(reader) = Before(Node("param", c), rest)
    <3>1. Before(From(parts, k), after) = Before(parts[k + 1], Before(From(parts, k + 1), after))
      BY <1>1, <2>1, FromSplit
    <3>2. rest = Before(From(parts, k + 1), after)
      BY <1>4, <1>5, <1>6, <2>3 DEF ParamsRest
    <3> QED
      BY <1>7, <2>2, <2>4, <3>1, <3>2
  <2>7. HasRead(Read(reader), "begin", "param", L)
    BY <1>2, <2>5, <2>6, BeginRead, Words DEF Running
  <2>8. Leads(Top, "param", "PARAM")
    BY <1>1, RequestRows
  <2>9. PICK f : Deeper(f, Top, "PARAM") /\ Stays(f) /\ built' = built /\ NowLeft(L)
    BY <1>2, <2>7, <2>8, MoveStep
  <2>10. f.kind = "Request" /\ f.depth >= 3 /\ f.state = "PARAM" /\ ~f.exit
    BY <1>1, <1>3, <2>9 DEF Deeper
  <2>11. ParamBegun(f, L, built, m, X, k)
    BY <1>1, <2>1, <2>3, <2>4, <2>5, <2>10 DEF ParamBegun, InRequest
  <2> QED
    BY <2>9, <2>10, <2>11, RequestGoesOn
<1> QED
  BY <1>8, <1>9

\* The value of a parameter begins.
LEMMA ParamValueBegins ==
    ASSUME NEW m, NEW X, AtRequest(m, X), NEW k, ParamBegun(Top, Left(reader), built, m, X, k), NEW q
    PROVE  Goes(q, m, X)
<1>1. /\ Top.state = "PARAM" /\ Top.depth >= 3 /\ Top.kind = "Request"
      /\ k \in Nat /\ k < Len(m.params) /\ k <= Len(m.params) /\ built = ParamsSoFar(m, k)
      /\ Left(reader) = Before(X[m.params[k + 1]], Closing("param", ParamsRest(m, X, k + 1)))
  BY DEF ParamBegun, InRequest, AtRequest
<1>2. IsMessage("Request", m) /\ WritesValues(X) /\ Running
  BY DEF AtRequest
<1>3. Top.depth \in Nat
  BY <1>2, TopFacts DEF Running
<1>4. k + 1 \in Nat /\ k + 1 > 0 /\ k + 1 <= Len(m.params)
  BY <1>1, <1>2, RequestFacts
<1>5. PICK v \in Values : v = m.params[k + 1]
  BY <1>2, <1>4, ParamsFacts
<1>6. PICK rest \in Streams : rest = Closing("param", ParamsRest(m, X, k + 1))
  BY <1>2, <1>4, ParamsFacts
<1>7. PICK c \in Streams : Contents(X, v, c) /\ X[v] = Node("value", c)
  BY <1>2, ContentsExist
<1>8. PICK L : L = Before(c, Closing("value", rest))
  OBVIOUS
<1>9. HasRead(Read(reader), "begin", "value", L)
  <2>1. Left(reader) = Before(Node("value", c), rest)
    BY <1>1, <1>5, <1>6, <1>7
  <2> QED
    BY <1>2, <1>8, <2>1, BeginRead, Words DEF Running
<1>10. Leads(Top, "value", "VALUE")
  BY <1>1, RequestRows
<1>11. PICK g : /\ Deeper(g, Top, "VALUE") /\ Pushed(g, Builder(Starts(g), IsFlat(g)))
                /\ UNCHANGED <<doc, built, outcome>> /\ NowLeft(L)
  BY <1>2, <1>9, <1>10, CallStep
<1>12. g.state = "VALUE" /\ g.kind = "Request" /\ g.depth >= 4 /\ ~g.exit
  BY <1>1, <1>3, <1>11 DEF Deeper
<1>13. Starts(g) = "Value" /\ IsFlat(g) = TRUE
  BY <1>12 DEF Starts, IsFlat
<1>14. PICK h : h = Builder("Value", TRUE)
  OBVIOUS
<1>15. h.kind = "Value" /\ ~h.exit /\ h.depth = 1 /\ h.state = "VALUE" /\ h.val = NoValue
  BY <1>14, BuilderStarts
<1>16. Pushed(g, h)
  BY <1>11, <1>13, <1>14
<1>17. PICK r : r.v = v /\ r.after = rest /\ r.flat = 1 /\ IsGoal(r)
  <2>1. PICK r : r = Goal(v, rest, 1)
    OBVIOUS
  <2>2. r.v = v /\ r.after = rest /\ r.flat = 1
    BY <2>1, GoalFacts
  <2> QED
    BY <2>2 DEF IsGoal
<1>18. ValueBegins(h, r, L, X)
  BY <1>7, <1>8, <1>15, <1>17 DEF ValueBegins
<1>19. TopAt(h, r, L, built, m, X)
  BY <1>15, <1>17, <1>18 DEF TopAt, ValueAt
<1>20. ParamAwaited(g, built, m, X, k, r)
  BY <1>1, <1>5, <1>6, <1>12, <1>17 DEF ParamAwaited, InRequest
<1>21. Waits(g, q, "Value", r, built, m, X)
  BY <1>2, <1>12, <1>20 DEF Waits, RequestWaits
<1> QED
  BY <1>11, <1>15, <1>16, <1>19, <1>21, GoesDown

\* The ends of a value's and of a parameter's element.
LEMMA ParamEndGoes ==
    ASSUME NEW m, NEW X, AtRequest(m, X), NEW k,
           ParamRead(Top, Left(reader), built, m, X, k) \/ ParamEnded(Top, Left(reader), built, m, X, k),
           NEW q
    PROVE  Goes(q, m, X)
<1>1. /\ Top.state = "VALUE" /\ Top.depth >= 3 /\ Top.kind = "Request"
      /\ InRequest(Top, built, m, k) /\ ~Top.exit
      /\ k \in Nat /\ k <= Len(m.params) /\ built = ParamsSoFar(m, k)
  <2>1. Top.depth \in Nat /\ Top.kind = "Request"
    BY TopFacts DEF AtRequest, Running
  <2> QED
    BY <2>1 DEF ParamRead, ParamEnded, InRequest
<1>2. IsMessage("Request", m) /\ WritesValues(X) /\ Running
  BY DEF AtRequest
<1>3. Top.depth \in Nat
  BY <1>2, TopFacts DEF Running
<1>4. PICK t \in Strings, rest \in Streams :
         /\ Left(reader) = Closing(t, rest)
         /\ \/ Top.depth >= 4 /\ rest = Closing("param", ParamsRest(m, X, k))
            \/ rest = ParamsRest(m, X, k)
  <2>1. ParamsRest(m, X, k) \in Streams /\ Closing("param", ParamsRest(m, X, k)) \in Streams
    BY <1>1, <1>2, ParamsFacts
  <2>2. "value" \in Strings /\ "param" \in Strings
    BY Words
  <2> QED
    BY <2>1, <2>2 DEF ParamRead, ParamEnded
<1>5. HasRead(Read(reader), "end", t, rest)
  BY <1>2, <1>4, EndRead DEF Running
<1>6. Top.depth > 0 /\ Top.kind # "Value" /\ Top.kind # "Struct"
  BY <1>1, <1>3
<1>7. PICK f : Shallower(f, Top, Top.state, Top.val) /\ Stays(f) /\ built' = built /\ NowLeft(rest)
  BY <1>2, <1>5, <1>6, OtherEnds
<1>8. f.kind = "Request" /\ ~f.exit /\ f.depth >= 2 /\ f.depth = Top.depth - 1 /\ f.state = "VALUE"
  BY <1>1, <1>3, <1>7 DEF Shallower
<1>9. ParamEnded(f, rest, built, m, X, k) \/ ParamsBetween(f, rest, built, m, X, k)
  BY <1>1, <1>3, <1>4, <1>8 DEF ParamEnded, ParamsBetween, InRequest
<1> QED
  BY <1>7, <1>8, <1>9, RequestGoesOn

LEMMA RequestGoes ==
    ASSUME Running, NEW m, m.name \notin Blank, NEW X, WritesValues(X),
           RequestAt(Top, Left(reader), built, m, X), NEW q
    PROVE  Goes(q, m, X)
<1>1. AtRequest(m, X)
  BY DEF AtRequest, RequestAt
<1>2. CASE RequestBegins(Top, Left(reader), built, m, X)
  BY <1>1, <1>2, CallBegins
<1>3. CASE RequestBegun(Top, Left(reader), built, m, X)
  BY <1>1, <1>3, MethodNameGoes
<1>4. CASE MethodRead(Top, Left(reader), built, m, X)
  BY <1>1, <1>4, MethodNameEnds
<1>5. CASE MethodEnded(Top, Left(reader), built, m, X)
  BY <1>1, <1>5, ParamsBegin
<1>6. ASSUME NEW k, ParamsBetween(Top, Left(reader), built, m, X, k) PROVE Goes(q, m, X)
  BY <1>1, <1>6, BetweenParamsGoes
<1>7. ASSUME NEW k, ParamBegun(Top, Left(reader), built, m, X, k) PROVE Goes(q, m, X)
  BY <1>1, <1>7, ParamValueBegins
<1>8. ASSUME NEW k, \/ ParamRead(Top, Left(reader), built, m, X, k)
                    \/ ParamEnded(Top, Left(reader), built, m, X, k)
      PROVE  Goes(q, m, X)
  BY <1>1, <1>8, ParamEndGoes
<1>9. CASE RootEnds(Top, Left(reader), built, m)
  <2>1. Top.kind \in {"Request", "Response"} /\ IsMessage(Top.kind, m)
    BY DEF RequestAt
  <2> QED
    BY <1>9, <2>1, RootEndGoes
<1> QED
  BY <1>2, <1>3, <1>4, <1>5, <1>6, <1>7, <1>8, <1>9 DEF RequestAt

-----------------------------------------------------------------------------
(* Responses *)

LEMMA ResponseFacts ==
    ASSUME NEW m, IsMessage("Response", m), NEW X, WritesValues(X)
    PROVE  /\ ResponseEnd \in Streams /\ FaultEnd \in Streams
           /\ ParamsEnd \in Streams /\ ParamEnd \in Streams
           /\ ~IsFaulty(m) => /\ m.params[1] \in Values /\ X[m.params[1]] \in Streams
                              /\ Node("param", X[m.params[1]]) \in Streams
                              /\ Body(m, X) = Node("params", Node("param", X[m.params[1]]))
           /\ IsFaulty(m) => /\ FaultMessage(m) \in Values /\ X[FaultMessage(m)] \in Streams
                             /\ Body(m, X) = Node("fault", X[FaultMessage(m)])
           /\ Body(m, X) \in Streams
<1>1. ResponseEnd \in Streams
  <2>1. PICK none \in Streams : none = <<>>
    BY EmptyStream
  <2> QED
    BY <2>1, ClosingType, Words DEF ResponseEnd
<1>2. FaultEnd \in Streams /\ ParamsEnd \in Streams
  BY <1>1, ClosingType, Words DEF FaultEnd, ParamsEnd
<1>3. ParamEnd \in Streams
  BY <1>2, ClosingType, Words DEF ParamEnd
<1>4. CASE ~IsFaulty(m)
  <2>1. m.params \in Seq(Values) /\ Len(m.params) = 1
    <3>1. m.fault = <<>>
      BY <1>4 DEF IsFaulty
    <3>2. ASSUME m.fault \in Seq(STRING), Len(m.fault) = 2 PROVE FALSE
      BY <3>1, <3>2, LengthFacts
    <3> QED
      BY <3>2 DEF IsMessage
  <2>2. PICK v \in Values : v = m.params[1]
    BY <2>1
  <2>3. PICK a \in Streams : a = X[v]
    BY WrittenStreams DEF Writes
  <2>4. PICK b \in Streams : b = Node("param", a)
    BY NodeType, Words
  <2>5. Node("params", b) \in Streams
    BY NodeType, Words
  <2>6. Body(m, X) = Node("params", b)
    BY <1>4, <2>2, <2>3, <2>4 DEF Body
  <2> QED
    BY <1>1, <1>2, <1>3, <1>4, <2>2, <2>3, <2>4, <2>5, <2>6
<1>5. CASE IsFaulty(m)
  <2>1. FaultOf(m.fault[1], m.fault[2]) \in Values
    BY <1>5 DEF IsMessage, IsFaulty
  <2>2. PICK v \in Values : v = FaultMessage(m)
    BY <2>1 DEF FaultMessage
  <2>3. PICK a \in Streams : a = X[v]
    BY WrittenStreams DEF Writes
  <2>4. Node("fault", a) \in Streams
    BY NodeType, Words
  <2>5. Body(m, X) = Node("fault", a)
    BY <1>5, <2>2, <2>3 DEF Body
  <2> QED
    BY <1>1, <1>2, <1>3, <1>5, <2>2, <2>3, <2>4, <2>5
<1> QED
  BY <1>4, <1>5

\* The last builder is that of a response m.
AtResponse(m, X) ==
    Running /\ Top.kind = "Response" /\ IsMessage("Response", m) /\ WritesValues(X)

LEMMA ResponseGoesOn ==
    ASSUME NEW m, NEW X, AtResponse(m, X), NEW f, Stays(f), f.kind = "Response",
           NEW L, NowLeft(L), built' = built,
           \/ ResponseBegun(f, L, built, m, X) \/ ResultBegun(f, L, built, m, X)
           \/ ResultParam(f, L, built, m, X) \/ FaultBegun(f, L, built, m, X),
           NEW q
    PROVE  Goes(q, m, X)
<1>1. ResponseAt(f, L, built, m, X)
  BY DEF ResponseAt, AtResponse
<1>2. TopAt(f, q, L, built, m, X)
  BY <1>1 DEF TopAt
<1> QED
  BY <1>2, GoesOn

LEMMA AnswerBegins ==
    ASSUME NEW m, NEW X, AtResponse(m, X), ResponseBegins(Top, Left(reader), built, m, X), NEW q
    PROVE  Goes(q, m, X)
<1>1. /\ Top.state = "NONE" /\ built = Nothing /\ Top.kind = "Response" /\ ~Top.exit
      /\ Left(reader) = Before(Node("methodResponse", Body(m, X)), <<>>)
  BY DEF ResponseBegins, InResponse, AtResponse
<1>2. IsMessage("Response", m) /\ WritesValues(X) /\ Running
  BY DEF AtResponse
<1>3. PICK c \in Streams : c = Body(m, X)
  BY <1>2, ResponseFacts
<1>4. PICK none \in Streams : none = <<>>
  BY EmptyStream
<1>5. PICK L : L = Before(c, Closing("methodResponse", none))
  OBVIOUS
<1>6. HasRead(Read(reader), "begin", "methodResponse", L)
  <2>1. Left(reader) = Before(Node("methodResponse", c), none)
    BY <1>1, <1>3, <1>4
  <2> QED
    BY <1>2, <1>5, <2>1, BeginRead, Words DEF Running
<1>7. Leads(Top, "methodResponse", "RESPONSE")
  BY <1>1, ResponseRows
<1>8. PICK f : Deeper(f, Top, "RESPONSE") /\ Stays(f) /\ built' = built /\ NowLeft(L)
  BY <1>2, <1>6, <1>7, MoveStep
<1>9. f.kind = "Response" /\ f.depth >= 1 /\ f.state = "RESPONSE" /\ ~f.exit
  <2>1. Top.depth \in Nat
    BY <1>2, TopFacts DEF Running
  <2> QED
    BY <1>1, <1>8, <2>1 DEF Deeper
<1>10. ResponseBegun(f, L, built, m, X)
  BY <1>1, <1>3, <1>4, <1>5, <1>9 DEF ResponseBegun, InResponse, ResponseEnd
<1> QED
  BY <1>8, <1>9, <1>10, ResponseGoesOn

LEMMA BodyBegins ==
    ASSUME NEW m, NEW X, AtResponse(m, X), ResponseBegun(Top, Left(reader), built, m, X), NEW q
    PROVE  Goes(q, m, X)
<1>1. /\ Top.state = "RESPONSE" /\ built = Nothing /\ Top.kind = "Response" /\ ~Top.exit
      /\ Top.depth >= 1
      /\ Left(reader) = Before(Body(m, X), ResponseEnd)
  BY DEF ResponseBegun, InResponse, AtResponse
<1>2. IsMessage("Response", m) /\ WritesValues(X) /\ Running
  BY DEF AtResponse
<1>3. Top.depth \in Nat
  BY <1>2, TopFacts DEF Running
<1>4. PICK end \in Streams : end = ResponseEnd
  BY <1>2, ResponseFacts
<1>5. CASE IsFaulty(m)
  <2>1. PICK c \in Streams : c = X[FaultMessage(m)] /\ Body(m, X) = Node("fault", c)
    BY <1>2, <1>5, ResponseFacts
  <2>2. PICK L : L = Before(c, Closing("fault", end))
    OBVIOUS
  <2>3. HasRead(Read(reader), "begin", "fault", L)
    <3>1. Left(reader) = Before(Node("fault", c), end)
      BY <1>1, <1>4, <2>1
    <3> QED
      BY <1>2, <2>2, <3>1, BeginRead, Words DEF Running
  <2>4. Leads(Top, "fault", "FAULT_RESPONSE")
    BY <1>1, ResponseRows
  <2>5. PICK f : Deeper(f, Top, "FAULT_RESPONSE") /\ Stays(f) /\ built' = built /\ NowLeft(L)
    BY <1>2, <2>3, <2>4, MoveStep
  <2>6. f.kind = "Response" /\ f.depth >= 2 /\ f.state = "FAULT_RESPONSE" /\ ~f.exit
    BY <1>1, <1>3, <2>5 DEF Deeper
  <2>7. FaultBegun(f, L, built, m, X)
    BY <1>1, <1>4, <1>5, <2>1, <2>2, <2>6 DEF FaultBegun, InResponse, FaultEnd
  <2> QED
    BY <2>5, <2>6, <2>7, ResponseGoesOn
<1>6. CASE ~IsFaulty(m)
  <2>1. PICK c \in Streams : c = Node("param", X[m.params[1]]) /\ Body(m, X) = Node("params", c)
    BY <1>2, <1>6, ResponseFacts
  <2>2. PICK L : L = Before(c, Closing("params", end))
    OBVIOUS
  <2>3. HasRead(Read(reader), "begin", "params", L)
    <3>1. Left(reader) = Before(Node("params", c), end)
      BY <1>1, <1>4, <2>1
    <3> QED
      BY <1>2, <2>2, <3>1, BeginRead, Words DEF Running
  <2>4. Leads(Top, "params", "OK_RESPONSE")
    BY <1>1, ResponseRows
  <2>5. PICK f : Deeper(f, Top, "OK_RESPONSE") /\ Stays(f) /\ built' = built /\ NowLeft(L)
    BY <1>2, <2>3, <2>4, MoveStep
  <2>6. f.kind = "Response" /\ f.depth >= 2 /\ f.state = "OK_RESPONSE" /\ ~f.exit
    BY <1>1, <1>3, <2>5 DEF Deeper
  <2>7. ResultBegun(f, L, built, m, X)
    BY <1>1, <1>4, <1>6, <2>1, <2>2, <2>6 DEF ResultBegun, InResponse, ParamsEnd
  <2> QED
    BY <2>5, <2>6, <2>7, ResponseGoesOn
<1> QED
  BY <1>5, <1>6

LEMMA ResultParamBegins ==
    ASSUME NEW m, NEW X, AtResponse(m, X), ResultBegun(Top, Left(reader), built, m, X), NEW q
    PROVE  Goes(q, m, X)
<1>1. /\ Top.state = "OK_RESPONSE" /\ built = Nothing /\ Top.kind = "Response" /\ ~Top.exit
      /\ Top.depth >= 2 /\ ~IsFaulty(m)
      /\ Left(reader) = Before(Node("param", X[m.params[1]]), ParamsEnd)
  BY DEF ResultBegun, InResponse, AtResponse
<1>2. IsMessage("Response", m) /\ WritesValues(X) /\ Running
  BY DEF AtResponse
<1>3. Top.depth \in Nat
  BY <1>2, TopFacts DEF Running
<1>4. PICK end \in Streams : end = ParamsEnd
  BY <1>2, ResponseFacts
<1>5. PICK c \in Streams : c = X[m.params[1]]
  BY <1>1, <1>2, ResponseFacts
<1>6. PICK L : L = Before(c, Closing("param", end))
  OBVIOUS
<1>7. HasRead(Read(reader), "begin", "param", L)
  <2>1. Left(reader) = Before(Node("param", c), end)
    BY <1>1, <1>4, <1>5
  <2> QED
    BY <1>2, <1>6, <2>1, BeginRead, Words DEF Running
<1>8. Leads(Top, "param", "OK_PARAM")
  BY <1>1, ResponseRows
<1>9. PICK f : Deeper(f, Top, "OK_PARAM") /\ Stays(f) /\ built' = built /\ NowLeft(L)
  BY <1>2, <1>7, <1>8, MoveStep
<1>10. f.kind = "Response" /\ f.depth >= 3 /\ f.state = "OK_PARAM" /\ ~f.exit
  BY <1>1, <1>3, <1>9 DEF Deeper
<1>11. ResultParam(f, L, built, m, X)
  BY <1>1, <1>4, <1>5, <1>6, <1>10 DEF ResultParam, InResponse, ParamEnd
<1> QED
  BY <1>9, <1>10, <1>11, ResponseGoesOn

LEMMA ResultValueBegins ==
    ASSUME NEW m, NEW X, AtResponse(m, X), ResultParam(Top, Left(reader), built, m, X), NEW q
    PROVE  Goes(q, m, X)
<1>1. /\ Top.state = "OK_PARAM" /\ built = Nothing /\ Top.kind = "Response" /\ ~Top.exit
      /\ Top.depth >= 3 /\ ~IsFaulty(m)
      /\ Left(reader) = Before(X[m.params[1]], ParamEnd)
  BY DEF ResultParam, InResponse, AtResponse
<1>2. IsMessage("Response", m) /\ WritesValues(X) /\ Running
  BY DEF AtResponse
<1>3. Top.depth \in Nat
  BY <1>2, TopFacts DEF Running
<1>4. PICK rest \in Streams : rest = ParamEnd
  BY <1>2, ResponseFacts
<1>5. PICK v \in Values : v = m.params[1]
  BY <1>1, <1>2, ResponseFacts
<1>6. PICK c \in Streams : Contents(X, v, c) /\ X[v] = Node("value", c)
  BY <1>2, ContentsExist
<1>7. PICK L : L = Before(c, Closing("value", rest))
  OBVIOUS
<1>8. HasRead(Read(reader), "begin", "value", L)
  <2>1. Left(reader) = Before(Node("value", c), rest)
    BY <1>1, <1>4, <1>5, <1>6
  <2> QED
    BY <1>2, <1>7, <2>1, BeginRead, Words DEF Running
<1>9. Leads(Top, "value", "OK_PARAM_VALUE")
  BY <1>1, ResponseRows
<1>10. PICK g : /\ Deeper(g, Top, "OK_PARAM_VALUE") /\ Pushed(g, Builder(Starts(g), IsFlat(g)))
                /\ UNCHANGED <<doc, built, outcome>> /\ NowLeft(L)
  BY <1>2, <1>8, <1>9, CallStep
<1>11. g.state = "OK_PARAM_VALUE" /\ g.kind = "Response" /\ g.depth >= 4 /\ ~g.exit
  BY <1>1, <1>3, <1>10 DEF Deeper
<1>12. Starts(g) = "Value" /\ IsFlat(g) = TRUE
  BY <1>11 DEF Starts, IsFlat
<1>13. PICK h : h = Builder("Value", TRUE)
  OBVIOUS
<1>14. h.kind = "Value" /\ ~h.exit /\ h.depth = 1 /\ h.state = "VALUE" /\ h.val = NoValue
  BY <1>13, BuilderStarts
<1>15. Pushed(g, h)
  BY <1>10, <1>12, <1>13
<1>16. PICK r : r.v = v /\ r.after = rest /\ r.flat = 1 /\ IsGoal(r)
  <2>1. PICK r : r = Goal(v, rest, 1)
    OBVIOUS
  <2>2. r.v = v /\ r.after = rest /\ r.flat = 1
    BY <2>1, GoalFacts
  <2> QED
    BY <2>2 DEF IsGoal
<1>17. ValueBegins(h, r, L, X)
  BY <1>6, <1>7, <1>14, <1>16 DEF ValueBegins
<1>18. TopAt(h, r, L, built, m, X)
  BY <1>14, <1>16, <1>17 DEF TopAt, ValueAt
<1>19. ResultAwaited(g, built, m, r)
  BY <1>1, <1>4, <1>5, <1>11, <1>16 DEF ResultAwaited, InResponse
<1>20. Waits(g, q, "Value", r, built, m, X)
  BY <1>2, <1>11, <1>19 DEF Waits, ResponseWaits
<1> QED
  BY <1>10, <1>14, <1>15, <1>18, <1>20, GoesDown

LEMMA FaultValueBegins ==
    ASSUME NEW m, NEW X, AtResponse(m, X), FaultBegun(Top, Left(reader), built, m, X), NEW q
    PROVE  Goes(q, m, X)
<1>1. /\ Top.state = "FAULT_RESPONSE" /\ built = Nothing /\ Top.kind = "Response" /\ ~Top.exit
      /\ Top.depth >= 2 /\ IsFaulty(m)
      /\ Left(reader) = Before(X[FaultMessage(m)], FaultEnd)
  BY DEF FaultBegun, InResponse, AtResponse
<1>2. IsMessage("Response", m) /\ WritesValues(X) /\ Running
  BY DEF AtResponse
<1>3. Top.depth \in Nat
  BY <1>2, TopFacts DEF Running
<1>4. PICK rest \in Streams : rest = FaultEnd
  BY <1>2, ResponseFacts
<1>5. PICK v \in Values : v = FaultMessage(m)
  BY <1>1, <1>2, ResponseFacts
<1>6. PICK c \in Streams : Contents(X, v, c) /\ X[v] = Node("value", c)
  BY <1>2, ContentsExist
<1>7. PICK L : L = Before(c, Closing("value", rest))
  OBVIOUS
<1>8. HasRead(Read(reader), "begin", "value", L)
  <2>1. Left(reader) = Before(Node("value", c), rest)
    BY <1>1, <1>4, <1>5, <1>6
  <2> QED
    BY <1>2, <1>7, <2>1, BeginRead, Words DEF Running
<1>9. Leads(Top, "value", "FAULT_RESPONSE_VALUE")
  BY <1>1, ResponseRows
<1>10. PICK g : /\ Deeper(g, Top, "FAULT_RESPONSE_VALUE") /\ Pushed(g, Builder(Starts(g), IsFlat(g)))
                /\ UNCHANGED <<doc, built, outcome>> /\ NowLeft(L)
  BY <1>2, <1>8, <1>9, CallStep
<1>11. g.state = "FAULT_RESPONSE_VALUE" /\ g.kind = "Response" /\ g.depth >= 3 /\ ~g.exit
  BY <1>1, <1>3, <1>10 DEF Deeper
<1>12. Starts(g) = "Value" /\ IsFlat(g) = FALSE
  BY <1>11 DEF Starts, IsFlat
<1>13. PICK h : h = Builder("Value", FALSE)
  OBVIOUS
<1>14. h.kind = "Value" /\ ~h.exit /\ h.depth = 0 /\ h.state = "VALUE" /\ h.val = NoValue
  BY <1>13, BuilderStarts
<1>15. Pushed(g, h)
  BY <1>10, <1>12, <1>13
<1>16. PICK r : r.v = v /\ r.after = rest /\ r.flat = 0 /\ IsGoal(r)
  <2>1. PICK r : r = Goal(v, rest, 0)
    OBVIOUS
  <2>2. r.v = v /\ r.after = rest /\ r.flat = 0
    BY <2>1, GoalFacts
  <2> QED
    BY <2>2 DEF IsGoal
<1>17. ValueBegins(h, r, L, X)
  BY <1>6, <1>7, <1>14, <1>16 DEF ValueBegins
<1>18. TopAt(h, r, L, built, m, X)
  BY <1>14, <1>16, <1>17 DEF TopAt, ValueAt
<1>19. FaultAwaited(g, built, m, r)
  BY <1>1, <1>4, <1>5, <1>11, <1>16 DEF FaultAwaited, InResponse
<1>20. Waits(g, q, "Value", r, built, m, X)
  BY <1>2, <1>11, <1>19 DEF Waits, ResponseWaits
<1> QED
  BY <1>10, <1>14, <1>15, <1>18, <1>20, GoesDown

LEMMA ResponseGoes ==
    ASSUME Running, NEW m, NEW X, WritesValues(X), ResponseAt(Top, Left(reader), built, m, X), NEW q
    PROVE  Goes(q, m, X)
<1>1. AtResponse(m, X)
  BY DEF AtResponse, ResponseAt
<1>2. CASE ResponseBegins(Top, Left(reader), built, m, X)
  BY <1>1, <1>2, AnswerBegins
<1>3. CASE ResponseBegun(Top, Left(reader), built, m, X)
  BY <1>1, <1>3, BodyBegins
<1>4. CASE ResultBegun(Top, Left(reader), built, m, X)
  BY <1>1, <1>4, ResultParamBegins
<1>5. CASE ResultParam(Top, Left(reader), built, m, X)
  BY <1>1, <1>5, ResultValueBegins
<1>6. CASE FaultBegun(Top, Left(reader), built, m, X)
  BY <1>1, <1>6, FaultValueBegins
<1>7. CASE RootEnds(Top, Left(reader), built, m)
  <2>1. Top.kind \in {"Request", "Response"} /\ IsMessage(Top.kind, m)
    BY DEF ResponseAt
  <2> QED
    BY <1>7, <2>1, RootEndGoes
<1> QED
  BY <1>2, <1>3, <1>4, <1>5, <1>6, <1>7 DEF ResponseAt

\* Any step of a builder that has not returned keeps it to its goal.
LEMMA TopGoes ==
    ASSUME Running, Plain, NEW m, m.name \notin Blank, NEW X, WritesValues(X),
           NEW q, TopAt(Top, q, Left(reader), built, m, X)
    PROVE  Goes(q, m, X)
<1>1. CASE ValueAt(Top, q, Left(reader), X)
  BY <1>1, ValueGoes
<1>2. CASE StructAt(Top, q, Left(reader), X)
  BY <1>2, StructGoes
<1>3. CASE ArrayAt(Top, q, Left(reader), X)
  BY <1>3, ArrayGoes
<1>4. CASE RequestAt(Top, Left(reader), built, m, X)
  BY <1>4, RequestGoes
<1>5. CASE ResponseAt(Top, Left(reader), built, m, X)
  BY <1>5, ResponseGoes
<1> QED
  BY <1>1, <1>2, <1>3, <1>4, <1>5 DEF TopAt

-----------------------------------------------------------------------------
(* Values that are returned *)

\* A step of a parse whose last builder returns to the builder f.
Returning(f) ==
    /\ IInv /\ Next /\ outcome = "parsing" /\ Top.exit /\ Len(stack) > 1
    /\ f = stack[Len(stack) - 1]

\* What sub_build() has returned keeps its caller to its goal.
Comes(q, m, X) ==
    \E c : /\ Popped(c) /\ UNCHANGED <<doc, reader, outcome>>
           /\ Len(stack) = 2 \/ built' = built
           /\ TopAt(c, q, Left(reader), built', m, X)

\* A fault is of the wrong form.
IsMisformed(f, v) == f.state = "FAULT_RESPONSE_VALUE" /\ ~(IsFault(v) /\ FaultTyped(v))

LEMMA ReturnStep ==
    ASSUME NEW f, Returning(f), NEW v, v = Top.val, ~IsMisformed(f, v)
    PROVE  \E c : /\ Popped(c) /\ UNCHANGED <<doc, reader, outcome>>
                  /\ f.kind = "Value"  => c = ValueTakes(f, v) /\ built' = built
                  /\ f.kind = "Struct" => c = StructTakes(f, v) /\ built' = built
                  /\ f.kind = "Array"  => c = ArrayTakes(f, v) /\ built' = built
                  /\ f.kind = "Request" => c = f /\ built' = RequestTakes(v)
                  /\ f.kind = "Response" /\ f.state = "OK_PARAM_VALUE"
                        => c = f /\ built' = ResponseTakes(v)
                  /\ f.kind = "Response" /\ f.state = "FAULT_RESPONSE_VALUE"
                        => c = f /\ built' = FaultTakes(v)
<1>1. SubBuilt /\ IInv /\ Len(stack) > 1 /\ Top.exit /\ f = stack[Len(stack) - 1]
  BY StepAfterExit DEF Returning
<1>2. Calls(f, Top.kind)
  BY <1>1, ReturnedFacts
<1>3. PICK c : c = CASE f.kind = "Value"  -> ValueTakes(f, v)
                     [] f.kind = "Struct" -> StructTakes(f, v)
                     [] f.kind = "Array"  -> ArrayTakes(f, v)
                     [] OTHER             -> f
  OBVIOUS
<1>4. /\ stack' = Append(SubSeq(stack, 1, Len(stack) - 2), c)
      /\ built' = IF f.state = "FAULT_RESPONSE_VALUE" THEN FaultTakes(v)
                  ELSE CASE f.kind = "Request"  -> RequestTakes(v)
                         [] f.kind = "Response" -> ResponseTakes(v)
                         [] OTHER               -> built
      /\ UNCHANGED <<doc, reader, outcome>>
  BY <1>1, <1>3 DEF SubBuilt, IsMisformed
<1>5. Popped(c)
  <2>1. PICK s : s = Below(stack)
    OBVIOUS
  <2>2. IsSequence(stack)
    BY <1>1 DEF IInv, StackOK
  <2>3. /\ IsSequence(Append(s, c)) /\ Len(Append(s, c)) = Len(stack) - 1
        /\ Append(s, c)[Len(stack) - 1] = c
        /\ \A i \in 1..(Len(stack) - 2) : Append(s, c)[i] = stack[i]
    BY <1>1, <2>1, <2>2, PoppedFacts
  <2>4. stack' = Append(s, c)
    BY <1>4, <2>1 DEF Below
  <2> QED
    BY <2>3, <2>4 DEF Popped
<1>6. f.kind # "Request" /\ f.kind # "Response" => f.state # "FAULT_RESPONSE_VALUE"
  BY <1>2 DEF Calls
<1>7. f.kind = "Request" => f.state # "FAULT_RESPONSE_VALUE"
  BY <1>2 DEF Calls
<1> QED
  BY <1>3, <1>4, <1>5, <1>6, <1>7

\* Only the first builder reads a message.
LEMMA CallerIsFirst ==
    ASSUME NEW f, Returning(f), f.kind \in {"Request", "Response"}
    PROVE  Len(stack) = 2
<1>1. IInv /\ Len(stack) > 1 /\ f = stack[Len(stack) - 1] /\ Len(stack) \in Nat
  BY TopFacts DEF Returning
<1>2. ASSUME Len(stack) > 2 PROVE FALSE
  <2>1. PICK i \in 1..(Len(stack) - 1) : i + 1 = Len(stack) - 1
    <3>1. Len(stack) - 2 \in 1..(Len(stack) - 1) /\ (Len(stack) - 2) + 1 = Len(stack) - 1
      BY <1>1, <1>2
    <3> QED
      BY <3>1
  <2>2. Calls(stack[i], stack[i + 1].kind)
    BY <1>1, <2>1 DEF IInv, StackOK
  <2> QED
    BY <1>1, <2>1, <2>2 DEF Calls
<1>3. PICK n \in Nat : n = Len(stack)
  BY <1>1
<1>4. n > 1 /\ ~(n > 2)
  BY <1>1, <1>2, <1>3
<1>5. n = 2
  BY <1>4
<1> QED
  BY <1>3, <1>5

\* What a builder returns.
LEMMA ContainerReturned ==
    ASSUME Top.exit, Top.kind \in {"Struct", "Array"}, NEW r, NEW L, NEW b, NEW m, NEW X,
           TopAt(Top, r, L, b, m, X)
    PROVE  Top.val = r.v /\ L = r.after
<1>1. StructAt(Top, r, L, X) \/ ArrayAt(Top, r, L, X)
  BY DEF TopAt, ValueAt, RequestAt, ResponseAt
<1>2. ContainerReturns(Top, r, L)
  <2>1. CASE StructAt(Top, r, L, X)
    BY <2>1 DEF StructAt, StructBetween, MemberBegun, NameRead, NameEnded, PartRead, PartEnded, InMember
  <2>2. CASE ArrayAt(Top, r, L, X)
    BY <2>2 DEF ArrayAt, ArrayBegins, ArrayBetween, ItemRead, ArrayEnds, InArray
  <2> QED
    BY <1>1, <2>1, <2>2
<1> QED
  BY <1>2 DEF ContainerReturns

LEMMA ValueReturned ==
    ASSUME Plain, Top.exit, Top.kind = "Value", NEW r, NEW L, NEW b, NEW m, NEW X,
           TopAt(Top, r, L, b, m, X)
    PROVE  /\ IsGoal(r) /\ OrEmpty(Top.val) = r.v
           /\ Top.val = r.v \/ Top.val = NoValue
           /\ r.v # EmptyString => Top.val = r.v
           /\ L = Closing("value", r.after) \/ L = r.after
           /\ r.flat = 0 => L = Closing("value", r.after)
<1>1. ValueAt(Top, r, L, X)
  BY DEF TopAt, StructAt, ArrayAt, RequestAt, ResponseAt
<1>2. ValueReturns(Top, r, L) /\ IsGoal(r)
  BY <1>1 DEF ValueAt, ValueBegins, ScalarBegun, ScalarRead, ScalarEnded, InScalar
<1>3. r.v # NoValue
  BY <1>2, PlainFacts DEF IsGoal
<1> QED
  BY <1>2, <1>3 DEF ValueReturns, OrEmpty

LEMMA ValueGets ==
    ASSUME NEW f, Returning(f), NEW q, NEW r, ValueWaits(f, q, Top.kind, r), NEW m, NEW X,
           TopAt(Top, r, Left(reader), built, m, X)
    PROVE  Comes(q, m, X)
<1>1. /\ f.kind = "Value" /\ IsGoal(q) /\ Top.kind \in {"Struct", "Array"}
      /\ r.v = q.v /\ r.after = Closing("value", q.after)
      /\ f.state # "FAULT_RESPONSE_VALUE"
  BY DEF ValueWaits
<1>2. PICK v : v = Top.val
  OBVIOUS
<1>3. v = q.v /\ Left(reader) = Closing("value", q.after)
  BY <1>1, <1>2, ContainerReturned DEF Returning
<1>4. ~IsMisformed(f, v)
  BY <1>1 DEF IsMisformed
<1>5. PICK c : /\ Popped(c) /\ UNCHANGED <<doc, reader, outcome>>
               /\ c = ValueTakes(f, v) /\ built' = built
  BY <1>1, <1>2, <1>4, ReturnStep
<1>6. DOMAIN f = Fields
  BY ReturnedFacts DEF Returning, IsFrame
<1>7. c.kind = "Value" /\ c.exit /\ c.val = v
  BY <1>1, <1>5, <1>6 DEF ValueTakes, Fields
<1>8. PICK L : L = Left(reader)
  OBVIOUS
<1>9. ValueAt(c, q, L, X)
  BY <1>1, <1>3, <1>7, <1>8 DEF ValueAt, ValueReturns
<1>10. TopAt(c, q, L, built, m, X)
  BY <1>9 DEF TopAt
<1> QED
  BY <1>5, <1>8, <1>10 DEF Comes

LEMMA StructGets ==
    ASSUME Plain, NEW f, Returning(f), NEW q, NEW r, NEW X, StructWaits(f, q, Top.kind, r, X), NEW m,
           TopAt(Top, r, Left(reader), built, m, X)
    PROVE  Comes(q, m, X)
<1>1. PICK k : PartAwaited(f, q, X, k, r)
  BY DEF StructWaits
<1>2. /\ f.kind = "Struct" /\ IsGoal(q) /\ Top.kind = "Value"
      /\ InMember(f, q, k) /\ f.state = "VALUE_READ" /\ f.depth = 3 /\ f.name = NameAt(q, k + 1)
      /\ r.v = PartAt(q, k + 1) /\ r.after = MemberRest(q, X, k + 1) /\ r.flat = 0
  BY <1>1 DEF StructWaits, PartAwaited
<1>3. PICK v : v = Top.val
  OBVIOUS
<1>4. OrEmpty(v) = PartAt(q, k + 1) /\ Left(reader) = Closing("value", MemberRest(q, X, k + 1))
  BY <1>2, <1>3, ValueReturned DEF Returning
<1>5. ~IsMisformed(f, v)
  BY <1>2 DEF IsMisformed
<1>6. PICK c : /\ Popped(c) /\ UNCHANGED <<doc, reader, outcome>>
               /\ c = StructTakes(f, v) /\ built' = built
  BY <1>2, <1>3, <1>5, ReturnStep
<1>7. DOMAIN f = Fields
  BY ReturnedFacts DEF Returning, IsFrame
<1>8. PICK w : w = OrEmpty(v)
  OBVIOUS
<1>9. /\ c.kind = "Struct" /\ c.exit = f.exit /\ c.val = f.val /\ c.state = "VALUE_READ"
      /\ c.depth = 3 /\ c.name = f.name /\ c.member = w
  BY <1>2, <1>6, <1>7, <1>8 DEF StructTakes, Fields
<1>10. PICK L : L = Left(reader)
  OBVIOUS
<1>11. PartRead(c, q, L, X, k)
  BY <1>2, <1>4, <1>8, <1>9, <1>10 DEF PartRead, InMember
<1>12. TopAt(c, q, L, built, m, X)
  BY <1>2, <1>9, <1>11 DEF TopAt, StructAt
<1> QED
  BY <1>6, <1>10, <1>12 DEF Comes

LEMMA DatumWithItems ==
    ASSUME NEW type, NEW text, NEW items, NEW fields, NEW more
    PROVE  [Datum(type, text, items, fields) EXCEPT !.items = more] = Datum(type, text, more, fields)
  BY DEF Datum

LEMMA NextItem ==
    ASSUME NEW q, IsArray(q.v, Values), NEW k \in Nat, k < Len(q.v.items),
           NEW a, a = ItemsSoFar(q, k), NEW x, x = q.v.items[k + 1]
    PROVE  [a EXCEPT !.items = Append(@, x)] = ItemsSoFar(q, k + 1)
<1>1. PICK items \in Seq(Values) : items = q.v.items
  BY DEF IsArray
<1>2. PICK front : front = SubSeq(items, 1, k)
  OBVIOUS
<1>3. PICK more : more = SubSeq(items, 1, k + 1)
  OBVIOUS
<1>4. Append(front, x) = more
  BY <1>1, <1>2, <1>3
<1>5. a = ArrayOf(front) /\ a.items = front
  BY <1>1, <1>2, ContainerParts DEF ItemsSoFar
<1>6. [ArrayOf(front) EXCEPT !.items = more] = ArrayOf(more)
  <2>1. PICK type, text, fields : type = "ARRAY" /\ text = "" /\ fields = <<>>
    OBVIOUS
  <2>2. [Datum(type, text, front, fields) EXCEPT !.items = more] = Datum(type, text, more, fields)
    BY DatumWithItems
  <2>3. ArrayOf(front) = Datum(type, text, front, fields)
    BY <2>1 DEF ArrayOf
  <2>4. ArrayOf(more) = Datum(type, text, more, fields)
    BY <2>1 DEF ArrayOf
  <2> QED
    BY <2>2, <2>3, <2>4
<1>7. [a EXCEPT !.items = Append(@, x)] = ArrayOf(more)
  BY <1>4, <1>5, <1>6
<1> QED
  BY <1>1, <1>3, <1>7 DEF ItemsSoFar

LEMMA ArrayGets ==
    ASSUME Plain, NEW f, Returning(f), NEW q, NEW r, NEW X, ArrayWaits(f, q, Top.kind, r, X), NEW m,
           TopAt(Top, r, Left(reader), built, m, X)
    PROVE  Comes(q, m, X)
<1>1. PICK k : ItemAwaited(f, q, X, k, r)
  BY DEF ArrayWaits
<1>2. /\ f.kind = "Array" /\ IsGoal(q) /\ Top.kind = "Value"
      /\ IsArray(q.v, Values) /\ k \in Nat /\ k < Len(q.v.items) /\ ~f.exit
      /\ f.val = ItemsSoFar(q, k) /\ f.state = "VALUES" /\ f.depth = 3
      /\ r.v = q.v.items[k + 1] /\ r.after = ArrayRest(q, X, k + 1) /\ r.flat = 0
  BY <1>1 DEF ArrayWaits, ItemAwaited, InArray
<1>3. PICK v : v = Top.val
  OBVIOUS
<1>4. OrEmpty(v) = q.v.items[k + 1] /\ Left(reader) = Closing("value", ArrayRest(q, X, k + 1))
  BY <1>2, <1>3, ValueReturned DEF Returning
<1>5. ~IsMisformed(f, v)
  BY <1>2 DEF IsMisformed
<1>6. PICK c : /\ Popped(c) /\ UNCHANGED <<doc, reader, outcome>>
               /\ c = ArrayTakes(f, v) /\ built' = built
  BY <1>2, <1>3, <1>5, ReturnStep
<1>7. DOMAIN f = Fields
  BY ReturnedFacts DEF Returning, IsFrame
<1>0. PICK a, x : a = f.val /\ x = OrEmpty(v)
  OBVIOUS
<1>8. PICK w : w = [a EXCEPT !.items = Append(@, x)]
  OBVIOUS
<1>9. c = [f EXCEPT !.val = w]
  BY <1>0, <1>6, <1>7, <1>8 DEF ArrayTakes, Fields
<1>10. /\ c.kind = "Array" /\ c.exit = f.exit /\ c.val = w /\ c.state = "VALUES" /\ c.depth = 3
  BY <1>2, <1>7, <1>9 DEF Fields
<1>11. w = ItemsSoFar(q, k + 1)
  <2>1. IsArray(q.v, Values) /\ k \in Nat /\ k < Len(q.v.items)
    BY <1>2
  <2>2. a = ItemsSoFar(q, k) /\ x = q.v.items[k + 1]
    BY <1>0, <1>2, <1>4
  <2>3. [a EXCEPT !.items = Append(@, x)] = ItemsSoFar(q, k + 1)
    BY <2>1, <2>2, NextItem
  <2> QED
    BY <1>8, <2>3
<1>12. PICK L : L = Left(reader)
  OBVIOUS
<1>13. ItemRead(c, q, L, X, k + 1)
  <2>1. k + 1 \in Nat /\ k + 1 <= Len(q.v.items)
    BY <1>2, LengthFacts DEF IsArray
  <2> QED
    BY <1>2, <1>4, <1>10, <1>11, <1>12, <2>1 DEF ItemRead, InArray
<1>14. TopAt(c, q, L, built, m, X)
  BY <1>2, <1>10, <1>13 DEF TopAt, ArrayAt
<1> QED
  BY <1>6, <1>12, <1>14 DEF Comes

\* A root builder that has a value it waited for.
LEMMA RootComes ==
    ASSUME NEW f, Returning(f), f.kind \in {"Request", "Response"}, Popped(f),
           UNCHANGED <<doc, reader, outcome>>, NEW b, built' = b,
           NEW L, L = Left(reader), NEW m, NEW X,
           RequestAt(f, L, b, m, X) \/ ResponseAt(f, L, b, m, X), NEW q
    PROVE  Comes(q, m, X)
<1>1. Len(stack) = 2
  BY CallerIsFirst
<1>2. TopAt(f, q, L, b, m, X)
  BY DEF TopAt
<1> QED
  BY <1>1, <1>2 DEF Comes

LEMMA NextParam ==
    ASSUME NEW m, IsMessage("Request", m), NEW k \in Nat, k < Len(m.params),
           NEW b, b = ParamsSoFar(m, k), NEW v, v = m.params[k + 1]
    PROVE  [b EXCEPT !.params = Append(@, v)] = ParamsSoFar(m, k + 1)
<1>1. PICK params \in Seq(Values) : params = m.params
  BY DEF IsMessage
<1>2. PICK front : front = SubSeq(params, 1, k)
  OBVIOUS
<1>3. PICK more : more = SubSeq(params, 1, k + 1)
  OBVIOUS
<1>4. Append(front, v) = more
  BY <1>1, <1>2, <1>3
<1>5. PICK name, fault : name = m.name /\ fault = <<>>
  OBVIOUS
<1>6. b = Message(name, front, fault)
  BY <1>1, <1>2, <1>5 DEF ParamsSoFar
<1>7. Message(name, front, fault).params = front
      /\ [Message(name, front, fault) EXCEPT !.params = more] = Message(name, more, fault)
  BY DEF Message
<1>8. [b EXCEPT !.params = Append(@, v)] = Message(name, more, fault)
  BY <1>4, <1>6, <1>7
<1> QED
  BY <1>1, <1>3, <1>5, <1>8 DEF ParamsSoFar

LEMMA RequestGets ==
    ASSUME Plain, NEW f, Returning(f), NEW r, NEW m, NEW X, RequestWaits(f, Top.kind, r, built, m, X),
           NEW q, TopAt(Top, r, Left(reader), built, m, X)
    PROVE  Comes(q, m, X)
<1>1. PICK k : ParamAwaited(f, built, m, X, k, r)
  BY DEF RequestWaits
<1>2. /\ f.kind = "Request" /\ IsMessage("Request", m) /\ Top.kind = "Value"
      /\ ~f.exit /\ k \in Nat /\ k < Len(m.params) /\ k <= Len(m.params)
      /\ built = ParamsSoFar(m, k) /\ f.state = "VALUE" /\ f.depth >= 4
      /\ r.v = m.params[k + 1] /\ r.after = Closing("param", ParamsRest(m, X, k + 1))
  BY <1>1 DEF RequestWaits, ParamAwaited, InRequest
<1>3. PICK v : v = Top.val
  OBVIOUS
<1>4. v # NoValue
  BY <1>2, <1>3, ReturnedFacts DEF Returning
<1>5. PICK L : L = Left(reader)
  OBVIOUS
<1>6. v = m.params[k + 1] /\ (L = Closing("value", r.after) \/ L = r.after)
  BY <1>2, <1>3, <1>4, <1>5, ValueReturned DEF Returning
<1>7. ~IsMisformed(f, v)
  BY <1>2 DEF IsMisformed
<1>8. Popped(f) /\ UNCHANGED <<doc, reader, outcome>> /\ built' = RequestTakes(v)
  BY <1>2, <1>3, <1>7, ReturnStep
<1>9. PICK b : b = ParamsSoFar(m, k + 1)
  OBVIOUS
<1>10. built' = b
  <2>1. PICK a : a = built
    OBVIOUS
  <2>2. IsMessage("Request", m) /\ k \in Nat /\ k < Len(m.params)
    BY <1>2
  <2>3. a = ParamsSoFar(m, k) /\ v = m.params[k + 1]
    BY <1>2, <1>6, <2>1
  <2>4. [a EXCEPT !.params = Append(@, v)] = ParamsSoFar(m, k + 1)
    BY <2>2, <2>3, NextParam
  <2> QED
    BY <1>8, <1>9, <2>1, <2>4 DEF RequestTakes
<1>11. InRequest(f, b, m, k + 1)
  <2>1. k + 1 \in Nat /\ k + 1 <= Len(m.params)
    BY <1>2, LengthFacts DEF IsMessage
  <2> QED
    BY <1>2, <1>9, <2>1 DEF InRequest
<1>12. f.depth >= 3
  <2>1. f.depth \in Nat
    BY ReturnedFacts DEF Returning, IsFrame
  <2> QED
    BY <1>2, <2>1
<1>13. ParamRead(f, L, b, m, X, k + 1) \/ ParamEnded(f, L, b, m, X, k + 1)
  BY <1>2, <1>6, <1>11, <1>12 DEF ParamRead, ParamEnded
<1>14. RequestAt(f, L, b, m, X)
  BY <1>2, <1>13 DEF RequestAt
<1>15. f.kind \in {"Request", "Response"}
  BY <1>2
<1> QED
  BY <1>5, <1>8, <1>10, <1>14, <1>15, RootComes

\* The ends of elements that follow the value of a response.
LEMMA ThreeEnds ==
    ASSUME NEW n \in Nat, n >= 3
    PROVE  AllEnds(Closing("value", FaultEnd), n) /\ AllEnds(ParamEnd, n)
<1>1. PICK i \in Nat : n = i + 3
  <2>1. n - 3 \in Nat /\ n = (n - 3) + 3
    OBVIOUS
  <2> QED
    BY <2>1
<1>2. PICK j \in Nat : j = i + 1
  OBVIOUS
<1>3. PICK k \in Nat : k = j + 1 /\ n = k + 1
  BY <1>1, <1>2
<1>4. {"methodResponse", "fault", "params", "param", "value"} \subseteq Strings
  BY Words
<1>5. AllEnds(ResponseEnd, j)
  BY <1>2, <1>4, NoEnds, MoreEnds DEF ResponseEnd
<1>6. AllEnds(FaultEnd, k)
  BY <1>3, <1>4, <1>5, MoreEnds DEF FaultEnd
<1>7. AllEnds(ParamsEnd, k)
  BY <1>3, <1>4, <1>5, MoreEnds DEF ParamsEnd
<1>8. AllEnds(ParamEnd, n)
  BY <1>3, <1>4, <1>7, MoreEnds DEF ParamEnd
<1>9. AllEnds(Closing("value", FaultEnd), n)
  BY <1>3, <1>4, <1>6, MoreEnds
<1> QED
  BY <1>8, <1>9

LEMMA FourEnds ==
    ASSUME NEW n \in Nat, n >= 4
    PROVE  AllEnds(Closing("value", ParamEnd), n) /\ AllEnds(ParamEnd, n)
<1>1. PICK i \in Nat : n = i + 1 /\ i >= 3
  <2>1. n - 1 \in Nat /\ n = (n - 1) + 1 /\ n - 1 >= 3
    OBVIOUS
  <2> QED
    BY <2>1
<1>2. AllEnds(ParamEnd, i) /\ AllEnds(ParamEnd, n)
  BY <1>1, ThreeEnds
<1> QED
  BY <1>1, <1>2, MoreEnds, Words

LEMMA FaultFacts ==
    ASSUME NEW code, NEW str, NEW v, v = FaultOf(code, str)
    PROVE  /\ v # EmptyString /\ IsFault(v) /\ FaultTyped(v)
           /\ v.fields["faultCode"].text = code /\ v.fields["faultString"].text = str
<1>1. PICK a, b : a = Scalar("INT", code) /\ b = Scalar("STRING", str)
  OBVIOUS
<1>2. a.type = "INT" /\ a.text = code /\ b.type = "STRING" /\ b.text = str
  BY <1>1, ScalarParts
<1>3. PICK g : g = [faultCode |-> a, faultString |-> b]
  OBVIOUS
<1>4. DOMAIN g = {"faultCode", "faultString"} /\ g["faultCode"] = a /\ g["faultString"] = b
  BY <1>3
<1>5. v = StructOf(g)
  BY <1>1, <1>3 DEF FaultOf
<1>6. v.type = "STRUCT" /\ v.fields = g
  BY <1>5, ContainerParts
<1>7. v # EmptyString
  <2>1. EmptyString.type = "STRING"
    BY ScalarParts DEF EmptyString
  <2> QED
    BY <1>6, <2>1
<1> QED
  BY <1>2, <1>4, <1>6, <1>7 DEF IsFault, FaultTyped

LEMMA ResponseGets ==
    ASSUME Plain, NEW f, Returning(f), NEW r, NEW m, ResponseWaits(f, Top.kind, r, built, m),
           NEW X, NEW q, TopAt(Top, r, Left(reader), built, m, X)
    PROVE  Comes(q, m, X)
<1>1. /\ f.kind = "Response" /\ IsMessage("Response", m) /\ Top.kind = "Value"
      /\ ResultAwaited(f, built, m, r) \/ FaultAwaited(f, built, m, r)
  BY DEF ResponseWaits
<1>2. PICK v : v = Top.val
  OBVIOUS
<1>3. PICK L : L = Left(reader)
  OBVIOUS
<1>4. f.depth \in Nat /\ f.kind \in {"Request", "Response"}
  BY <1>1, ReturnedFacts DEF Returning, IsFrame
<1>5. /\ r.v # EmptyString => v = r.v
      /\ v = r.v \/ v = NoValue
      /\ L = Closing("value", r.after) \/ L = r.after
      /\ r.flat = 0 => L = Closing("value", r.after)
  BY <1>1, <1>2, <1>3, ValueReturned DEF Returning
<1>6. CASE ResultAwaited(f, built, m, r)
  <2>1. /\ ~f.exit /\ built = Nothing /\ ~IsFaulty(m) /\ f.state = "OK_PARAM_VALUE"
        /\ f.depth >= 4 /\ r.v = m.params[1] /\ r.after = ParamEnd
    BY <1>6 DEF ResultAwaited, InResponse
  <2>2. v # NoValue
    BY <1>2, <2>1, ReturnedFacts DEF Returning
  <2>3. v = m.params[1]
    BY <1>5, <2>1, <2>2
  <2>4. ~IsMisformed(f, v)
    BY <2>1 DEF IsMisformed
  <2>5. Popped(f) /\ UNCHANGED <<doc, reader, outcome>> /\ built' = ResponseTakes(v)
    BY <1>1, <1>2, <2>1, <2>4, ReturnStep
  <2>6. built' = m
    <3>1. PICK name, none : name = Absent /\ none = <<>>
      OBVIOUS
    <3>2. m = [name |-> m.name, params |-> m.params, fault |-> m.fault]
          /\ m.name = name /\ m.params = <<v>> /\ m.fault = none
      <4>1. m.fault = <<>>
        BY <2>1 DEF IsFaulty
      <4>2. ASSUME m.fault \in Seq(STRING), Len(m.fault) = 2 PROVE FALSE
        BY <4>1, <4>2, LengthFacts
      <4>3. m.params \in Seq(Values) /\ Len(m.params) = 1 /\ m.name = Absent
            /\ m = [name |-> m.name, params |-> m.params, fault |-> m.fault]
        BY <1>1, <4>2 DEF IsMessage
      <4>4. PICK p \in Seq(Values) : p = m.params
        BY <4>3
      <4>5. Len(p) = 1 /\ p[1] = v
        BY <2>3, <4>3, <4>4
      <4>6. p = <<v>>
        BY <4>5
      <4> QED
        BY <3>1, <4>1, <4>3, <4>4, <4>6
    <3>3. PICK p : p = <<v>>
      OBVIOUS
    <3>4. [Message(name, none, none) EXCEPT !.params = p] = Message(name, p, none)
      BY DEF Message
    <3>5. built' = Message(name, p, none)
      BY <2>1, <2>5, <3>1, <3>3, <3>4 DEF ResponseTakes, Nothing
    <3> QED
      BY <3>2, <3>3, <3>5 DEF Message
  <2>7. AllEnds(L, f.depth)
    BY <1>4, <1>5, <2>1, FourEnds
  <2>8. ResponseAt(f, L, m, m, X)
    BY <1>1, <2>7 DEF ResponseAt, RootEnds
  <2> QED
    BY <1>3, <1>4, <2>5, <2>6, <2>8, RootComes
<1>7. CASE FaultAwaited(f, built, m, r)
  <2>1. /\ ~f.exit /\ built = Nothing /\ IsFaulty(m) /\ f.state = "FAULT_RESPONSE_VALUE"
        /\ f.depth >= 3 /\ r.v = FaultMessage(m) /\ r.after = FaultEnd /\ r.flat = 0
    BY <1>7 DEF FaultAwaited, InResponse
  <2>2. PICK code, str : code = m.fault[1] /\ str = m.fault[2]
    OBVIOUS
  <2>3. v = FaultOf(code, str)
    <3>1. r.v = FaultOf(code, str)
      BY <2>1, <2>2 DEF FaultMessage
    <3> QED
      BY <1>5, <3>1, FaultFacts
  <2>4. /\ IsFault(v) /\ FaultTyped(v)
        /\ v.fields["faultCode"].text = code /\ v.fields["faultString"].text = str
    BY <2>3, FaultFacts
  <2>5. ~IsMisformed(f, v)
    BY <2>4 DEF IsMisformed
  <2>6. Popped(f) /\ UNCHANGED <<doc, reader, outcome>> /\ built' = FaultTakes(v)
    BY <1>1, <1>2, <2>1, <2>5, ReturnStep
  <2>7. built' = m
    <3>1. PICK name, none : name = Absent /\ none = <<>>
      OBVIOUS
    <3>2. PICK p : p = <<code, str>>
      OBVIOUS
    <3>3. m = [name |-> m.name, params |-> m.params, fault |-> m.fault]
          /\ m.name = name /\ m.params = none /\ m.fault = p
      <4>1. /\ m.fault \in Seq(STRING) /\ Len(m.fault) = 2 /\ m.name = Absent /\ m.params = <<>>
            /\ m = [name |-> m.name, params |-> m.params, fault |-> m.fault]
        BY <1>1, <2>1 DEF IsMessage, IsFaulty
      <4>2. PICK s \in Seq(STRING) : s = m.fault
        BY <4>1
      <4>3. Len(s) = 2 /\ s[1] = code /\ s[2] = str
        BY <2>2, <4>1, <4>2
      <4>4. s = <<code, str>>
        BY <4>3
      <4> QED
        BY <3>1, <3>2, <4>1, <4>2, <4>4
    <3>4. [Message(name, none, none) EXCEPT !.fault = p] = Message(name, none, p)
      BY DEF Message
    <3>5. built' = Message(name, none, p)
      BY <2>1, <2>4, <2>6, <3>1, <3>2, <3>4 DEF FaultTakes, Nothing
    <3> QED
      BY <3>3, <3>5 DEF Message
  <2>8. AllEnds(L, f.depth)
    BY <1>4, <1>5, <2>1, ThreeEnds
  <2>9. ResponseAt(f, L, m, m, X)
    BY <1>1, <2>8 DEF ResponseAt, RootEnds
  <2> QED
    BY <1>3, <1>4, <2>6, <2>7, <2>9, RootComes
<1> QED
  BY <1>1, <1>6, <1>7

\* What a builder returns is what its caller waited for.
LEMMA CallerGets ==
    ASSUME Plain, NEW f, Returning(f), NEW q, NEW r, NEW m, NEW X,
           Waits(f, q, Top.kind, r, built, m, X), TopAt(Top, r, Left(reader), built, m, X)
    PROVE  Comes(q, m, X)
<1>1. CASE ValueWaits(f, q, Top.kind, r)
  BY <1>1, ValueGets
<1>2. CASE StructWaits(f, q, Top.kind, r, X)
  BY <1>2, StructGets
<1>3. CASE ArrayWaits(f, q, Top.kind, r, X)
  BY <1>3, ArrayGets
<1>4. CASE RequestWaits(f, Top.kind, r, built, m, X)
  BY <1>4, RequestGets
<1>5. CASE ResponseWaits(f, Top.kind, r, built, m)
  BY <1>5, ResponseGets
<1> QED
  BY <1>1, <1>2, <1>3, <1>4, <1>5 DEF Waits

-----------------------------------------------------------------------------
(* The whole stack *)

\* The builders s have the goals p: each but the last waits for what it has called.
Awaiting(s, p, L, b, m, X) ==
    /\ \A i \in 1..(Len(s) - 1) : Waits(s[i], p[i], s[i + 1].kind, p[i + 1], b, m, X)
    /\ TopAt(s[Len(s)], p[Len(s)], L, b, m, X)

\* A message that the library has written is on its way back, or it is back.
OnItsWay ==
    /\ outcome = "parsing" /\ Known(reader)
    /\ \E p, X : WritesValues(X) /\ Awaiting(stack, p, Left(reader), built, doc.msg, X)
Expected == doc.msg # <<>> => OnItsWay \/ (outcome = "ok" /\ built = doc.msg)

LEMMA SameCall ==
    ASSUME NEW f, NEW k, NEW l, Calls(f, k), Calls(f, l)
    PROVE  k = l
  BY DEF Calls

\* What the builders before the k-th wait for is not changed by a step that leaves them
\* as they are.
LEMMA WaitsKept ==
    ASSUME NEW s, NEW n \in Nat, n = Len(s), NEW t, NEW k \in 1..n, k <= Len(t), Len(t) \in Nat,
           \A i \in 1..(n - 1) : Calls(s[i], s[i + 1].kind),
           \A i \in 1..(Len(t) - 1) : Calls(t[i], t[i + 1].kind),
           \A i \in 1..(k - 1) : t[i] = s[i],
           NEW p, NEW L, NEW b, NEW m, NEW X, Awaiting(s, p, L, b, m, X),
           NEW i \in 1..(k - 1)
    PROVE  Waits(t[i], p[i], t[i + 1].kind, p[i + 1], b, m, X)
<1>1. i \in 1..(n - 1) /\ i \in 1..(Len(t) - 1) /\ t[i] = s[i]
  OBVIOUS
<1>2. t[i + 1].kind = s[i + 1].kind
  BY <1>1, SameCall
<1>3. Waits(s[i], p[i], s[i + 1].kind, p[i + 1], b, m, X)
  BY <1>1 DEF Awaiting
<1> QED
  BY <1>1, <1>2, <1>3

LEMMA GoalsKept ==
    ASSUME NEW s, NEW n \in Nat, n = Len(s), NEW t, NEW k \in 1..n, k = Len(t),
           \A i \in 1..(n - 1) : Calls(s[i], s[i + 1].kind),
           \A i \in 1..(k - 1) : Calls(t[i], t[i + 1].kind),
           \A i \in 1..(k - 1) : t[i] = s[i],
           NEW p, NEW L, NEW b, NEW m, NEW X, Awaiting(s, p, L, b, m, X),
           NEW M, NEW c, k = 1 \/ c = b, TopAt(t[k], p[k], M, c, m, X)
    PROVE  Awaiting(t, p, M, c, m, X)
<1>1. ASSUME NEW i \in 1..(k - 1) PROVE Waits(t[i], p[i], t[i + 1].kind, p[i + 1], c, m, X)
  <2>1. k # 1 /\ k <= Len(t) /\ Len(t) \in Nat
    OBVIOUS
  <2>2. Waits(t[i], p[i], t[i + 1].kind, p[i + 1], b, m, X)
    BY <2>1, WaitsKept
  <2> QED
    BY <2>1, <2>2
<1> QED
  BY <1>1 DEF Awaiting

LEMMA GoalPushed ==
    ASSUME NEW s, NEW n \in Nat, n > 0, n = Len(s), NEW t, Len(t) = n + 1,
           \A i \in 1..(n - 1) : Calls(s[i], s[i + 1].kind),
           \A i \in 1..n : Calls(t[i], t[i + 1].kind),
           \A i \in 1..(n - 1) : t[i] = s[i],
           NEW p, NEW L, NEW b, NEW m, NEW X, Awaiting(s, p, L, b, m, X),
           NEW M, NEW r, Waits(t[n], p[n], t[n + 1].kind, r, b, m, X),
           TopAt(t[n + 1], r, M, b, m, X)
    PROVE  \E goals : Awaiting(t, goals, M, b, m, X)
<1>1. PICK goals : goals = [i \in 1..(n + 1) |-> IF i = n + 1 THEN r ELSE p[i]]
  OBVIOUS
<1>2. goals[n + 1] = r /\ \A i \in 1..n : goals[i] = p[i]
  BY <1>1
<1>3. n \in 1..n /\ n <= Len(t) /\ Len(t) \in Nat
      /\ \A i \in 1..(Len(t) - 1) : Calls(t[i], t[i + 1].kind)
  OBVIOUS
<1>4. ASSUME NEW i \in 1..(n - 1) PROVE Waits(t[i], goals[i], t[i + 1].kind, goals[i + 1], b, m, X)
  <2>1. Waits(t[i], p[i], t[i + 1].kind, p[i + 1], b, m, X)
    BY <1>3, WaitsKept
  <2>2. goals[i] = p[i] /\ goals[i + 1] = p[i + 1]
    BY <1>2
  <2> QED
    BY <2>1, <2>2
<1>5. Waits(t[n], goals[n], t[n + 1].kind, goals[n + 1], b, m, X)
  BY <1>2, <1>3
<1>6. \A i \in 1..n : i = n \/ i \in 1..(n - 1)
  OBVIOUS
<1>7. \A i \in 1..(Len(t) - 1) : Waits(t[i], goals[i], t[i + 1].kind, goals[i + 1], b, m, X)
  BY <1>4, <1>5, <1>6
<1>8. TopAt(t[Len(t)], goals[Len(t)], M, b, m, X)
  BY <1>2
<1> QED
  BY <1>7, <1>8 DEF Awaiting

\* The stack, as a sequence that changes.
LEMMA StackCalls ==
    ASSUME IInv
    PROVE  /\ Len(stack) \in Nat /\ Len(stack) > 0 /\ Top = stack[Len(stack)] /\ IsSequence(stack)
           /\ \A i \in 1..(Len(stack) - 1) : Calls(stack[i], stack[i + 1].kind)
<1>1. Len(stack) \in Nat /\ Len(stack) > 0 /\ Top = stack[Len(stack)]
  BY TopFacts
<1> QED
  BY <1>1 DEF IInv, StackOK

LEMMA CallsAfterStep ==
    ASSUME IInv'
    PROVE  /\ Len(stack') \in Nat /\ Len(stack') > 0
           /\ \A i \in 1..(Len(stack') - 1) : Calls(stack'[i], stack'[i + 1].kind)
<1>1. IsSequence(stack') /\ Len(stack') > 0
      /\ \A i \in 1..(Len(stack') - 1) : Calls(stack'[i], stack'[i + 1].kind)
  BY DEF IInv, StackOK
<1> QED
  BY <1>1, LengthFacts

LEMMA StillOnItsWay ==
    ASSUME doc' = doc, outcome' = "parsing", Known(reader'), NEW p, NEW X, WritesValues(X),
           Awaiting(stack', p, Left(reader'), built', doc.msg, X)
    PROVE  OnItsWay'
<1>1. Left(reader)' = Left(reader')
  BY DEF Left, Onward
<1>2. Known(reader)'
  BY DEF Known
<1>3. Awaiting(stack, p, Left(reader), built, doc.msg, X)'
  BY <1>1
<1> QED
  BY <1>2, <1>3 DEF OnItsWay

LEMMA NextFacts ==
    ASSUME Next
    PROVE  outcome = "parsing" /\ doc' = doc
<1>1. \/ VisitElement \/ PushBack \/ VisitElementEnd \/ VisitText \/ Ignore
      \/ IllFormed \/ EndOfDocument \/ SubBuilt \/ RootBuilt
  BY DEF Next
<1>2. VisitElement => outcome = "parsing" /\ doc' = doc
  BY DEF VisitElement, Fail, Parsing
<1>3. VisitElementEnd \/ VisitText => outcome = "parsing" /\ doc' = doc
  BY DEF VisitElementEnd, VisitText, Fail, Parsing
<1>4. PushBack \/ Ignore \/ IllFormed \/ EndOfDocument => outcome = "parsing" /\ doc' = doc
  BY DEF PushBack, Ignore, IllFormed, EndOfDocument, Fail, Parsing
<1>5. SubBuilt \/ RootBuilt => outcome = "parsing" /\ doc' = doc
  BY DEF SubBuilt, RootBuilt, Fail, Parsing
<1> QED
  BY <1>1, <1>2, <1>3, <1>4, <1>5

LEMMA StreamAsIs ==
    ASSUME NEW s \in Streams
    PROVE  Before(s, <<>>) = s /\ SubSeq(s, 1, Len(s)) = s
  BY DEF Before, Streams

LEMMA AllIsLeft ==
    ASSUME doc \in Docs, NEW r, r.pos = 0, r.back = FALSE, r.curr.empty = FALSE
    PROVE  Left(r) = Before(doc.events, <<>>)
<1>1. PICK s \in Streams : s = doc.events
  BY DocStream
<1>2. Left(r) = Onward(0)
  BY DEF Left
<1>3. Onward(0) = SubSeq(s, 1, Len(s))
  BY <1>1 DEF Onward
<1> QED
  BY <1>1, <1>2, <1>3, StreamAsIs

\* What is written of a message, to a builder that has not begun.
LEMMA MessageBegins ==
    ASSUME doc \in Docs, doc.msg # <<>>, NEW f, f.kind = doc.kind, ~f.exit, f.state = "NONE",
           NEW L, L = Before(doc.events, <<>>), NEW q
    PROVE  \E X : WritesValues(X) /\ TopAt(f, q, L, Nothing, doc.msg, X)
<1>1. PICK m : m = doc.msg
  OBVIOUS
<1>2. IsMessage(f.kind, m) /\ L = Before(Dumped(f.kind, m), <<>>)
  BY <1>1, WrittenAssumption
<1>3. CASE f.kind = "Request"
  <2>1. PICK X : X = ValueXml(FALSE)
    OBVIOUS
  <2>2. WritesValues(X)
    BY <2>1, ValueXmlUnfold DEF WritesValues
  <2>3. Dumped(f.kind, m) = Node("methodCall", TextNode("methodName", m.name) \o ParamsNode(m, X))
    BY <1>3, <2>1 DEF Dumped, DumpRequest, ParamsNode, ParamXml
  <2>4. IsMessage("Request", m)
    BY <1>2, <1>3
  <2>5. RequestBegins(f, L, Nothing, m, X)
    BY <1>2, <2>3 DEF RequestBegins
  <2>6. TopAt(f, q, L, Nothing, m, X)
    BY <1>3, <2>4, <2>5 DEF RequestAt, TopAt
  <2> QED
    BY <1>1, <2>2, <2>6
<1>4. CASE f.kind = "Response"
  <2>1. PICK X : X = ValueXml(TRUE)
    OBVIOUS
  <2>2. WritesValues(X)
    BY <2>1, ValueXmlUnfold DEF WritesValues
  <2>3. Dumped(f.kind, m) = Node("methodResponse", Body(m, X))
    BY <1>4, <2>1 DEF Dumped, DumpResponse, DumpFault, Body, IsFaulty, FaultMessage
  <2>4. IsMessage("Response", m)
    BY <1>2, <1>4
  <2>5. ResponseBegins(f, L, Nothing, m, X)
    BY <1>2, <2>3 DEF ResponseBegins, InResponse
  <2>6. TopAt(f, q, L, Nothing, m, X)
    BY <1>4, <2>4, <2>5 DEF ResponseAt, TopAt
  <2> QED
    BY <1>1, <2>2, <2>6
<1> QED
  BY <1>3, <1>4, DocFacts

LEMMA ExpectedAtFirst ==
    ASSUME Init
    PROVE  Expected
<1>1. /\ doc \in Docs /\ outcome = "parsing" /\ built = Nothing
      /\ reader.pos = 0 /\ reader.curr = Done /\ reader.back = FALSE
  BY DEF Init, Nothing, Message
<1>2. Done.empty = FALSE /\ Done.str = ""
  BY DEF Done
<1>3. PICK f : f = Builder(doc.kind, FALSE)
  OBVIOUS
<1>4. stack = <<f>> /\ Len(stack) = 1 /\ stack[1] = f
  BY <1>3 DEF Init
<1>5. doc.kind \in {"Request", "Response"} /\ doc.kind # "Value"
  BY <1>1, DocFacts
<1>6. f.kind = doc.kind /\ f.exit = FALSE /\ f.state = "NONE"
  BY Zenon, <1>3, <1>5 DEF Builder
<1>7. Known(reader)
  BY <1>1, <1>2, Words DEF Known
<1>8. Left(reader) = Before(doc.events, <<>>)
  BY <1>1, <1>2, AllIsLeft
<1>9. ASSUME doc.msg # <<>> PROVE OnItsWay
  <2>1. PICK p : p = [i \in {1} |-> 0]
    OBVIOUS
  <2>2. PICK X : WritesValues(X) /\ TopAt(f, p[1], Left(reader), Nothing, doc.msg, X)
    BY <1>1, <1>6, <1>8, <1>9, MessageBegins
  <2>3. Awaiting(stack, p, Left(reader), built, doc.msg, X)
    BY <1>1, <1>4, <2>2 DEF Awaiting
  <2> QED
    BY <1>1, <1>7, <2>2, <2>3 DEF OnItsWay
<1> QED
  BY <1>9 DEF Expected

\* A step of the last builder.
LEMMA RunsOnItsWay ==
    ASSUME Plain, IInv, IInv', Next, ~Top.exit, doc.msg # <<>>, OnItsWay
    PROVE  OnItsWay'
<1>1. PICK p, X : /\ WritesValues(X) /\ Known(reader) /\ outcome = "parsing"
                  /\ Awaiting(stack, p, Left(reader), built, doc.msg, X)
  BY DEF OnItsWay
<1>2. PICK n \in Nat : n = Len(stack) /\ n > 0 /\ Top = stack[n] /\ IsSequence(stack)
                       /\ \A i \in 1..(n - 1) : Calls(stack[i], stack[i + 1].kind)
  BY StackCalls
<1>3. PICK m : m = doc.msg
  OBVIOUS
<1>4. PICK q : q = p[n]
  OBVIOUS
<1>5. TopAt(Top, q, Left(reader), built, m, X)
  BY <1>1, <1>2, <1>3, <1>4 DEF Awaiting
<1>6. doc \in Docs /\ m.name \notin Blank
  BY <1>3 DEF IInv, Plain
<1>7. Running
  BY <1>1, <1>6 DEF Running, Reading, IInv
<1>8. Goes(q, m, X)
  BY <1>1, <1>5, <1>6, <1>7, TopGoes
<1>9. \A i \in 1..(Len(stack') - 1) : Calls(stack'[i], stack'[i + 1].kind)
  BY CallsAfterStep
<1>10. ASSUME NEW f, Stays(f), n = 1 \/ built' = built, Reading(reader'),
              TopAt(f, q, Left(reader'), built', m, X)
       PROVE  OnItsWay'
  <2>1. Len(stack') = n /\ stack'[n] = f /\ \A i \in 1..(n - 1) : stack'[i] = stack[i]
    <3>1. stack' = Replaced(stack, f)
      BY <1>10 DEF Stays, Replace, Replaced
    <3> QED
      BY <1>2, <3>1, ReplacedFacts
  <2>2. n \in 1..n /\ n = Len(stack')
        /\ (\A i \in 1..(n - 1) : Calls(stack'[i], stack'[i + 1].kind))
    BY <1>2, <1>9, <2>1
  <2>3. TopAt(stack'[n], p[n], Left(reader'), built', m, X)
    BY <1>4, <1>10, <2>1
  <2>4. Awaiting(stack, p, Left(reader), built, m, X)
    BY <1>1, <1>3
  <2>5. Awaiting(stack', p, Left(reader'), built', m, X)
    BY <1>2, <1>10, <2>1, <2>2, <2>3, <2>4, GoalsKept
  <2> QED
    BY <1>1, <1>3, <1>10, <2>5, StillOnItsWay DEF Stays, Reading
<1>11. ASSUME NEW g, NEW h, NEW r, Pushed(g, h), UNCHANGED <<doc, built, outcome>>, Reading(reader'),
              Waits(g, q, h.kind, r, built, m, X), TopAt(h, r, Left(reader'), built, m, X)
       PROVE  OnItsWay'
  <2>1. /\ Len(stack') = n + 1 /\ stack'[n + 1] = h /\ stack'[n] = g
        /\ \A i \in 1..(n - 1) : stack'[i] = stack[i]
    BY <1>2, <1>11 DEF Pushed
  <2>2. \A i \in 1..n : Calls(stack'[i], stack'[i + 1].kind)
    BY <1>9, <2>1
  <2>3. /\ Waits(stack'[n], p[n], stack'[n + 1].kind, r, built, m, X)
        /\ TopAt(stack'[n + 1], r, Left(reader'), built, m, X)
    BY <1>4, <1>11, <2>1
  <2>4. Awaiting(stack, p, Left(reader), built, m, X)
    BY <1>1, <1>3
  <2>5. PICK goals : Awaiting(stack', goals, Left(reader'), built, m, X)
    BY <1>2, <2>1, <2>2, <2>3, <2>4, GoalPushed
  <2> QED
    BY <1>1, <1>3, <1>11, <2>5, StillOnItsWay DEF Reading
<1> QED
  BY <1>2, <1>8, <1>10, <1>11 DEF Goes

\* A builder has returned to its caller.
LEMMA ReturnsOnItsWay ==
    ASSUME Plain, IInv, IInv', Next, Top.exit, Len(stack) > 1, OnItsWay
    PROVE  OnItsWay'
<1>1. PICK p, X : /\ WritesValues(X) /\ Known(reader) /\ outcome = "parsing"
                  /\ Awaiting(stack, p, Left(reader), built, doc.msg, X)
  BY DEF OnItsWay
<1>2. PICK n \in Nat : n = Len(stack) /\ n > 1 /\ Top = stack[n] /\ IsSequence(stack)
                       /\ \A i \in 1..(n - 1) : Calls(stack[i], stack[i + 1].kind)
  BY StackCalls
<1>3. PICK m : m = doc.msg
  OBVIOUS
<1>4. PICK k \in 1..n : n = k + 1
  <2>1. n - 1 \in 1..n /\ n = (n - 1) + 1
    BY <1>2
  <2> QED
    BY <2>1
<1>5. PICK q, r : q = p[k] /\ r = p[n]
  OBVIOUS
<1>6. PICK f : f = stack[k]
  OBVIOUS
<1>7. k \in 1..(n - 1) /\ k = Len(stack) - 1
  BY <1>2, <1>4
<1>8. Returning(f)
  BY <1>1, <1>6, <1>7 DEF Returning
<1>9. Waits(f, q, Top.kind, r, built, m, X) /\ TopAt(Top, r, Left(reader), built, m, X)
  BY <1>1, <1>2, <1>3, <1>4, <1>5, <1>6, <1>7 DEF Awaiting
<1>10. Comes(q, m, X)
  BY <1>8, <1>9, CallerGets
<1>11. PICK c : /\ Popped(c) /\ UNCHANGED <<doc, reader, outcome>>
                /\ Len(stack) = 2 \/ built' = built
                /\ TopAt(c, q, Left(reader), built', m, X)
  BY <1>10 DEF Comes
<1>12. Len(stack') = k /\ stack'[k] = c /\ \A i \in 1..(k - 1) : stack'[i] = stack[i]
  <2>1. Len(stack) - 2 = k - 1
    BY <1>2, <1>4
  <2> QED
    BY <1>7, <1>11, <2>1 DEF Popped
<1>13. \A i \in 1..(k - 1) : Calls(stack'[i], stack'[i + 1].kind)
  BY <1>12, CallsAfterStep
<1>14. k = 1 \/ built' = built
  BY <1>2, <1>4, <1>11
<1>15. TopAt(stack'[k], p[k], Left(reader), built', m, X)
  BY <1>5, <1>11, <1>12
<1>16. Awaiting(stack, p, Left(reader), built, m, X)
  BY <1>1, <1>3
<1>17. Awaiting(stack', p, Left(reader), built', m, X)
  BY <1>2, <1>12, <1>13, <1>14, <1>15, <1>16, GoalsKept
<1>18. Awaiting(stack', p, Left(reader'), built', m, X)
  <2>1. Left(reader') = Left(reader)
    BY <1>11
  <2> QED
    BY <1>17, <2>1
<1> QED
  BY <1>1, <1>3, <1>11, <1>18, StillOnItsWay

\* The root builder has left.
LEMMA ArrivesFromItsWay ==
    ASSUME IInv, Next, Top.exit, Len(stack) = 1, OnItsWay
    PROVE  outcome' = "ok" /\ built' = doc.msg
<1>1. PICK p, X : Awaiting(stack, p, Left(reader), built, doc.msg, X)
  BY DEF OnItsWay
<1>2. PICK q, m, L : q = p[1] /\ m = doc.msg /\ L = Left(reader)
  OBVIOUS
<1>3. TopAt(Top, q, L, built, m, X)
  BY <1>1, <1>2 DEF Awaiting, Top
<1>4. ~(Top.kind \in {"Value", "Struct", "Array"})
  BY TopFacts
<1>5. RequestAt(Top, L, built, m, X) \/ ResponseAt(Top, L, built, m, X)
  BY <1>3, <1>4 DEF TopAt, ValueAt, StructAt, ArrayAt
<1>6. RootBuilt
  BY StepAfterExit
<1>7. built = m /\ Complete
  <2>1. CASE RequestAt(Top, L, built, m, X)
    <3>1. built = m
      BY <2>1 DEF RequestAt, RequestBegins, RequestBegun, MethodRead, MethodEnded, ParamsBetween,
                  ParamBegun, ParamRead, ParamEnded, InRequest, RootEnds
    <3>2. IsMessage("Request", m) /\ Top.kind = "Request"
      BY <2>1 DEF RequestAt
    <3> QED
      BY <3>1, <3>2 DEF IsMessage, Complete, RequestComplete
  <2>2. CASE ResponseAt(Top, L, built, m, X)
    <3>1. built = m
      BY <2>2 DEF ResponseAt, ResponseBegins, ResponseBegun, ResultBegun, ResultParam, FaultBegun,
                  InResponse, RootEnds
    <3>2. IsMessage("Response", m) /\ Top.kind = "Response"
      BY <2>2 DEF ResponseAt
    <3>3. m.params # <<>> \/ m.fault # <<>>
      BY <3>2 DEF IsMessage
    <3> QED
      BY <3>1, <3>2, <3>3 DEF Complete, ResponseComplete
  <2> QED
    BY <1>5, <2>1, <2>2
<1> QED
  BY <1>2, <1>6, <1>7 DEF RootBuilt

LEMMA ExpectedKept ==
    ASSUME Plain, IInv, IInv', [Next]_vars, Expected
    PROVE  Expected'
<1>1. CASE UNCHANGED vars
  BY <1>1 DEF Expected, OnItsWay, Left, Onward, Known, vars
<1>2. CASE Next
  <2>1. outcome = "parsing" /\ doc' = doc /\ Len(stack) \in Nat /\ Len(stack) > 0
    BY <1>2, NextFacts, StackCalls
  <2>2. ASSUME doc.msg # <<>> PROVE OnItsWay' \/ (outcome' = "ok" /\ built' = doc.msg)
    <3>1. OnItsWay
      BY <2>1, <2>2 DEF Expected
    <3>2. PICK n \in Nat : n = Len(stack) /\ n > 0
      BY <2>1
    <3>3. n > 1 \/ n = 1
      BY <3>2
    <3> QED
      BY <1>2, <2>2, <3>1, <3>2, <3>3, RunsOnItsWay, ReturnsOnItsWay, ArrivesFromItsWay
  <2> QED
    BY <2>1, <2>2 DEF Expected
<1> QED
  BY <1>1, <1>2

\* Whatever the library writes of a message without nil it reads back as that message,
\* for values nested to any depth: dump_request() and dump_response() against
\* parse_request() and parse_response().
THEOREM WrittenIsReadBack ==
    ASSUME Plain
    PROVE  Spec => []RoundTrip
<1>1. Init => Expected
  BY ExpectedAtFirst
<1>2. IInv /\ IInv' /\ [Next]_vars /\ Expected => Expected'
  BY ExpectedKept
<1>3. Expected => RoundTrip
  BY DEF Expected, OnItsWay, RoundTrip
<1> QED
  BY <1>1, <1>2, <1>3, InvariantHolds, PTL DEF Spec
=============================================================================
