------------------------------- MODULE Values -------------------------------
\* The heap behind XML-RPC values: a Value owns its content, an array or a struct
\* owns the Values in it through plain pointers (value.cc, value_type.cc).  Every
\* copy is deep; every operation allocates, deletes and moves in its own order.
EXTENDS Naturals, Sequences, FiniteSets, Functions

CONSTANTS
    Variables,   \* the user's variables of type Value
    Heap,        \* what `new Value' may return
    Scalars,     \* scalar values, "nil" among them
    Names        \* member names

ASSUME ValueAssumption ==
    /\ IsFiniteSet(Heap) /\ IsFiniteSet(Variables) /\ Variables \cap Heap = {}
    /\ "nil" \in Scalars /\ {"array", "struct", "free"} \cap Scalars = {}

VARIABLES
    heap,      \* what each Value holds: its kind, and the Values in it by index or name
    erased     \* history: what erase() has taken out of a struct

vars == <<heap, erased>>

Nodes == Variables \cup Heap

Scalar(s)   == [kind |-> s, kids |-> <<>>]
EmptyArray  == [kind |-> "array", kids |-> <<>>]
EmptyStruct == [kind |-> "struct", kids |-> <<>>]
Free        == [kind |-> "free", kids |-> <<>>]

Live == {n \in Nodes : heap[n].kind # "free"}

Init ==
    /\ heap = [n \in Nodes |-> IF n \in Variables THEN Scalar("nil") ELSE Free]
    /\ erased = {}

-----------------------------------------------------------------------------
\* The Values that are deleted, or copied, with those of a set: what the pointers
\* lead to.
Kids(n)   == Range(heap[n].kids)
Closed(T, S) == \A n \in S \cup T : Kids(n) \subseteq T
Below(S)  == {h \in Heap : \A T \in SUBSET Heap : Closed(T, S) => h \in T}

\* What the user can name.
Reachable == Variables \cup Below(Variables)

\* The addresses the copies of a set get, which ones makes no difference.
Fits(S)   == Injection(S, Heap \ Live) # {}
Copies(S) == CHOOSE f \in Injection(S, Heap \ Live) : TRUE

\* Content with its pointers led to the copies.
Led(content, f) == [content EXCEPT !.kids = [k \in DOMAIN @ |-> f[@[k]]]]

\* Mutant: a copy shares what the original holds.
CopyShallow(n, f) == heap[n]

\* clone(): the copy of a content whose Values are copied to f.
Clone(n, f) == Led(heap[n], f)

\* Mutant: a Value is deleted without what it holds.
BecomesHollow(n, c, f, deleted) ==
    heap' = [m \in Nodes |->
                IF m = n THEN c
                ELSE IF m \in Range(f) THEN Clone(CHOOSE o \in DOMAIN f : f[o] = m, f)
                ELSE IF m \in deleted THEN [heap[m] EXCEPT !.kind = "free"]
                ELSE heap[m]]

\* The heap after the copies f are made, the deleted are gone and n holds c.
Becomes(n, c, f, deleted) ==
    heap' = [m \in Nodes |->
                IF m = n THEN c
                ELSE IF m \in Range(f) THEN Clone(CHOOSE o \in DOMAIN f : f[o] = m, f)
                ELSE IF m \in deleted THEN Free
                ELSE heap[m]]

-----------------------------------------------------------------------------
\* Mutant: the old content is deleted first, and part of it may be the source.
AssignDeletingFirst(to, from) ==
    LET gone == Below({to})
        f == Copies(Below({from}) \ gone)
    IN  /\ Fits(Below({from}))
        /\ Becomes(to, [heap[from] EXCEPT !.kids =
                           [k \in DOMAIN @ |-> IF @[k] \in gone THEN @[k] ELSE f[@[k]]]], f, gone)

\* Value::operator=: clone, delete the old content, store the clone.
AssignValue(to, from) ==
    LET f == Copies(Below({from})) IN
    /\ Fits(Below({from}))
    /\ Becomes(to, Clone(from, f), f, Below({to}))

\* From a temporary: a scalar, an empty array or an empty struct.
AssignFresh(to) ==
    \E c \in {Scalar(s) : s \in Scalars} \cup {EmptyArray, EmptyStruct} :
        Becomes(to, c, <<>>, Below({to}))

\* Array::operator= and Struct::operator=: nothing for itself; otherwise copy, swap,
\* and the temporary deletes what it got.
AssignContainer(to, from) ==
    /\ heap[to].kind = heap[from].kind /\ heap[to].kind \in {"array", "struct"}
    /\ IF to = from THEN UNCHANGED heap ELSE AssignValue(to, from)

\* The one is not part of the other.
Apart(a, b) == a \notin {b} \cup Below({b}) /\ b \notin Below({a})

\* Array::assign() clears first and then copies one by one: what the user assigns
\* lies outside of the array and does not hold it.
AssignRange(to, from) ==
    /\ heap[to].kind = "array" /\ heap[from].kind = "array"
    /\ Apart(to, from)
    /\ \E i \in 0..Len(heap[from].kids) :
          LET range == [heap[from] EXCEPT !.kids = SubSeq(@, 1, i)]
              copied == Range(range.kids) \cup Below(Range(range.kids))
              f == Copies(copied)
          IN  /\ Fits(copied)
              /\ Becomes(to, Led(range, f), f, Below({to}))

\* push_back(const Value&): new Value(v), then its address goes to the end.
PushBack(to, from) ==
    /\ heap[to].kind = "array"
    /\ Fits({from} \cup Below({from}))
    /\ LET f == Copies({from} \cup Below({from})) IN
          Becomes(to, [heap[to] EXCEPT !.kids = Append(@, f[from])], f, {})

\* Mutant: the old member is overwritten.
ReplacedNothing(to, n) == {}

\* What insert() deletes: the member that had the name.
Replaced(to, n) ==
    LET old == {heap[to].kids[m] : m \in DOMAIN heap[to].kids \cap {n}}
    IN  old \cup Below(old)

\* insert(name, const Value&): new Value(v) first, then the old member is deleted.
InsertMember(to, n, from) ==
    /\ heap[to].kind = "struct"
    /\ Fits({from} \cup Below({from}))
    /\ LET f == Copies({from} \cup Below({from})) IN
          Becomes(to, [heap[to] EXCEPT !.kids =
                          [m \in DOMAIN @ \cup {n} |-> IF m = n THEN f[from] ELSE @[m]]],
                  f, Replaced(to, n))

\* values.erase(key): the pointer goes, what it points to stays.
EraseMember(to, n) ==
    /\ heap[to].kind = "struct"
    /\ n \in DOMAIN heap[to].kids
    /\ heap' = [heap EXCEPT ![to].kids = Restrict(@, DOMAIN @ \ {n})]
    /\ erased' = erased \cup {heap[to].kids[n]}

\* clear()
Clear(to) ==
    /\ heap[to].kind \in {"array", "struct"}
    /\ Becomes(to, [heap[to] EXCEPT !.kids = <<>>], <<>>, Below({to}))

\* swap(): the containers exchange their pointers.  The user does not exchange one
\* with its own part, which would make a cycle nobody deletes.
Swap(a, b) ==
    /\ heap[a].kind = heap[b].kind /\ heap[a].kind \in {"array", "struct"}
    /\ Apart(a, b)
    /\ heap' = [heap EXCEPT ![a] = heap[b], ![b] = heap[a]]

\* The user names places by indices and members; what is not there, or not of the
\* kind asked for, throws and changes nothing.
Next ==
    \/ /\ \E to \in Reachable :
             \/ AssignFresh(to) \/ Clear(to)
             \/ \E from \in Reachable :
                   \/ AssignValue(to, from) \/ AssignContainer(to, from)
                   \/ AssignRange(to, from) \/ PushBack(to, from) \/ Swap(to, from)
                   \/ \E n \in Names : InsertMember(to, n, from)
       /\ UNCHANGED erased
    \/ \E to \in Reachable, n \in Names : EraseMember(to, n)

Spec == Init /\ [][Next]_vars

-----------------------------------------------------------------------------
\* What a Value holds.
Contents ==
    [kind : Scalars \cup {"free"}, kids : {<<>>}]
        \cup [kind : {"struct"}, kids : UNION {[M -> Heap] : M \in SUBSET Names}]
        \cup [kind : {"array"}, kids : Seq(Heap)]

TypeOK ==
    /\ heap \in [Nodes -> Contents]
    /\ \A n \in Nodes : heap[n].kind = "array" => Len(heap[n].kids) <= Cardinality(Heap)
    /\ erased \subseteq Heap

\* Whatever is assigned, inserted or pushed, from within itself or not, exchanged or
\* cleared: each Value is in one place of one container, so it is deleted once, and no
\* pointer leads to a deleted one (value_type.cc:119-318, value.cc:134-160).  This
\* says nothing of assign() with a range of the array itself and of swap() with an
\* own part, which Apart excludes.
OneOwner ==
    \A n \in Live :
        /\ Kids(n) \subseteq Live \ erased
        /\ IsInjective(heap[n].kids)
        /\ \A m \in Live \ {n} : Kids(n) \cap Kids(m) = {}

\* Nothing but what erase() takes out of a struct is lost (value_type.h:252): every
\* other Value is deleted with the container it is in.
NothingLost == Live = Reachable \cup erased \cup Below(erased)

=============================================================================
