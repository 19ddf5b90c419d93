----------------------------- MODULE ValueTrees -----------------------------
\* What XML-RPC values promise their user: a variable holds a tree of its own.
\* Assigning copies, a change of one place changes no other, and a place may be
\* assigned from within itself.
EXTENDS Naturals, SequencesExt

CONSTANTS
    Variables,   \* the user's variables of type Value
    Scalars,     \* scalar values
    Names        \* member names

\* Places and the kinds of what is there, in pairs.  A place is a variable and the
\* indices and names that lead into it.
VARIABLE tree

Init == tree = {<<<<v>>, "nil">> : v \in Variables}

Places(t) == {w[1] : w \in t}

\* A value, apart from the place it is at: its kind, and that of all it holds.
Single(kind) == {<<<<>>, kind>>}
Nothing      == {}

Value(t, p) ==
    {<<SubSeq(w[1], Len(p) + 1, Len(w[1])), w[2]>> : w \in {o \in t : IsPrefix(p, o[1])}}

\* What is neither in the places P nor within what is there.
Elsewhere(t, P) == {w \in t : \A p \in P : ~IsPrefix(p, w[1])}

\* The indices or names of an array or a struct.
Keys(t, p) == {k \in {Last(q) : q \in Places(t)} : Append(p, k) \in Places(t)}

\* The first i elements of an array.
First(i, value) == {w \in value : w[1] = <<>> \/ Head(w[1]) \in 1..i}

-----------------------------------------------------------------------------
(* What one operation may make of the variables t: u. *)

\* Nothing but what is in the place p becomes another value, one of these.
Becomes(t, u, p, values) == Elsewhere(u, {p}) = Elsewhere(t, {p}) /\ Value(u, p) \in values

Fresh == {Single(kind) : kind \in Scalars \cup {"array", "struct"}}

Held(t) == {Value(t, from) : from \in Places(t)}

\* x[p] = y[q], or a new value.
Assign(t, u) == \E to \in Places(t) : Becomes(t, u, to, Fresh \cup Held(t))

\* An array takes the beginning of another.
AssignRange(t, u) ==
    \E to, from \in Places(t) :
        /\ <<to, "array">> \in t /\ <<from, "array">> \in t
        /\ Becomes(t, u, to,
                   {First(i, Value(t, from)) : i \in 0..Cardinality(Keys(t, from))})

PushBack(t, u) ==
    \E to \in Places(t) :
        /\ <<to, "array">> \in t
        /\ Becomes(t, u, Append(to, Cardinality(Keys(t, to)) + 1), Held(t))

InsertMember(t, u) ==
    \E to \in Places(t), n \in Names :
        <<to, "struct">> \in t /\ Becomes(t, u, Append(to, n), Held(t))

EraseMember(t, u) ==
    \E to \in Places(t), n \in Names :
        <<to, "struct">> \in t /\ Becomes(t, u, Append(to, n), {Nothing})

\* Two containers exchange what they hold; neither is within the other.
Exchange(t, u) ==
    \E a, b \in Places(t) :
        /\ \E kind \in {"array", "struct"} : {<<a, kind>>, <<b, kind>>} \subseteq t
        /\ ~IsPrefix(a, b) /\ ~IsPrefix(b, a)
        /\ Elsewhere(u, {a, b}) = Elsewhere(t, {a, b})
        /\ Value(u, a) = Value(t, b) /\ Value(u, b) = Value(t, a)

Operation(t, u) ==
    \/ Assign(t, u) \/ AssignRange(t, u) \/ PushBack(t, u)
    \/ InsertMember(t, u) \/ EraseMember(t, u) \/ Exchange(t, u)

Next == Operation(tree, tree')

Spec == Init /\ [][Next]_tree

=============================================================================
