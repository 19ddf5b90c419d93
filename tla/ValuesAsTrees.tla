---------------------------- MODULE ValuesAsTrees ----------------------------
\* Values of the heap are the trees that ValueTrees promises.
EXTENDS Values

\* What the pointers of a heap h lead to from Values at places: the pairs `at', and
\* one level more.
Further(h, at) ==
    at \cup UNION {{<<Append(w[1], k), h[w[2]].kids[k]>> : k \in DOMAIN h[w[2]].kids} : w \in at}

\* All of them: on the way into a variable is no Value twice.
At(h) ==
    LET upTo[d \in 0..Cardinality(Heap)] ==
            IF d = 0 THEN {<<<<v>>, v>> : v \in Variables} ELSE Further(h, upTo[d - 1])
    IN  upTo[Cardinality(Heap)]

\* The kinds of what is there, wherever it is in the heap.
TreeOf(h) == {<<w[1], h[w[2]].kind>> : w \in At(h)}

Trees == INSTANCE ValueTrees WITH tree <- TreeOf(heap)

\* Users see trees of their own: what happens to one place shows in no other.
ImplementsTrees == Trees!Spec

=============================================================================
