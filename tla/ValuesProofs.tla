---------------------------- MODULE ValuesProofs ----------------------------
(***************************************************************************)
(* Proofs about Values for any number of variables and addresses.          *)
(*                                                                         *)
(* TypeOK, OneOwner and NothingLost are inductive together.  Most of the   *)
(* argument is about graphs: the pointers are a function K from a node to  *)
(* what it holds, and the invariant says that they are a forest whose      *)
(* roots are the variables and what has been erased (Planted).  From that  *)
(* follows that nothing is part of itself (Acyclic).  An operation other   *)
(* than exchange and erase is a graft: a node keeps some of what it holds, *)
(* takes copies, and what it does not keep is deleted with all below it.   *)
(* Grafted, Exchanged and Unhooked say that a forest remains, whatever the *)
(* containers are; the lemmas of the actions say that they are of that     *)
(* form.                                                                   *)
(*                                                                         *)
(* The second half shows that a user sees trees (ImplementsTrees).  Arcs   *)
(* are the pointers with their indices and names, Paths(E, R) is the least *)
(* set of places and Values that arcs lead to from roots, and facts about  *)
(* it are proved by giving a set that has the roots and follows the arcs.  *)
(* AtIsPaths: it is what TreeOf collects level by level, because no place  *)
(* is longer than there are addresses.  In a forest a Value is in one      *)
(* place (OnePlace), so what an operation leaves alone is what lies        *)
(* outside of the place it is about (TreeElsewhere), and what it puts      *)
(* there is what the copied Value stands for (ShapeLed).                   *)
(***************************************************************************)
EXTENDS ValuesAsTrees, Integers, FiniteSetTheorems, SequenceTheorems, NaturalsInduction,
        WellFoundedInduction, TLAPS

USE DEF Nodes

\* The pointers of a heap h.
KidsIn(h) == [n \in Nodes |-> Range(h[n].kids)]

\* What the pointers K lead to from a set.
Under(K, S) == {h \in Heap : \A T \in SUBSET Heap : (\A n \in S \cup T : K[n] \subseteq T) => h \in T}

\* A set with all that is under it.
Whole(K, S) == S \cup Under(K, S)

\* What is deleted when `to' keeps only P of what it holds.
Gone(K, to, P) == Whole(K, K[to] \ P)

\* Pointers K among Values L of which E have been erased.
Forest(K, L, E) ==
    /\ K \in [Nodes -> SUBSET Heap]
    /\ L \subseteq Nodes /\ Variables \subseteq L /\ E \subseteq L \cap Heap
    /\ \A n \in Nodes \ L : K[n] = {}
    /\ \A n \in L : K[n] \subseteq L \ E
    /\ \A n, m \in L : n # m => K[n] \cap K[m] = {}
    /\ L = Variables \cup E \cup Under(K, Variables \cup E)

IInv == TypeOK /\ OneOwner /\ NothingLost

-----------------------------------------------------------------------------
\* What a node under S holds is under S.
LEMMA UnderClosed ==
    ASSUME NEW K, NEW S, NEW n \in S \cup Under(K, S), K[n] \subseteq Heap
    PROVE  K[n] \subseteq Under(K, S)
BY DEF Under

\* And what is under S is in every set for which this is so: induction on pointers.
LEMMA UnderLeast ==
    ASSUME NEW K, NEW S, NEW T \in SUBSET Heap, \A n \in S \cup T : K[n] \subseteq T
    PROVE  Under(K, S) \subseteq T
BY DEF Under

\* What is under S has a holder there.
LEMMA UnderFrom ==
    ASSUME NEW K \in [Nodes -> SUBSET Heap], NEW S \in SUBSET Nodes, NEW x \in Under(K, S)
    PROVE  \E n \in S \cup Under(K, S) : x \in K[n]
<1> DEFINE T == {y \in Under(K, S) : \E n \in S \cup Under(K, S) : y \in K[n]}
<1>1. Under(K, S) \subseteq Heap
  BY DEF Under
<1>2. ASSUME NEW n \in S \cup T PROVE K[n] \subseteq T
  <2>1. n \in S \cup Under(K, S) /\ K[n] \subseteq Heap
    BY <1>1
  <2> QED
    BY <2>1, UnderClosed
<1>3. T \in SUBSET Heap
  BY <1>1
<1> HIDE DEF T
<1>4. Under(K, S) \subseteq T
  BY <1>2, <1>3, UnderLeast
<1> QED
  BY <1>4 DEF T

\* What lies under a part of S or of what is under S is under S.
LEMMA UnderWithin ==
    ASSUME NEW K \in [Nodes -> SUBSET Heap], NEW S \in SUBSET Nodes,
           NEW R \in SUBSET (S \cup Under(K, S))
    PROVE  Under(K, R) \subseteq Under(K, S)
<1>1. Under(K, S) \in SUBSET Heap
  BY DEF Under
<1>2. \A n \in R \cup Under(K, S) : K[n] \subseteq Under(K, S)
  BY <1>1, UnderClosed
<1> QED
  BY <1>1, <1>2, UnderLeast

\* What is under two sets is under one of them.
LEMMA UnderUnion ==
    ASSUME NEW K \in [Nodes -> SUBSET Heap], NEW A \in SUBSET Nodes, NEW B \in SUBSET Nodes
    PROVE  Under(K, A \cup B) = Under(K, A) \cup Under(K, B)
<1> DEFINE T == Under(K, A) \cup Under(K, B)
<1>1. Under(K, A) \subseteq Under(K, A \cup B) /\ Under(K, B) \subseteq Under(K, A \cup B)
  BY UnderWithin
<1>2. T \in SUBSET Heap
  BY DEF Under
<1>3. \A n \in (A \cup B) \cup T : K[n] \subseteq T
  <2> TAKE n \in (A \cup B) \cup T
  <2>1. K[n] \subseteq Heap
    BY <1>2
  <2>2. CASE n \in A \cup Under(K, A)
    BY <2>1, <2>2, UnderClosed
  <2>3. CASE n \in B \cup Under(K, B)
    BY <2>1, <2>3, UnderClosed
  <2> QED
    BY <2>2, <2>3
<1> HIDE DEF T
<1>4. Under(K, A \cup B) \subseteq T
  BY <1>2, <1>3, UnderLeast
<1> QED
  BY <1>1, <1>4 DEF T

\* What is under a node: what it holds and what is under that.
LEMMA UnderOne ==
    ASSUME NEW K \in [Nodes -> SUBSET Heap], NEW n \in Nodes
    PROVE  Under(K, {n}) = K[n] \cup Under(K, K[n])
<1>1. K[n] \subseteq Heap
  OBVIOUS
<1>2. K[n] \subseteq Under(K, {n})
  BY <1>1, UnderClosed
<1>3. Under(K, K[n]) \subseteq Under(K, {n})
  BY <1>1, <1>2, UnderWithin
<1>4. K[n] \cup Under(K, K[n]) \in SUBSET Heap
  BY <1>1 DEF Under
<1>5. \A m \in {n} \cup (K[n] \cup Under(K, K[n])) : K[m] \subseteq K[n] \cup Under(K, K[n])
  BY <1>4, UnderClosed
<1>6. Under(K, {n}) \subseteq K[n] \cup Under(K, K[n])
  BY <1>4, <1>5, UnderLeast
<1> QED
  BY <1>2, <1>3, <1>6

-----------------------------------------------------------------------------
\* What is under the living lives, and has not been erased.
LEMMA UnderLives ==
    ASSUME NEW K, NEW L, NEW E, Forest(K, L, E), NEW S \in SUBSET L
    PROVE  Under(K, S) \subseteq (L \cap Heap) \ E
<1> DEFINE T == (L \cap Heap) \ E
<1>1. \A n \in S \cup T : K[n] \subseteq T
  BY DEF Forest
<1>2. T \in SUBSET Heap
  OBVIOUS
<1> HIDE DEF T
<1>3. Under(K, S) \subseteq T
  BY <1>1, <1>2, UnderLeast
<1> QED
  BY <1>3 DEF T

\* A Value has one holder.
LEMMA OneHolder ==
    ASSUME NEW K, NEW L, NEW E, Forest(K, L, E), NEW S \in SUBSET L,
           NEW n \in L, NEW x \in K[n], x \in Under(K, S)
    PROVE  n \in S \cup Under(K, S)
<1>0. Under(K, S) \subseteq L
  BY UnderLives
<1>1. K \in [Nodes -> SUBSET Heap] /\ S \in SUBSET Nodes /\ Under(K, S) \subseteq L
  BY <1>0 DEF Forest
<1>2. PICK m \in S \cup Under(K, S) : x \in K[m]
  BY <1>1, UnderFrom
<1>3. m \in L
  BY <1>1
<1> QED
  BY <1>2, <1>3 DEF Forest

\* Nothing is part of itself.
LEMMA Acyclic ==
    ASSUME NEW K, NEW L, NEW E, Forest(K, L, E), NEW n \in L
    PROVE  n \notin Under(K, {n})
<1> DEFINE T == {x \in L \cap Heap : x \notin Under(K, {x})}
<1> DEFINE R == Variables \cup E
<1>1. K \in [Nodes -> SUBSET Heap] /\ L \subseteq Nodes /\ R \subseteq L /\ T \subseteq L
  BY DEF Forest
<1>2. ASSUME NEW r \in R, NEW S \in SUBSET L PROVE r \notin Under(K, S)
  <2>1. CASE r \in E
    BY <2>1, UnderLives
  <2>2. CASE r \in Variables
    BY <2>2, ValueAssumption DEF Under
  <2> QED
    BY <2>1, <2>2
<1>3. ASSUME NEW m \in R \cup T, NEW x \in K[m], x \in Under(K, {x}) PROVE FALSE
  <2>1. m \in L /\ x \in L
    BY <1>1 DEF Forest
  <2>2. m \in {x} \cup Under(K, {x})
    BY <1>3, <2>1, OneHolder
  <2>3. m \notin R
    <3>1. CASE m = x
      BY <1>2, <1>3, <2>1, <3>1
    <3>2. CASE m \in Under(K, {x})
      BY <1>2, <2>1, <3>2
    <3> QED
      BY <2>2, <3>1, <3>2
  <2>4. m \notin Under(K, {m})
    BY <2>3
  <2>5. m # x
    BY <1>3, <2>4
  <2>6. x \in Under(K, {m})
    BY <1>1, <2>1, UnderOne
  <2>7. Under(K, {x}) \subseteq Under(K, {m})
    BY <1>1, <2>1, <2>6, UnderWithin
  <2> QED
    BY <2>2, <2>4, <2>5, <2>7
<1>4. \A m \in R \cup T : K[m] \subseteq T
  <2> TAKE m \in R \cup T
  <2>1. K[m] \subseteq L \cap Heap
    BY <1>1 DEF Forest
  <2> QED
    BY <1>3, <2>1
<1>5. T \in SUBSET Heap
  OBVIOUS
<1> HIDE DEF T
<1>6. Under(K, R) \subseteq T
  BY <1>4, <1>5, UnderLeast
<1>7. CASE n \in R
  BY <1>2, <1>7
<1>8. CASE n \in Under(K, R)
  BY <1>6, <1>8 DEF T
<1> QED
  BY <1>7, <1>8 DEF Forest

-----------------------------------------------------------------------------
\* K2 is K with copies f of A and what is under A, with P and the copies of A in
\* `to', and with the rest that it held gone.
Graft(K, L, to, P, A, f, K2) ==
    LET S == Whole(K, A)
        D == Gone(K, to, P)
    IN
    /\ to \in L /\ P \subseteq K[to]
    /\ A \subseteq L /\ \A s \in S : A \cap K[s] = {}
    /\ f \in Injection(S, Heap \ L)
    /\ K2 \in [Nodes -> SUBSET Heap]
    /\ K2[to] = P \cup {f[a] : a \in A}
    /\ \A s \in S : K2[f[s]] = {f[x] : x \in K[s]}
    /\ \A n \in D : K2[n] = {}
    /\ \A n \in Nodes \ (D \cup {to} \cup Range(f)) : K2[n] = K[n]

\* What is deleted is cut off.
LEMMA GoneFacts ==
    ASSUME NEW K, NEW L, NEW E, Forest(K, L, E), NEW to \in L, NEW P \in SUBSET K[to]
    PROVE  LET D == Gone(K, to, P) IN
           /\ D \subseteq (L \cap Heap) \ E
           /\ to \notin D
           /\ P \cap D = {}
           /\ \A n \in D : K[n] \subseteq D
           /\ \A n \in L \ (D \cup {to}) : K[n] \cap D = {}
<1> DEFINE D == Gone(K, to, P)
<1> DEFINE Q == K[to] \ P
<1>1. /\ K \in [Nodes -> SUBSET Heap] /\ L \subseteq Nodes
      /\ K[to] \subseteq (L \cap Heap) \ E
      /\ \A n, m \in L : n # m => K[n] \cap K[m] = {}
  BY DEF Forest
<1>2. Q \in SUBSET L /\ Q \in SUBSET Nodes
  BY <1>1
<1>3. D = Q \cup Under(K, Q)
  BY DEF Gone, Whole
<1>4. to \notin Under(K, {to}) /\ K[to] \subseteq Under(K, {to})
  BY <1>1, Acyclic, UnderOne, ZenonT(60)
<1>5. Q \in SUBSET ({to} \cup Under(K, {to})) /\ {to} \in SUBSET Nodes
  BY <1>1, <1>4
<1> HIDE DEF Q, D
<1>6. Under(K, Q) \subseteq Under(K, {to})
  BY <1>1, <1>5, UnderWithin
<1>7. to \notin Q \cup Under(K, Q)
  BY <1>4, <1>6 DEF Q
<1>8. Under(K, Q) \subseteq (L \cap Heap) \ E
  BY <1>2, UnderLives
<1>9. ASSUME NEW x \in P, x \in D PROVE FALSE
  <2>1. x \in K[to] /\ x \in Under(K, Q)
    BY <1>3, <1>9 DEF Q
  <2> QED
    BY <1>2, <1>7, <2>1, OneHolder
<1>10. \A n \in D : K[n] \subseteq D
  BY <1>1, <1>2, <1>3, <1>8, UnderClosed
<1>11. ASSUME NEW n \in L, n \notin D, n # to, NEW x \in K[n], x \in D PROVE FALSE
  <2>1. CASE x \in Q
    BY <1>1, <1>11, <2>1 DEF Q
  <2>2. CASE x \in Under(K, Q)
    BY <1>2, <1>3, <1>11, <2>2, OneHolder
  <2> QED
    BY <1>3, <1>11, <2>1, <2>2
<1>12. D \subseteq (L \cap Heap) \ E
  BY <1>1, <1>3, <1>8 DEF Q
<1>13. \A n \in L \ (D \cup {to}) : K[n] \cap D = {}
  BY <1>11
<1> QED
  BY <1>3, <1>7, <1>9, <1>10, <1>12, <1>13 DEF D

\* What is copied is complete.
LEMMA CopyFacts ==
    ASSUME NEW K, NEW L, NEW E, Forest(K, L, E), NEW A \in SUBSET L
    PROVE  LET S == Whole(K, A) IN
           /\ A \subseteq S /\ S \subseteq L
           /\ \A s \in S : K[s] \subseteq S
<1> DEFINE S == Whole(K, A)
<1> USE DEF Whole
<1>1. Under(K, A) \subseteq (L \cap Heap) \ E
  BY UnderLives
<1>2. K \in [Nodes -> SUBSET Heap] /\ L \subseteq Nodes
  BY DEF Forest
<1>3. S \subseteq L
  BY <1>1
<1>4. \A s \in S : K[s] \subseteq S
  BY <1>2, <1>3, UnderClosed
<1> QED
  BY <1>3, <1>4

\* The copies and the old Values.
LEMMA GraftFacts ==
    ASSUME NEW K, NEW L, NEW E, Forest(K, L, E), NEW to, NEW P, NEW A, NEW f, NEW K2,
           Graft(K, L, to, P, A, f, K2)
    PROVE  LET S == Whole(K, A)
               D == Gone(K, to, P)
               C == Range(f)
           IN
           /\ to \in L /\ A \subseteq S /\ P \subseteq K[to]
           /\ \A s \in S : A \cap K[s] = {}
           /\ S \subseteq L
           /\ \A s \in S : K[s] \subseteq S
           /\ DOMAIN f = S /\ \A s \in S : f[s] \in Heap \ L
           /\ C = {f[s] : s \in S}
           /\ \A s, t \in S : f[s] = f[t] => s = t
           /\ C \cap L = {} /\ C \subseteq Heap
           /\ D \subseteq (L \cap Heap) \ E
           /\ to \notin D
           /\ P \cap D = {}
           /\ \A n \in D : K[n] \subseteq D
           /\ \A n \in L \ (D \cup {to}) : K[n] \cap D = {}
<1> DEFINE S == Whole(K, A)
           D == Gone(K, to, P)
           C == Range(f)
<1>0. to \in L /\ P \in SUBSET K[to]
  BY DEF Graft
<1>1. /\ A \in SUBSET L
      /\ \A s \in S : A \cap K[s] = {}
      /\ f \in [S -> Heap \ L] /\ \A s, t \in S : f[s] = f[t] => s = t
  BY DEF Graft, Injection, IsInjective
<1>2. /\ S \subseteq L /\ \A s \in S : K[s] \subseteq S
      /\ A \subseteq S
  BY <1>1, CopyFacts
<1>3. /\ D \subseteq (L \cap Heap) \ E
      /\ to \notin D
      /\ P \cap D = {}
      /\ \A n \in D : K[n] \subseteq D
      /\ \A n \in L \ (D \cup {to}) : K[n] \cap D = {}
  BY <1>0, GoneFacts
<1> HIDE DEF S, D
<1>4. C = {f[s] : s \in S}
  BY <1>1 DEF Range
<1>5. C \cap L = {} /\ C \subseteq Heap
  BY <1>1, <1>4
<1> HIDE DEF C
<1>6. DOMAIN f = S /\ \A s \in S : f[s] \in Heap \ L
  BY <1>1
<1> QED
  BY <1>0, <1>1, <1>2, <1>3, <1>4, <1>5, <1>6 DEF S, D, C

\* After the graft each Value lies within the living and has one holder.
LEMMA GraftedHolders ==
    ASSUME NEW K, NEW L, NEW E, Forest(K, L, E), NEW to, NEW P, NEW A, NEW f, NEW K2,
           Graft(K, L, to, P, A, f, K2)
    PROVE  LET L2 == (L \cup Range(f)) \ Gone(K, to, P) IN
           /\ \A n \in Nodes \ L2 : K2[n] = {}
           /\ \A n \in L2 : K2[n] \subseteq L2 \ E
           /\ \A n, m \in L2 : n # m => K2[n] \cap K2[m] = {}
<1> DEFINE S == Whole(K, A)
           D == Gone(K, to, P)
           C == Range(f)
           L2 == (L \cup C) \ D
<1>0. /\ to \in L /\ A \subseteq S /\ P \subseteq K[to]
      /\ \A s \in S : A \cap K[s] = {}
      /\ S \subseteq L
      /\ \A s \in S : K[s] \subseteq S
      /\ DOMAIN f = S /\ \A s \in S : f[s] \in Heap \ L
      /\ C = {f[s] : s \in S}
      /\ \A s, t \in S : f[s] = f[t] => s = t
      /\ C \cap L = {} /\ C \subseteq Heap
      /\ D \subseteq (L \cap Heap) \ E
      /\ to \notin D
      /\ P \cap D = {}
      /\ \A n \in D : K[n] \subseteq D
      /\ \A n \in L \ (D \cup {to}) : K[n] \cap D = {}
  BY GraftFacts
<1>1. /\ K2 \in [Nodes -> SUBSET Heap]
      /\ K2[to] = P \cup {f[a] : a \in A}
      /\ \A s \in S : K2[f[s]] = {f[x] : x \in K[s]}
      /\ \A n \in D : K2[n] = {}
      /\ \A n \in Nodes \ (D \cup {to} \cup C) : K2[n] = K[n]
  BY DEF Graft
<1>2. /\ \A n \in Nodes \ L : K[n] = {}
      /\ \A n \in L : K[n] \subseteq L \ E
      /\ \A n, m \in L : n # m => K[n] \cap K[m] = {}
      /\ E \subseteq L /\ L \subseteq Nodes
  BY DEF Forest
<1> HIDE DEF S, D, C, L2
<1>3. ASSUME NEW n \in Nodes \ L2 PROVE K2[n] = {}
  <2>1. CASE n \in D
    BY <1>0, <1>1, <2>1
  <2>2. CASE n \notin D
    <3>1. n \notin L /\ n \notin C /\ n # to
      BY <1>0, <1>1, <2>2 DEF L2
    <3> QED
      BY <1>0, <1>1, <1>2, <2>2, <3>1
  <2> QED
    BY <2>1, <2>2
<1>4. ASSUME NEW n \in L2 PROVE n = to \/ n \in C \/ (n \in L /\ n \notin D /\ n # to)
  BY DEF L2
<1>5. ASSUME NEW n \in C PROVE K2[n] \subseteq C
  <2>1. PICK s \in S : n = f[s]
    BY <1>0, <1>1
  <2> QED
    BY <1>0, <1>1, <2>1
<1>6. K2[to] \subseteq P \cup C
  BY <1>0, <1>1
<1>7. ASSUME NEW n \in L, n \notin D, n # to PROVE K2[n] = K[n]
  <2>1. n \in Nodes /\ n \notin C
    BY <1>0, <1>2, <1>7
  <2> QED
    BY <1>1, <1>7, <2>1
<1>8. C \subseteq L2 \ E
  BY <1>0, <1>1, <1>2 DEF L2
<1>9. ASSUME NEW n \in L2 PROVE K2[n] \subseteq L2 \ E
  <2>1. CASE n = to
    <3>1. P \subseteq L \ E
      BY <1>0, <1>1, <1>2
    <3> QED
      BY <1>0, <1>6, <1>8, <2>1, <3>1 DEF L2
  <2>2. CASE n \in C
    BY <1>5, <1>8, <2>2
  <2>3. CASE n \in L /\ n \notin D /\ n # to
    BY <1>0, <1>2, <1>7, <2>3 DEF L2
  <2> QED
    BY <1>4, <2>1, <2>2, <2>3
<1>10. ASSUME NEW n \in L, n \notin D, n # to, NEW m \in L2, m # n PROVE K2[n] \cap K2[m] = {}
  <2>0. K2[n] = K[n] /\ K[n] \subseteq L
    BY <1>2, <1>7, <1>10
  <2>1. CASE m = to
    BY <1>0, <1>1, <1>2, <1>6, <1>10, <2>0, <2>1
  <2>2. CASE m \in C
    BY <1>0, <1>1, <1>5, <2>0, <2>2
  <2>3. CASE m \in L /\ m \notin D /\ m # to
    BY <1>2, <1>7, <1>10, <2>0, <2>3
  <2> QED
    BY <1>4, <2>1, <2>2, <2>3
<1>11. ASSUME NEW n \in C PROVE K2[n] \cap K2[to] = {}
  <2>1. PICK s \in S : n = f[s]
    BY <1>0, <1>1
  <2>2. K2[n] = {f[x] : x \in K[s]} /\ K[s] \subseteq S /\ A \cap K[s] = {}
    BY <1>0, <1>1, <2>1
  <2>3. K2[n] \cap {f[a] : a \in A} = {}
    BY <1>0, <1>1, <2>2
  <2>4. P \subseteq L /\ K2[n] \cap L = {}
    BY <1>0, <1>1, <1>2, <1>5
  <2> QED
    BY <1>0, <1>1, <2>3, <2>4
<1>12. ASSUME NEW n \in C, NEW m \in C, n # m PROVE K2[n] \cap K2[m] = {}
  <2>1. PICK s \in S : n = f[s]
    BY <1>0, <1>1
  <2>2. PICK t \in S : m = f[t]
    BY <1>0, <1>1
  <2>3. K[s] \cap K[t] = {}
    BY <1>0, <1>1, <1>2, <1>12, <2>1, <2>2
  <2>4. /\ K2[n] = {f[x] : x \in K[s]} /\ K[s] \subseteq S
        /\ K2[m] = {f[x] : x \in K[t]} /\ K[t] \subseteq S
    BY <1>0, <1>1, <2>1, <2>2
  <2> QED
    BY <1>0, <1>1, <2>3, <2>4
<1>13. ASSUME NEW n \in L2, NEW m \in L2, n # m PROVE K2[n] \cap K2[m] = {}
  BY <1>4, <1>10, <1>11, <1>12, <1>13
<1> QED
  BY <1>3, <1>9, <1>13 DEF L2, C, D

\* After the graft the living are what the roots lead to.
LEMMA GraftedReach ==
    ASSUME NEW K, NEW L, NEW E, Forest(K, L, E), NEW to, NEW P, NEW A, NEW f, NEW K2,
           Graft(K, L, to, P, A, f, K2)
    PROVE  (L \cup Range(f)) \ Gone(K, to, P) = Variables \cup E \cup Under(K2, Variables \cup E)
<1> DEFINE S == Whole(K, A)
           D == Gone(K, to, P)
           C == Range(f)
           L2 == (L \cup C) \ D
           R == Variables \cup E
           G == R \cup Under(K2, R)
<1>0. /\ to \in L /\ A \subseteq S /\ P \subseteq K[to]
      /\ S \subseteq L
      /\ \A s \in S : K[s] \subseteq S
      /\ \A s \in S : f[s] \in Heap \ L
      /\ C = {f[s] : s \in S}
      /\ C \cap L = {} /\ C \subseteq Heap
      /\ D \subseteq (L \cap Heap) \ E
      /\ to \notin D
      /\ \A n \in D : K[n] \subseteq D
  BY GraftFacts
<1>1. S = A \cup Under(K, A) /\ D = (K[to] \ P) \cup Under(K, K[to] \ P)
  BY DEF Whole, Gone
<1>2. /\ K2 \in [Nodes -> SUBSET Heap]
      /\ K2[to] = P \cup {f[a] : a \in A}
      /\ \A s \in S : K2[f[s]] = {f[x] : x \in K[s]}
      /\ \A n \in Nodes \ (D \cup {to} \cup C) : K2[n] = K[n]
  BY DEF Graft
<1>3. \A n \in L2 : K2[n] \subseteq L2 \ E
  BY GraftedHolders
<1>4. /\ K \in [Nodes -> SUBSET Heap]
      /\ L = R \cup Under(K, R) /\ L \subseteq Nodes /\ R \subseteq L /\ R \subseteq Nodes
      /\ Variables \cap Heap = {}
  BY ValueAssumption DEF Forest
<1> HIDE DEF S, D, C
<1>5. R \subseteq L2
  BY <1>0, <1>4
<1> HIDE DEF R, G
\* What is reached lives.
<1>6. G \subseteq L2
  <2> DEFINE T == L2 \cap Heap
  <2>1. ASSUME NEW n \in R \cup T PROVE K2[n] \subseteq T
    <3>1. n \in L2
      BY <1>5
    <3>2. n \in Nodes
      BY <1>4
    <3>3. K2[n] \subseteq Heap
      BY <1>2, <3>2
    <3> QED
      BY <1>3, <3>1, <3>3
  <2>2. T \in SUBSET Heap
    OBVIOUS
  <2> HIDE DEF T
  <2>3. Under(K2, R) \subseteq T
    BY <2>1, <2>2, UnderLeast
  <2> QED
    BY <1>5, <2>3 DEF G, T
<1>7. ASSUME NEW n \in G PROVE K2[n] \subseteq G
  <2>1. G \subseteq Nodes
    BY <1>4 DEF G, Under
  <2>2. K2[n] \subseteq Heap
    BY <1>2, <2>1
  <2> QED
    BY <2>2, UnderClosed DEF G
\* What was reached and is not gone still is.
<1>8. L \ D \subseteq G
  <2> DEFINE T == {x \in L \cap Heap : x \in D \cup G}
  <2>1. ASSUME NEW n \in R \cup T PROVE K[n] \subseteq T
    <3>1. n \in L /\ (n \in D \/ n \in G)
      BY <1>4 DEF G
    <3>2. K[n] \subseteq L \cap Heap
      BY <3>1 DEF Forest
    <3>3. CASE n \in D
      BY <1>0, <3>2, <3>3
    <3>4. CASE n = to /\ n \in G
      <4>1. P \subseteq G
        BY <1>2, <1>7, <3>4
      <4> QED
        BY <1>1, <3>2, <3>4, <4>1
    <3>5. CASE n # to /\ n \in G /\ n \notin D
      <4>1. n \in Nodes \ (D \cup {to} \cup C)
        BY <1>0, <1>4, <3>1, <3>5
      <4>2. K2[n] = K[n]
        BY <1>2, <4>1
      <4> QED
        BY <1>7, <3>2, <3>5, <4>2
    <3> QED
      BY <3>1, <3>3, <3>4, <3>5
  <2>2. T \in SUBSET Heap
    OBVIOUS
  <2> HIDE DEF T
  <2>3. Under(K, R) \subseteq T
    BY <2>1, <2>2, UnderLeast
  <2> QED
    BY <1>4, <2>3 DEF G, T
\* The copies are, through `to'.
<1>9. C \subseteq G
  <2> DEFINE T == {s \in S \cap Heap : f[s] \in G}
  <2>1. to \in G
    BY <1>0, <1>8
  <2>2. ASSUME NEW a \in A PROVE f[a] \in G
    BY <1>2, <1>7, <2>1
  <2>3. ASSUME NEW n \in A \cup T PROVE K[n] \subseteq T
    <3>1. n \in S /\ f[n] \in G
      BY <1>0, <2>2
    <3>2. K[n] \subseteq S \cap Heap
      BY <1>0, <1>4, <3>1 DEF Graft, Whole, S, Forest
    <3>3. ASSUME NEW x \in K[n] PROVE f[x] \in G
      <4>1. K2[f[n]] = {f[y] : y \in K[n]}
        BY <1>2, <3>1
      <4> QED
        BY <1>7, <3>1, <4>1
    <3> QED
      BY <3>2, <3>3
  <2>4. T \in SUBSET Heap
    OBVIOUS
  <2> HIDE DEF T
  <2>5. Under(K, A) \subseteq T
    BY <2>3, <2>4, UnderLeast
  <2>6. ASSUME NEW s \in S PROVE f[s] \in G
    BY <1>1, <2>2, <2>5 DEF T
  <2> QED
    BY <1>0, <2>6
<1> QED
  BY <1>6, <1>8, <1>9 DEF G, R, C, D

\* A graft makes a forest of a forest.
LEMMA Grafted ==
    ASSUME NEW K, NEW L, NEW E, Forest(K, L, E), NEW to, NEW P, NEW A, NEW f, NEW K2,
           Graft(K, L, to, P, A, f, K2)
    PROVE  Forest(K2, (L \cup Range(f)) \ Gone(K, to, P), E)
<1> DEFINE C == Range(f)
           D == Gone(K, to, P)
           L2 == (L \cup C) \ D
<1>1. C \subseteq Heap /\ D \subseteq (L \cap Heap) \ E
  BY GraftFacts
<1>2. /\ \A n \in Nodes \ L2 : K2[n] = {}
      /\ \A n \in L2 : K2[n] \subseteq L2 \ E
      /\ \A n, m \in L2 : n # m => K2[n] \cap K2[m] = {}
  BY GraftedHolders
<1>3. L2 = Variables \cup E \cup Under(K2, Variables \cup E)
  BY GraftedReach
<1>4. K2 \in [Nodes -> SUBSET Heap]
  BY DEF Graft
<1> HIDE DEF C, D
<1>5. L2 \subseteq Nodes /\ Variables \subseteq L2 /\ E \subseteq L2 \cap Heap
  BY <1>1, ValueAssumption DEF Forest
<1> HIDE DEF L2
<1>6. Forest(K2, L2, E)
  BY <1>2, <1>3, <1>4, <1>5 DEF Forest
<1> QED
  BY <1>6 DEF L2, C, D

-----------------------------------------------------------------------------
\* One Value x is taken out of `to' and becomes a root.
LEMMA Unhooked ==
    ASSUME NEW K, NEW L, NEW E, Forest(K, L, E), NEW to \in L, NEW x \in K[to],
           NEW K2 \in [Nodes -> SUBSET Heap],
           K2[to] = K[to] \ {x}, \A n \in Nodes \ {to} : K2[n] = K[n]
    PROVE  Forest(K2, L, E \cup {x})
<1> DEFINE E2 == E \cup {x}
           R2 == Variables \cup E2
           R == Variables \cup E
           G == R2 \cup Under(K2, R2)
<1>1. /\ K \in [Nodes -> SUBSET Heap]
      /\ L \subseteq Nodes /\ R \subseteq L /\ E \subseteq Heap
      /\ \A n \in Nodes \ L : K[n] = {}
      /\ \A n \in L : K[n] \subseteq L \ E
      /\ \A n, m \in L : n # m => K[n] \cap K[m] = {}
      /\ L = R \cup Under(K, R)
  BY DEF Forest
<1>2. x \in L \cap Heap /\ R2 = R \cup {x} /\ R2 \subseteq L
  <2>1. to \in Nodes /\ K[to] \subseteq Heap /\ K[to] \subseteq L
    BY <1>1
  <2>2. x \in L \cap Heap
    BY <2>1
  <2>3. R2 = R \cup {x}
    OBVIOUS
  <2>4. R \cup {x} \subseteq L
    BY <1>1, <2>2
  <2> QED
    BY <2>2, <2>3, <2>4
<1>3. \A n \in Nodes \ L : K2[n] = {}
  BY <1>1
<1>4. ASSUME NEW n \in L PROVE K2[n] \subseteq K[n] /\ K2[n] \subseteq L \ E2
  <2>1. n = to \/ x \notin K[n]
    BY <1>1
  <2>2. K2[n] = K[n] \/ K2[n] = K[n] \ {x}
    BY <1>1
  <2>3. x \notin K2[n]
    BY <1>1, <2>1
  <2> QED
    BY <1>1, <2>2, <2>3
<1>5. \A n, m \in L : n # m => K2[n] \cap K2[m] = {}
  BY <1>1, <1>4, ZenonT(60)
<1> HIDE DEF R, R2, E2
<1>6. Under(K2, R2) \subseteq L
  <2> DEFINE T == L \cap Heap
  <2>1. ASSUME NEW n \in R2 \cup T PROVE K2[n] \subseteq T
    <3>1. n \in L
      BY <1>2
    <3> QED
      BY <1>1, <1>4, <3>1
  <2>2. T \in SUBSET Heap
    OBVIOUS
  <2> HIDE DEF T
  <2>3. Under(K2, R2) \subseteq T
    BY <2>1, <2>2, UnderLeast
  <2> QED
    BY <2>3 DEF T
<1>7. L \subseteq G
  <2> DEFINE T == G \cap Heap
  <2>1. ASSUME NEW n \in R \cup T PROVE K[n] \subseteq T
    <3>1. n \in Nodes /\ n \in G
      BY <1>1, <1>2 DEF Under
    <3>2. K[n] \subseteq Heap /\ K2[n] \subseteq Heap /\ K[n] \subseteq K2[n] \cup {x}
      BY <1>1, <3>1
    <3>3. K2[n] \subseteq Under(K2, R2)
      BY <3>1, <3>2, UnderClosed
    <3> QED
      BY <1>2, <3>2, <3>3
  <2>2. T \in SUBSET Heap
    OBVIOUS
  <2> HIDE DEF T
  <2>3. Under(K, R) \subseteq T
    BY <2>1, <2>2, UnderLeast
  <2> QED
    BY <1>1, <1>2, <2>3 DEF T
<1>8. L = R2 \cup Under(K2, R2)
  BY <1>2, <1>6, <1>7
<1>9. Variables \subseteq L /\ E2 \subseteq L \cap Heap
  BY <1>1, <1>2 DEF R, E2
<1>10. Forest(K2, L, E2)
  BY <1>1, <1>3, <1>4, <1>5, <1>8, <1>9 DEF Forest, R2
<1> QED
  BY <1>10 DEF E2

\* Two nodes, neither a part of the other, exchange what they hold.
LEMMA Exchanged ==
    ASSUME NEW K, NEW L, NEW E, Forest(K, L, E), NEW a \in L, NEW b \in L,
           a # b, a \notin Under(K, {b}), b \notin Under(K, {a}),
           NEW K2 \in [Nodes -> SUBSET Heap],
           K2[a] = K[b], K2[b] = K[a], \A n \in Nodes \ {a, b} : K2[n] = K[n]
    PROVE  Forest(K2, L, E)
<1> DEFINE R == Variables \cup E
           G == R \cup Under(K2, R)
           X == Under(K, {a}) \cup Under(K, {b})
<1>1. /\ K \in [Nodes -> SUBSET Heap]
      /\ L \subseteq Nodes /\ R \subseteq L /\ Variables \subseteq L /\ E \subseteq L \cap Heap
      /\ \A n \in Nodes \ L : K[n] = {}
      /\ \A n \in L : K[n] \subseteq L \ E
      /\ \A n, m \in L : n # m => K[n] \cap K[m] = {}
      /\ L = R \cup Under(K, R)
  BY DEF Forest
<1>2. \A n \in Nodes \ L : K2[n] = {}
  BY <1>1
<1>3. ASSUME NEW n \in L PROVE K2[n] \subseteq L \ E
  BY <1>1
<1>4. ASSUME NEW n \in L, NEW m \in L, n # m PROVE K2[n] \cap K2[m] = {}
  <2> DEFINE Other(x) == IF x = a THEN b ELSE IF x = b THEN a ELSE x
  <2>1. K2[n] = K[Other(n)] /\ K2[m] = K[Other(m)]
    BY <1>1
  <2>2. Other(n) \in L /\ Other(m) \in L /\ Other(n) # Other(m)
    BY <1>4
  <2> QED
    BY <1>1, <2>1, <2>2, ZenonT(60)
<1> HIDE DEF R, X
<1>5. Under(K2, R) \subseteq L
  <2> DEFINE T == L \cap Heap
  <2>1. ASSUME NEW n \in R \cup T PROVE K2[n] \subseteq T
    <3>1. n \in L
      BY <1>1
    <3> QED
      BY <1>1, <1>3, <3>1
  <2>2. T \in SUBSET Heap
    OBVIOUS
  <2> HIDE DEF T
  <2>3. Under(K2, R) \subseteq T
    BY <2>1, <2>2, UnderLeast
  <2> QED
    BY <2>3 DEF T
<1>6. G \subseteq L /\ G \subseteq Nodes
  BY <1>1, <1>5
<1>7. ASSUME NEW n \in G PROVE K2[n] \subseteq G
  <2>1. K2[n] \subseteq Heap
    BY <1>6
  <2> QED
    BY <2>1, UnderClosed
<1> HIDE DEF G
<1>8. a \notin X /\ b \notin X
  BY Acyclic DEF X
<1>9. X \subseteq L \cap Heap
  BY UnderLives DEF X
<1>10. ASSUME NEW n \in X \cup {a, b} PROVE K[n] \subseteq X
  <2>1. n \in L
    BY <1>9
  <2>2. K[n] \subseteq Heap
    BY <1>1, <2>1
  <2>3. CASE n \in {a} \cup Under(K, {a})
    BY <2>2, <2>3, UnderClosed DEF X
  <2>4. CASE n \in {b} \cup Under(K, {b})
    BY <2>2, <2>4, UnderClosed DEF X
  <2> QED
    BY <2>3, <2>4 DEF X
\* What is not below either is reached as before, both of them too.
<1>11. L \subseteq G \cup X
  <2> DEFINE T == {x \in L \cap Heap : x \in G \cup X}
  <2>1. ASSUME NEW n \in R \cup T PROVE K[n] \subseteq T
    <3>1. n \in L /\ (n \in G \/ n \in X)
      BY <1>1 DEF G
    <3>2. K[n] \subseteq L \cap Heap
      BY <1>1, <3>1
    <3>3. CASE n \in X \cup {a, b}
      BY <1>10, <3>2, <3>3
    <3>4. CASE n \in G /\ n \notin {a, b}
      <4>1. K2[n] = K[n]
        BY <1>1, <3>1, <3>4
      <4> QED
        BY <1>7, <3>2, <3>4, <4>1
    <3> QED
      BY <3>1, <3>3, <3>4
  <2>2. T \in SUBSET Heap
    OBVIOUS
  <2> HIDE DEF T
  <2>3. Under(K, R) \subseteq T
    BY <2>1, <2>2, UnderLeast
  <2> QED
    BY <1>1, <2>3 DEF T, G
<1>12. a \in G /\ b \in G
  BY <1>8, <1>11
<1>13. L \subseteq G
  <2> DEFINE T == L \cap Heap \cap G
  <2>1. ASSUME NEW n \in R \cup T PROVE K[n] \subseteq T
    <3>1. n \in L /\ n \in G
      BY <1>1 DEF G
    <3>2. K[n] \subseteq L \cap Heap
      BY <1>1, <3>1
    <3>3. PICK m \in G : K2[m] = K[n]
      BY <1>1, <1>12, <3>1
    <3> QED
      BY <1>7, <3>2, <3>3
  <2>2. T \in SUBSET Heap
    OBVIOUS
  <2> HIDE DEF T
  <2>3. Under(K, R) \subseteq T
    BY <2>1, <2>2, UnderLeast
  <2> QED
    BY <1>1, <2>3 DEF T, G
<1>14. L = R \cup Under(K2, R)
  BY <1>6, <1>13 DEF G
<1> QED
  BY <1>1, <1>2, <1>3, <1>4, <1>14 DEF Forest, R

-----------------------------------------------------------------------------
\* The empty array, which is the empty struct too.
LEMMA EmptyFacts ==
    /\ <<>> \in Seq(Heap) /\ Len(<<>>) = 0 /\ DOMAIN <<>> = {}
    /\ Range(<<>>) = {} /\ IsInjective(<<>>)
    /\ \A g : g \in [{} -> Heap] => g = <<>>
<1>1. <<>> \in Seq(Heap) /\ Len(<<>>) = 0 /\ DOMAIN <<>> = {}
  OBVIOUS
<1>2. ASSUME NEW g \in [{} -> Heap] PROVE g = <<>>
  <2>1. g \in [1..0 -> Heap]
    BY <1>2
  <2>2. g \in Seq(Heap) /\ Len(g) = 0
    BY <2>1
  <2> QED
    BY <2>2, EmptySeq
<1> QED
  BY <1>1, <1>2 DEF Range, IsInjective

\* What a content is, by its kind.
LEMMA ContentFacts ==
    ASSUME NEW c \in Contents
    PROVE  /\ c = [kind |-> c.kind, kids |-> c.kids]
           /\ c.kind \in Scalars \cup {"array", "struct", "free"}
           /\ c.kids \in [DOMAIN c.kids -> Heap]
           /\ Range(c.kids) \subseteq Heap
           /\ c.kind = "array" => c.kids \in Seq(Heap)
           /\ c.kind = "struct" => DOMAIN c.kids \subseteq Names
           /\ c.kind \in Scalars \cup {"free"} => c.kids = <<>>
<1>1. CASE c \in [kind : Scalars \cup {"free"}, kids : {<<>>}]
  <2>1. c = [kind |-> c.kind, kids |-> c.kids] /\ c.kind \in Scalars \cup {"free"} /\ c.kids = <<>>
    BY <1>1
  <2>2. c.kids \in [DOMAIN c.kids -> Heap]
    BY <2>1
  <2> QED
    BY <2>1, <2>2, EmptyFacts, ValueAssumption
<1>2. CASE c \in [kind : {"array"}, kids : Seq(Heap)]
  <2>1. c = [kind |-> c.kind, kids |-> c.kids] /\ c.kind = "array" /\ c.kids \in Seq(Heap)
    BY <1>2
  <2>2. c.kids \in [DOMAIN c.kids -> Heap]
    BY <2>1
  <2> QED
    BY <2>1, <2>2, ValueAssumption DEF Range
<1>3. CASE c \in [kind : {"struct"}, kids : UNION {[M -> Heap] : M \in SUBSET Names}]
  <2>1. c = [kind |-> c.kind, kids |-> c.kids] /\ c.kind = "struct"
        /\ c.kids \in UNION {[M -> Heap] : M \in SUBSET Names}
    BY <1>3
  <2>2. PICK M \in SUBSET Names : c.kids \in [M -> Heap]
    BY <2>1
  <2> QED
    BY <2>1, <2>2, ValueAssumption DEF Range
<1> QED
  BY <1>1, <1>2, <1>3 DEF Contents

\* What makes a content.
LEMMA IsContent ==
    ASSUME NEW kind, NEW kids,
           \/ kind \in Scalars \cup {"free"} /\ kids = <<>>
           \/ kind = "array" /\ kids \in Seq(Heap)
           \/ kind = "struct" /\ DOMAIN kids \subseteq Names /\ kids \in [DOMAIN kids -> Heap]
    PROVE  [kind |-> kind, kids |-> kids] \in Contents
<1>1. CASE kind \in Scalars \cup {"free"} /\ kids = <<>>
  BY <1>1 DEF Contents
<1>2. CASE kind = "array" /\ kids \in Seq(Heap)
  BY <1>2 DEF Contents
<1>3. CASE kind = "struct" /\ DOMAIN kids \subseteq Names /\ kids \in [DOMAIN kids -> Heap]
  <2>1. kids \in UNION {[M -> Heap] : M \in SUBSET Names}
    BY <1>3
  <2> QED
    BY <1>3, <2>1 DEF Contents
<1> QED
  BY <1>1, <1>2, <1>3

\* Pointers that are led to copies.
LEMMA LedFacts ==
    ASSUME NEW c \in Contents, NEW S, NEW f \in [S -> Heap], Range(c.kids) \subseteq S
    PROVE  /\ Led(c, f) \in Contents
           /\ Led(c, f).kind = c.kind
           /\ Range(Led(c, f).kids) = {f[x] : x \in Range(c.kids)}
           /\ IsInjective(f) /\ IsInjective(c.kids) => IsInjective(Led(c, f).kids)
<1> DEFINE g == [k \in DOMAIN c.kids |-> f[c.kids[k]]]
<1>1. /\ c = [kind |-> c.kind, kids |-> c.kids]
      /\ c.kind \in Scalars \cup {"array", "struct", "free"}
      /\ c.kids \in [DOMAIN c.kids -> Heap]
      /\ c.kind = "array" => c.kids \in Seq(Heap)
      /\ c.kind = "struct" => DOMAIN c.kids \subseteq Names
      /\ c.kind \in Scalars \cup {"free"} => c.kids = <<>>
  BY ContentFacts
<1>2. Led(c, f) = [kind |-> c.kind, kids |-> g]
  <2>1. PICK kind, kids : c = [kind |-> kind, kids |-> kids]
    BY <1>1
  <2> QED
    BY <2>1 DEF Led
<1>3. \A k \in DOMAIN c.kids : c.kids[k] \in S
  BY DEF Range
<1>4. g \in [DOMAIN c.kids -> Heap]
  BY <1>3
<1>5. DOMAIN g = DOMAIN c.kids /\ \A k \in DOMAIN c.kids : g[k] = f[c.kids[k]]
  OBVIOUS
<1> HIDE DEF g
<1>6. [kind |-> c.kind, kids |-> g] \in Contents
  <2>1. CASE c.kind \in Scalars \cup {"free"}
    <3>1. g \in [{} -> Heap]
      BY <1>1, <1>4, <2>1, EmptyFacts
    <3>2. g = <<>>
      BY <3>1, EmptyFacts
    <3> QED
      BY <2>1, <3>2, IsContent
  <2>2. CASE c.kind = "array"
    <3>1. PICK l \in Nat : DOMAIN c.kids = 1..l
      BY <1>1, <2>2
    <3>2. g \in [1..l -> Heap]
      BY <1>4, <3>1
    <3>3. g \in Seq(Heap)
      BY <3>2
    <3> QED
      BY <2>2, <3>3, IsContent
  <2>3. CASE c.kind = "struct"
    BY <1>1, <1>4, <1>5, <2>3, IsContent
  <2> QED
    BY <1>1, <2>1, <2>2, <2>3
<1>7. Range(g) = {f[x] : x \in Range(c.kids)}
  BY <1>5 DEF Range
<1>8. IsInjective(f) /\ IsInjective(c.kids) => IsInjective(g)
  BY <1>3, <1>5 DEF IsInjective
<1> QED
  BY <1>2, <1>6, <1>7, <1>8

\* No array is longer than the heap is large.
LEMMA LengthBound ==
    ASSUME NEW s \in Seq(Heap), IsInjective(s)
    PROVE  Len(s) <= Cardinality(Heap)
<1>1. PICK l \in Nat : Len(s) = l /\ DOMAIN s = 1..l /\ s \in [1..l -> Heap]
  OBVIOUS
<1>2. s \in Injection(1..l, Heap)
  BY <1>1 DEF Injection
<1>3. Cardinality(1..l) <= Cardinality(Heap)
  BY <1>2, FS_Injection, ValueAssumption
<1>4. Cardinality(1..l) = l
  <2>1. 0 \in Int /\ 1 \in Int /\ l \in Int
    OBVIOUS
  <2> QED
    BY <2>1, FS_Interval
<1> QED
  BY <1>1, <1>3, <1>4

-----------------------------------------------------------------------------
\* Below is Under, of the pointers of the heap.
LEMMA KidsFacts ==
    ASSUME NEW S \in SUBSET Nodes
    PROVE  /\ Below(S) = Under(KidsIn(heap), S)
           /\ \A n \in Nodes : KidsIn(heap)[n] = Kids(n)
<1>1. \A n \in Nodes : KidsIn(heap)[n] = Kids(n)
  BY DEF KidsIn, Kids
<1>2. ASSUME NEW T \in SUBSET Heap
      PROVE  Closed(T, S) <=> \A n \in S \cup T : KidsIn(heap)[n] \subseteq T
  BY <1>1 DEF Closed
<1>3. Below(S) = Under(KidsIn(heap), S)
  BY <1>2 DEF Below, Under
<1> QED
  BY <1>1, <1>3

\* What the invariant says of the heap as a graph.
Planted ==
    /\ Forest(KidsIn(heap), Live, erased)
    /\ \A n \in Nodes : IsInjective(heap[n].kids)

Contained == heap \in [Nodes -> Contents] /\ erased \subseteq Heap

\* The pointers of the heap as a graph.
LEMMA GraphFacts ==
    ASSUME Contained
    PROVE  /\ KidsIn(heap) \in [Nodes -> SUBSET Heap]
           /\ \A n \in Nodes : KidsIn(heap)[n] = Kids(n)
           /\ \A n \in Nodes \ Live : heap[n].kids = <<>> /\ Kids(n) = {}
           /\ Live \subseteq Nodes
<1>1. \A n \in Nodes : Kids(n) \subseteq Heap
  BY ContentFacts DEF Kids, Contained
<1>2. \A n \in Nodes : KidsIn(heap)[n] = Kids(n)
  BY DEF KidsIn, Kids
<1>3. KidsIn(heap) \in [Nodes -> SUBSET Heap]
  BY <1>1 DEF KidsIn, Kids
<1>4. Live \subseteq Nodes
  BY DEF Live
<1>5. ASSUME NEW n \in Nodes \ Live PROVE heap[n].kids = <<>> /\ Kids(n) = {}
  <2>1. heap[n].kind = "free" /\ heap[n] \in Contents
    BY <1>5 DEF Live, Contained
  <2> QED
    BY <2>1, ContentFacts, EmptyFacts DEF Kids
<1> QED
  BY <1>2, <1>3, <1>4, <1>5

\* The invariant as a forest, and back.
LEMMA InvariantPlants == IInv => Contained /\ Planted
<1> SUFFICES ASSUME IInv PROVE Contained /\ Planted
  OBVIOUS
<1> DEFINE K == KidsIn(heap)
           R == Variables \cup erased
<1>0. Contained
  BY DEF IInv, TypeOK, Contained
<1>1. /\ K \in [Nodes -> SUBSET Heap]
      /\ \A n \in Nodes : K[n] = Kids(n)
      /\ \A n \in Nodes \ Live : heap[n].kids = <<>> /\ Kids(n) = {}
      /\ Live \subseteq Nodes
  BY <1>0, GraphFacts
<1>2. erased \subseteq Nodes /\ erased \subseteq Heap /\ Variables \subseteq Nodes
  BY DEF IInv, TypeOK
<1>3. Below(Variables) = Under(K, Variables) /\ Below(erased) = Under(K, erased)
  BY <1>2, KidsFacts
<1> HIDE DEF K
<1>4. Under(K, R) = Under(K, Variables) \cup Under(K, erased)
  BY <1>1, <1>2, UnderUnion, ZenonT(60)
<1>5. Live = R \cup Under(K, R)
  BY <1>3, <1>4 DEF IInv, NothingLost, Reachable
<1>6. \A n \in Live : K[n] \subseteq Live \ erased
  BY <1>1 DEF IInv, OneOwner
<1>7. ASSUME NEW n \in Live, NEW m \in Live, n # m PROVE K[n] \cap K[m] = {}
  BY <1>1, <1>7 DEF IInv, OneOwner
<1>8. \A n \in Nodes \ Live : K[n] = {}
  BY <1>1
<1>9. Forest(K, Live, erased)
  BY <1>1, <1>2, <1>5, <1>6, <1>7, <1>8 DEF Forest
<1>10. ASSUME NEW n \in Nodes PROVE IsInjective(heap[n].kids)
  BY <1>1, EmptyFacts DEF IInv, OneOwner
<1> QED
  BY <1>0, <1>9, <1>10 DEF Planted, K

\* A forest has one owner for each Value and loses none.
LEMMA PlantsInvariant == Contained /\ Planted => IInv
<1> SUFFICES ASSUME Contained, Planted PROVE IInv
  OBVIOUS
<1> DEFINE K == KidsIn(heap)
           R == Variables \cup erased
<1>1. /\ K \in [Nodes -> SUBSET Heap]
      /\ \A n \in Nodes : K[n] = Kids(n)
      /\ Live \subseteq Nodes
  BY GraphFacts
<1>2. erased \subseteq Nodes /\ erased \subseteq Heap /\ Variables \subseteq Nodes
  BY DEF Contained
<1>3. Below(Variables) = Under(K, Variables) /\ Below(erased) = Under(K, erased)
  BY <1>2, KidsFacts
<1>4. Forest(K, Live, erased)
  BY DEF Planted
<1> HIDE DEF K
<1>5. Under(K, R) = Under(K, Variables) \cup Under(K, erased)
  BY <1>1, <1>2, UnderUnion, ZenonT(60)
<1>6. Live = R \cup Under(K, R)
  BY <1>4 DEF Forest
<1>7. NothingLost
  BY <1>3, <1>5, <1>6 DEF NothingLost, Reachable
<1>8. OneOwner
  <2>1. ASSUME NEW n \in Live PROVE Kids(n) \subseteq Live \ erased
    BY <1>1, <1>4 DEF Forest
  <2>2. ASSUME NEW n \in Live PROVE IsInjective(heap[n].kids)
    BY <1>1 DEF Planted
  <2>3. ASSUME NEW n \in Live, NEW m \in Live \ {n} PROVE Kids(n) \cap Kids(m) = {}
    BY <1>1, <1>4 DEF Forest
  <2> QED
    BY <2>1, <2>2, <2>3 DEF OneOwner
<1>9. ASSUME NEW n \in Nodes, heap[n].kind = "array" PROVE Len(heap[n].kids) <= Cardinality(Heap)
  <2>1. heap[n].kids \in Seq(Heap) /\ IsInjective(heap[n].kids)
    BY <1>9, ContentFacts DEF Contained, Planted
  <2> QED
    BY <2>1, LengthBound
<1>10. TypeOK
  BY <1>9 DEF TypeOK, Contained
<1> QED
  BY <1>7, <1>8, <1>10 DEF IInv

\* The same of the next state.
LEMMA PlantsInvariantNext == Contained' /\ Planted' => IInv'
BY PlantsInvariant, PTL

\* At first there are variables that hold nothing.
LEMMA InitInvariant == Init => IInv
<1> SUFFICES ASSUME Init PROVE IInv
  OBVIOUS
<1>1. \A n \in Nodes : heap[n] = [kind |-> IF n \in Variables THEN "nil" ELSE "free", kids |-> <<>>]
  BY DEF Init, Scalar, Free
<1>2. \A n \in Nodes : heap[n] \in Contents
  BY <1>1, ValueAssumption, IsContent
<1>3. ASSUME NEW n \in Nodes
       PROVE  heap[n].kind = (IF n \in Variables THEN "nil" ELSE "free") /\ heap[n].kids = <<>>
  <2>1. CASE n \in Variables
    <3>1. heap[n] = [kind |-> "nil", kids |-> <<>>]
      BY <2>1 DEF Init, Scalar
    <3> QED
      BY <2>1, <3>1
  <2>2. CASE n \notin Variables
    <3>1. heap[n] = [kind |-> "free", kids |-> <<>>]
      BY <2>2 DEF Init, Free
    <3> QED
      BY <2>2, <3>1
  <2> QED
    BY <2>1, <2>2
<1>4. Contained
  BY <1>2 DEF Init, Contained
<1>5. Live = Variables
  BY <1>3, ValueAssumption DEF Live
<1>6. \A n \in Nodes : Kids(n) = {} /\ IsInjective(heap[n].kids)
  BY <1>3, EmptyFacts DEF Kids
<1>7. /\ KidsIn(heap) \in [Nodes -> SUBSET Heap]
      /\ \A n \in Nodes : KidsIn(heap)[n] = {}
  BY <1>4, <1>6, GraphFacts
<1>8. Under(KidsIn(heap), Variables \cup {}) \subseteq {}
  BY <1>7, UnderLeast
<1>9. erased = {}
  BY DEF Init
<1>10. Forest(KidsIn(heap), Live, erased)
  BY <1>5, <1>7, <1>8, <1>9 DEF Forest
<1> QED
  BY <1>4, <1>6, <1>10, PlantsInvariant DEF Planted

-----------------------------------------------------------------------------
\* One step of assignment: P stays in `to', A is copied to f, the rest of what was
\* in `to' is deleted.
LEMMA BecomesStep ==
    ASSUME IInv, NEW to \in Live, NEW c \in Contents, c.kind # "free", IsInjective(c.kids),
           NEW P \in SUBSET Kids(to), NEW A \in SUBSET Live,
           NEW f \in Injection(A \cup Below(A), Heap \ Live),
           \A s \in A \cup Below(A) : A \cap Kids(s) = {},
           Range(c.kids) = P \cup {f[a] : a \in A},
           Becomes(to, c, f, (Kids(to) \ P) \cup Below(Kids(to) \ P)),
           UNCHANGED erased
    PROVE  IInv'
<1> DEFINE K == KidsIn(heap)
           K2 == KidsIn(heap')
           S == Whole(K, A)
           D == Gone(K, to, P)
           C == Range(f)
<1>1. Contained /\ Forest(K, Live, erased) /\ \A n \in Nodes : IsInjective(heap[n].kids)
  BY InvariantPlants DEF Planted
<1>2. /\ K \in [Nodes -> SUBSET Heap]
      /\ \A n \in Nodes : K[n] = Kids(n)
      /\ Live \subseteq Nodes
  BY <1>1, GraphFacts
<1>3. /\ to \in Nodes /\ A \in SUBSET Nodes /\ Kids(to) \ P \in SUBSET Nodes /\ Kids(to) = K[to]
  BY <1>2
<1>4. A \cup Below(A) = S /\ (Kids(to) \ P) \cup Below(Kids(to) \ P) = D
  BY <1>3, KidsFacts DEF Whole, Gone
<1>5. S \subseteq Live /\ S \subseteq Nodes /\ \A s \in S : K[s] \subseteq S
  BY <1>1, <1>2, CopyFacts
<1>6. D \subseteq (Live \cap Heap) \ erased /\ to \notin D
  BY <1>1, <1>3, GoneFacts
<1>7. /\ f \in [S -> Heap \ Live] /\ f \in [S -> Heap] /\ IsInjective(f)
      /\ \A s, t \in S : f[s] = f[t] => s = t
      /\ f \in Injection(S, Heap \ Live)
  BY <1>4 DEF Injection, IsInjective
<1> HIDE DEF K, S, D
<1>8. C = {f[s] : s \in S}
  BY <1>7 DEF Range
<1>9. C \cap Live = {} /\ C \subseteq Heap
  BY <1>7, <1>8
<1> HIDE DEF C
\* What each place holds afterwards.
<1>10. \A m \in Nodes :
          heap'[m] = IF m = to THEN c
                     ELSE IF m \in C THEN Clone(CHOOSE o \in S : f[o] = m, f)
                     ELSE IF m \in D THEN Free
                     ELSE heap[m]
  <2>1. Becomes(to, c, f, D)
    BY <1>4
  <2>2. DOMAIN f = S
    BY <1>7
  <2> QED
    BY <2>1, <2>2 DEF Becomes, C
<1>11. heap' = [m \in Nodes |-> heap'[m]]
  BY DEF Becomes
<1>12. heap'[to] = c
  BY <1>3, <1>10
<1>13. ASSUME NEW s \in S PROVE heap'[f[s]] = Led(heap[s], f)
  <2>1. f[s] \in C /\ f[s] \in Nodes /\ f[s] # to
    BY <1>7, <1>8, <1>9
  <2>2. (CHOOSE o \in S : f[o] = f[s]) = s
    BY <1>7
  <2>3. heap'[f[s]] = Clone(CHOOSE o \in S : f[o] = f[s], f)
    BY <1>10, <2>1
  <2> QED
    BY <2>2, <2>3 DEF Clone
<1>14. ASSUME NEW n \in D PROVE heap'[n] = Free
  <2>1. n \notin C /\ n # to /\ n \in Nodes
    BY <1>6, <1>9
  <2> QED
    BY <1>10, <2>1
<1>15. \A n \in Nodes \ (D \cup {to} \cup C) : heap'[n] = heap[n]
  BY <1>10
<1>16. ASSUME NEW s \in S
       PROVE  /\ heap'[f[s]] \in Contents
              /\ heap'[f[s]].kind # "free"
              /\ Range(heap'[f[s]].kids) = {f[x] : x \in K[s]}
              /\ IsInjective(heap'[f[s]].kids)
  <2>1. s \in Nodes /\ heap[s] \in Contents /\ heap[s].kind # "free" /\ IsInjective(heap[s].kids)
    BY <1>1, <1>5 DEF Contained, Live
  <2>2. Range(heap[s].kids) = K[s] /\ Range(heap[s].kids) \subseteq S
    BY <1>2, <1>5, <2>1 DEF Kids
  <2> QED
    <3>1. /\ Led(heap[s], f) \in Contents
          /\ Led(heap[s], f).kind = heap[s].kind
          /\ Range(Led(heap[s], f).kids) = {f[x] : x \in Range(heap[s].kids)}
          /\ IsInjective(f) /\ IsInjective(heap[s].kids) => IsInjective(Led(heap[s], f).kids)
      BY <1>7, <2>1, <2>2, LedFacts
    <3> QED
      BY <1>7, <1>13, <2>1, <2>2, <3>1
<1>17. Free \in Contents /\ Free.kind = "free" /\ Free.kids = <<>>
  BY IsContent DEF Free
<1>18. ASSUME NEW n \in Nodes PROVE heap'[n] \in Contents /\ IsInjective(heap'[n].kids)
  <2>1. CASE n = to
    BY <1>12, <2>1
  <2>2. CASE n \in C
    BY <1>8, <1>16, <2>2
  <2>3. CASE n \in D
    BY <1>14, <1>17, <2>3, EmptyFacts
  <2>4. CASE n \in Nodes \ (D \cup {to} \cup C)
    BY <1>1, <1>15, <2>4 DEF Contained
  <2> QED
    BY <2>1, <2>2, <2>3, <2>4
<1>19. Contained'
  BY <1>1, <1>11, <1>18 DEF Contained
<1>20. Live' = (Live \cup C) \ D
  <2>1. Live' = {n \in Nodes : heap'[n].kind # "free"}
    BY DEF Live
  <2>2. to \in Live' /\ to \in (Live \cup C) \ D
    BY <1>3, <1>6, <1>12, <2>1
  <2>3. ASSUME NEW n \in C PROVE n \in Live' /\ n \in (Live \cup C) \ D
    BY <1>6, <1>8, <1>9, <1>16, <2>1
  <2>4. ASSUME NEW n \in D PROVE n \notin Live'
    BY <1>14, <1>17, <2>1
  <2>5. ASSUME NEW n \in Nodes \ (D \cup {to} \cup C)
        PROVE  n \in Live' <=> n \in (Live \cup C) \ D
    BY <1>15, <2>1, <2>5 DEF Live
  <2>6. Live' \subseteq Nodes /\ (Live \cup C) \ D \subseteq Nodes
    BY <1>2, <1>9, <2>1
  <2> QED
    BY <2>2, <2>3, <2>4, <2>5, <2>6
\* As a graph: a graft.
<1>21. \A n \in Nodes : K2[n] = Range(heap'[n].kids)
  BY DEF KidsIn
<1>22. K2 \in [Nodes -> SUBSET Heap]
  BY <1>18, ContentFacts DEF KidsIn
<1> HIDE DEF K2
<1>23. K2[to] = P \cup {f[a] : a \in A}
  BY <1>3, <1>12, <1>21
<1>24. ASSUME NEW s \in S PROVE K2[f[s]] = {f[x] : x \in K[s]}
  BY <1>7, <1>16, <1>21
<1>25. ASSUME NEW n \in D PROVE K2[n] = {}
  BY <1>6, <1>14, <1>17, <1>21, EmptyFacts
<1>26. ASSUME NEW n \in Nodes \ (D \cup {to} \cup C) PROVE K2[n] = K[n]
  BY <1>2, <1>15, <1>21 DEF Kids
<1>27. \A s \in S : A \cap K[s] = {}
  BY <1>2, <1>4, <1>5
<1>28. Graft(K, Live, to, P, A, f, K2)
  BY <1>3, <1>7, <1>22, <1>23, <1>24, <1>25, <1>26, <1>27 DEF Graft, S, D, C
<1>29. Forest(K2, (Live \cup C) \ D, erased)
  BY <1>1, <1>28, Grafted DEF C, D
<1>30. Planted'
  BY <1>18, <1>20, <1>29 DEF Planted, K2
<1> QED
  BY <1>19, <1>30, PlantsInvariantNext

\* What the user names lives.
LEMMA ReachableLive ==
    ASSUME IInv
    PROVE  Reachable \subseteq Live
BY DEF IInv, NothingLost, Reachable

\* What is below a Value: what it holds, and what is below that.
LEMMA BelowOne ==
    ASSUME Contained, NEW n \in Nodes
    PROVE  Below({n}) = Kids(n) \cup Below(Kids(n))
<1>1. KidsIn(heap) \in [Nodes -> SUBSET Heap] /\ KidsIn(heap)[n] = Kids(n)
  BY GraphFacts
<1>2. Below({n}) = Under(KidsIn(heap), {n})
  BY KidsFacts
<1>3. Kids(n) \in SUBSET Nodes
  BY <1>1
<1>4. Below(Kids(n)) = Under(KidsIn(heap), Kids(n))
  BY <1>3, KidsFacts
<1> QED
  BY <1>1, <1>2, <1>4, UnderOne

\* A Value, or some of what one holds, has no holder in what is copied with it.
LEMMA CopiedFacts ==
    ASSUME IInv, NEW from \in Live, NEW A, A = {from} \/ A \subseteq Kids(from)
    PROVE  /\ A \in SUBSET Live
           /\ \A s \in A \cup Below(A) : A \cap Kids(s) = {}
<1> DEFINE K == KidsIn(heap)
<1>1. Contained /\ Forest(K, Live, erased)
  BY InvariantPlants DEF Planted
<1>2. /\ K \in [Nodes -> SUBSET Heap]
      /\ \A n \in Nodes : K[n] = Kids(n)
      /\ Live \subseteq Nodes
  BY <1>1, GraphFacts
<1> HIDE DEF K
<1>3. from \in Nodes /\ Kids(from) = K[from] /\ K[from] \subseteq Live
  BY <1>1, <1>2 DEF Forest
<1>4. A \in SUBSET Live /\ A \in SUBSET Nodes
  BY <1>2, <1>3
<1>5. Below(A) = Under(K, A)
  BY <1>4, KidsFacts DEF K
<1>6. Under(K, A) \subseteq Live
  BY <1>1, <1>4, UnderLives
<1>7. from \notin Under(K, {from})
  BY <1>1, Acyclic
<1>8. ASSUME NEW s \in A \cup Under(K, A), NEW a \in A, a \in K[s] PROVE FALSE
  <2>1. s \in Live /\ s \in Nodes
    BY <1>2, <1>4, <1>6
  <2>2. CASE A = {from}
    <3>1. a \in Under(K, A)
      BY <1>2, <1>8, <2>1, UnderClosed
    <3> QED
      BY <1>7, <2>2, <3>1
  <2>3. CASE A \subseteq Kids(from)
    <3>1. s = from
      BY <1>1, <1>3, <1>8, <2>1, <2>3 DEF Forest
    <3>2. Under(K, {from}) = K[from] \cup Under(K, K[from])
      BY <1>2, <1>3, UnderOne
    <3>3. Under(K, A) \subseteq Under(K, K[from])
      <4>1. K[from] \in SUBSET Nodes /\ A \in SUBSET (K[from] \cup Under(K, K[from]))
        BY <1>2, <1>3, <2>3
      <4> QED
        BY <1>2, <4>1, UnderWithin
    <3> QED
      BY <1>3, <1>7, <1>8, <2>3, <3>1, <3>2, <3>3
  <2> QED
    BY <2>2, <2>3
<1> QED
  BY <1>2, <1>4, <1>5, <1>6, <1>8

-----------------------------------------------------------------------------
\* Nothing is below nothing, and nothing is copied then.
LEMMA NoCopies ==
    ASSUME Contained
    PROVE  Below({}) = {} /\ <<>> \in Injection({} \cup Below({}), Heap \ Live)
<1>1. Below({}) = Under(KidsIn(heap), {})
  BY KidsFacts
<1>2. \A n \in {} \cup {} : KidsIn(heap)[n] \subseteq {}
  OBVIOUS
<1>3. Under(KidsIn(heap), {}) \subseteq {}
  BY <1>2, UnderLeast
<1>4. <<>> \in [{} -> Heap \ Live]
  OBVIOUS
<1>5. <<>> \in Injection({}, Heap \ Live)
  BY <1>4, EmptyFacts DEF Injection
<1> QED
  BY <1>1, <1>3, <1>5

\* Copies get addresses of their own.
LEMMA CopiesFacts ==
    ASSUME NEW S, Fits(S)
    PROVE  Copies(S) \in Injection(S, Heap \ Live)
BY DEF Fits, Copies

\* All of what `to' holds is deleted, all of what c holds is copied.
LEMMA BecomesAnother ==
    ASSUME IInv, NEW to \in Live, NEW from \in Live, NEW c \in Contents,
           c.kind # "free", IsInjective(c.kids), Range(c.kids) \subseteq Kids(from),
           LET A == Range(c.kids)
               f == Copies(A \cup Below(A))
           IN  Fits(A \cup Below(A)) /\ Becomes(to, Led(c, f), f, Below({to})),
           UNCHANGED erased
    PROVE  IInv'
<1> DEFINE A == Range(c.kids)
           S == A \cup Below(A)
           f == Copies(S)
<1>1. Contained /\ Live \subseteq Nodes
  BY InvariantPlants, GraphFacts
<1>2. A \in SUBSET Live /\ \A s \in S : A \cap Kids(s) = {}
  BY CopiedFacts
<1>3. f \in Injection(S, Heap \ Live)
  BY CopiesFacts
<1>4. Below({to}) = (Kids(to) \ {}) \cup Below(Kids(to) \ {})
  <2>1. Kids(to) \ {} = Kids(to)
    OBVIOUS
  <2> QED
    BY <1>1, <2>1, BelowOne
<1> HIDE DEF f
<1>5. f \in [S -> Heap] /\ IsInjective(f)
  BY <1>3 DEF Injection
<1>6. /\ Led(c, f) \in Contents
      /\ Led(c, f).kind = c.kind
      /\ Range(Led(c, f).kids) = {f[x] : x \in A}
      /\ IsInjective(Led(c, f).kids)
  <2>1. Range(c.kids) \subseteq S
    OBVIOUS
  <2> HIDE DEF S
  <2>2. /\ Led(c, f) \in Contents
        /\ Led(c, f).kind = c.kind
        /\ Range(Led(c, f).kids) = {f[x] : x \in Range(c.kids)}
        /\ IsInjective(f) /\ IsInjective(c.kids) => IsInjective(Led(c, f).kids)
    BY <1>5, <2>1, LedFacts
  <2> QED
    BY <1>5, <2>2
<1>7. Range(Led(c, f).kids) = {} \cup {f[a] : a \in A}
  BY <1>6
<1>8. Becomes(to, Led(c, f), f, (Kids(to) \ {}) \cup Below(Kids(to) \ {}))
  BY <1>4 DEF f
<1>9. {} \in SUBSET Kids(to)
  OBVIOUS
<1> HIDE DEF A
<1> QED
  BY <1>2, <1>3, <1>6, <1>7, <1>8, <1>9, BecomesStep

\* Value::operator=, from within itself too: what is copied lives until it is copied.
LEMMA AssignValueStep ==
    ASSUME IInv, NEW to \in Reachable, NEW from \in Reachable, AssignValue(to, from), UNCHANGED erased
    PROVE  IInv'
<1>1. Contained /\ to \in Live /\ from \in Live /\ from \in Nodes
  BY InvariantPlants, ReachableLive DEF Live
<1>2. heap[from] \in Contents /\ heap[from].kind # "free" /\ IsInjective(heap[from].kids)
  BY <1>1 DEF Contained, Live, IInv, OneOwner
<1>3. Range(heap[from].kids) = Kids(from)
  BY DEF Kids
<1>4. Below({from}) = Range(heap[from].kids) \cup Below(Range(heap[from].kids))
  BY <1>1, <1>3, BelowOne
<1>5. LET f == Copies(Below({from})) IN
          Fits(Below({from})) /\ Becomes(to, Led(heap[from], f), f, Below({to}))
  BY DEF AssignValue, Clone
<1> QED
  BY <1>1, <1>2, <1>3, <1>4, <1>5, BecomesAnother

\* A new content, with nothing in it.
LEMMA BecomesEmpty ==
    ASSUME IInv, NEW to \in Live, NEW c \in Contents, c.kind # "free", c.kids = <<>>,
           Becomes(to, c, <<>>, Below({to})), UNCHANGED erased
    PROVE  IInv'
<1> DEFINE f == <<>>
           A == {}
<1>1. Contained /\ Live \subseteq Nodes
  BY InvariantPlants, GraphFacts
<1>2. Below({}) = {} /\ f \in Injection(A \cup Below(A), Heap \ Live)
  BY <1>1, NoCopies
<1>3. Below({to}) = (Kids(to) \ {}) \cup Below(Kids(to) \ {})
  <2>1. Kids(to) \ {} = Kids(to)
    OBVIOUS
  <2> QED
    BY <1>1, <2>1, BelowOne
<1>4. Range(c.kids) = {} \cup {f[a] : a \in A} /\ IsInjective(c.kids)
  BY EmptyFacts
<1>5. A \in SUBSET Live /\ {} \in SUBSET Kids(to) /\ \A s \in A \cup Below(A) : A \cap Kids(s) = {}
  OBVIOUS
<1>6. Becomes(to, c, f, (Kids(to) \ {}) \cup Below(Kids(to) \ {}))
  BY <1>3
<1> HIDE DEF f, A
<1> QED
  BY <1>2, <1>4, <1>5, <1>6, BecomesStep

\* A new scalar, array or struct is assigned.
LEMMA AssignFreshStep ==
    ASSUME IInv, NEW to \in Reachable, AssignFresh(to), UNCHANGED erased
    PROVE  IInv'
<1>1. PICK c \in {Scalar(s) : s \in Scalars} \cup {EmptyArray, EmptyStruct} :
          Becomes(to, c, <<>>, Below({to}))
  BY DEF AssignFresh
<1>2. PICK kind \in Scalars \cup {"array", "struct"} : c = [kind |-> kind, kids |-> <<>>]
  BY DEF Scalar, EmptyArray, EmptyStruct
<1>3. kind # "free"
  BY ValueAssumption
<1>4. <<>> \in [DOMAIN <<>> -> Heap] /\ DOMAIN <<>> \subseteq Names /\ <<>> \in Seq(Heap)
  BY EmptyFacts
<1>5. c \in Contents
  BY <1>2, <1>4, IsContent
<1>6. c.kind # "free" /\ c.kids = <<>>
  BY <1>2, <1>3
<1> QED
  BY <1>1, <1>5, <1>6, ReachableLive, BecomesEmpty

\* clear()
LEMMA ClearStep ==
    ASSUME IInv, NEW to \in Reachable, Clear(to), UNCHANGED erased
    PROVE  IInv'
<1>1. Contained /\ to \in Live /\ to \in Nodes
  BY InvariantPlants, ReachableLive DEF Live
<1>2. PICK kind, kids : heap[to] = [kind |-> kind, kids |-> kids]
  BY <1>1, ContentFacts DEF Contained
<1>3. kind \in {"array", "struct"}
  BY <1>2 DEF Clear
<1> DEFINE c == [heap[to] EXCEPT !.kids = <<>>]
<1>4. c = [kind |-> kind, kids |-> <<>>]
  BY <1>2
<1>5. <<>> \in [DOMAIN <<>> -> Heap] /\ DOMAIN <<>> \subseteq Names /\ <<>> \in Seq(Heap)
  BY EmptyFacts
<1>6. c \in Contents
  BY <1>3, <1>4, <1>5, IsContent, ZenonT(60)
<1>7. c.kind # "free" /\ c.kids = <<>>
  BY <1>3, <1>4
<1>8. Becomes(to, c, <<>>, Below({to}))
  BY DEF Clear
<1> HIDE DEF c
<1> QED
  BY <1>1, <1>6, <1>7, <1>8, BecomesEmpty

\* Array::assign()
LEMMA AssignRangeStep ==
    ASSUME IInv, NEW to \in Reachable, NEW from \in Reachable, AssignRange(to, from), UNCHANGED erased
    PROVE  IInv'
<1>1. Contained /\ to \in Live /\ from \in Live /\ from \in Nodes
  BY InvariantPlants, ReachableLive DEF Live
<1>2. PICK kids \in Seq(Heap) : heap[from] = [kind |-> "array", kids |-> kids]
  <2>1. heap[from].kind = "array"
    BY DEF AssignRange
  <2> QED
    BY <1>1, <2>1, ContentFacts DEF Contained
<1>3. PICK i \in 0..Len(heap[from].kids) :
          LET range == [heap[from] EXCEPT !.kids = SubSeq(@, 1, i)]
              copied == Range(range.kids) \cup Below(Range(range.kids))
              f == Copies(copied)
          IN  /\ Fits(copied)
              /\ Becomes(to, Led(range, f), f, Below({to}))
  BY DEF AssignRange
<1>4. heap[from].kids = kids /\ i \in 0..Len(kids)
  BY <1>2
<1> DEFINE c == [heap[from] EXCEPT !.kids = SubSeq(@, 1, i)]
<1>5. PICK part : part = SubSeq(kids, 1, i)
  OBVIOUS
<1>6. c = [kind |-> "array", kids |-> part]
  <2>1. c = [heap[from] EXCEPT !.kids = part]
    BY <1>4, <1>5
  <2> QED
    BY <1>2, <2>1
<1>7. /\ part \in Seq(Heap) /\ DOMAIN part = 1..i /\ DOMAIN kids = 1..Len(kids)
      /\ Len(kids) \in Nat /\ \A k \in 1..i : part[k] = kids[k]
  BY <1>4, <1>5
<1>8. IsInjective(kids) /\ Range(kids) = Kids(from)
  BY <1>1, <1>2 DEF IInv, OneOwner, Kids
<1>9. \A k \in DOMAIN part : k \in DOMAIN kids /\ part[k] = kids[k]
  BY <1>7, <1>4
<1>10. IsInjective(part) /\ Range(part) \subseteq Kids(from)
  BY <1>8, <1>9 DEF IsInjective, Range
<1>11. c \in Contents /\ c.kind # "free" /\ c.kids = part
  <2> HIDE DEF c
  <2> QED
    BY <1>6, <1>7, IsContent
<1>12. LET A == Range(c.kids)
           f == Copies(A \cup Below(A))
       IN  Fits(A \cup Below(A)) /\ Becomes(to, Led(c, f), f, Below({to}))
  BY <1>3
<1> HIDE DEF c
<1> QED
  BY <1>1, <1>10, <1>11, <1>12, BecomesAnother

\* A step that changes nothing.
LEMMA UnchangedStep ==
    ASSUME IInv, UNCHANGED vars
    PROVE  IInv'
<1>1. heap' = heap /\ erased' = erased
  BY DEF vars
<1>2. Contained'
  BY <1>1, InvariantPlants DEF Contained
<1>3. KidsIn(heap') = KidsIn(heap) /\ Live' = Live
  BY <1>1 DEF Live
<1>4. Planted'
  BY <1>1, <1>3, InvariantPlants DEF Planted
<1> QED
  BY <1>2, <1>4, PlantsInvariantNext

\* Array::operator= and Struct::operator=
LEMMA AssignContainerStep ==
    ASSUME IInv, NEW to \in Reachable, NEW from \in Reachable, AssignContainer(to, from), UNCHANGED erased
    PROVE  IInv'
<1>1. CASE AssignValue(to, from)
  BY <1>1, AssignValueStep
<1>2. CASE UNCHANGED heap
  BY <1>2, UnchangedStep DEF vars
<1> QED
  BY <1>1, <1>2 DEF AssignContainer

\* One more Value is put in, a copy of `from'; what `to' keeps is P.
LEMMA BecomesLarger ==
    ASSUME IInv, NEW to \in Live, NEW from \in Live, NEW c \in Contents,
           c.kind # "free", IsInjective(c.kids), NEW P \in SUBSET Kids(to),
           Fits({from} \cup Below({from})),
           Range(c.kids) = P \cup {Copies({from} \cup Below({from}))[from]},
           Becomes(to, c, Copies({from} \cup Below({from})), (Kids(to) \ P) \cup Below(Kids(to) \ P)),
           UNCHANGED erased
    PROVE  IInv'
<1> DEFINE A == {from}
           f == Copies(A \cup Below(A))
<1>1. A \in SUBSET Live /\ \A s \in A \cup Below(A) : A \cap Kids(s) = {}
  BY CopiedFacts
<1>2. f \in Injection(A \cup Below(A), Heap \ Live)
  BY CopiesFacts
<1> HIDE DEF f
<1>3. Range(c.kids) = P \cup {f[a] : a \in A}
  BY DEF f
<1>4. Becomes(to, c, f, (Kids(to) \ P) \cup Below(Kids(to) \ P))
  BY DEF f
<1> HIDE DEF A
<1> QED
  BY <1>1, <1>2, <1>3, <1>4, BecomesStep, ZenonT(60)

\* The address of a copy is not in use.
LEMMA CopyIsNew ==
    ASSUME IInv, NEW to \in Live, NEW from, Fits({from} \cup Below({from}))
    PROVE  /\ Copies({from} \cup Below({from}))[from] \in Heap
           /\ Copies({from} \cup Below({from}))[from] \notin Kids(to)
<1>1. Copies({from} \cup Below({from})) \in Injection({from} \cup Below({from}), Heap \ Live)
  BY CopiesFacts
<1>2. Copies({from} \cup Below({from}))[from] \in Heap \ Live
  BY <1>1 DEF Injection
<1>3. Kids(to) \subseteq Live
  BY DEF IInv, OneOwner
<1> QED
  BY <1>2, <1>3

\* push_back()
LEMMA PushBackStep ==
    ASSUME IInv, NEW to \in Reachable, NEW from \in Reachable, PushBack(to, from), UNCHANGED erased
    PROVE  IInv'
<1> DEFINE f == Copies({from} \cup Below({from}))
           c == [heap[to] EXCEPT !.kids = Append(@, f[from])]
<1>1. Contained /\ to \in Live /\ from \in Live /\ to \in Nodes
  BY InvariantPlants, ReachableLive DEF Live
<1>2. Fits({from} \cup Below({from})) /\ Becomes(to, c, f, {})
  BY DEF PushBack
<1>3. f[from] \in Heap /\ f[from] \notin Kids(to)
  BY <1>1, <1>2, CopyIsNew
<1> HIDE DEF f
<1>4. PICK kids \in Seq(Heap) : heap[to] = [kind |-> "array", kids |-> kids]
  <2>1. heap[to].kind = "array"
    BY DEF PushBack
  <2> QED
    BY <1>1, <2>1, ContentFacts DEF Contained
<1>5. PICK new : new = Append(kids, f[from])
  OBVIOUS
<1>6. c = [kind |-> "array", kids |-> new]
  <2>1. heap[to].kids = kids
    BY <1>4
  <2>2. c = [heap[to] EXCEPT !.kids = new]
    BY <1>5, <2>1
  <2> QED
    BY <1>4, <2>2
<1>7. PICK l \in Nat : Len(kids) = l
  BY <1>4
<1>8. /\ new \in Seq(Heap) /\ DOMAIN kids = 1..l /\ DOMAIN new = 1..(l + 1)
      /\ \A k \in 1..l : new[k] = kids[k]
      /\ new[l + 1] = f[from]
  BY <1>3, <1>4, <1>5, <1>7
<1>9. DOMAIN new = DOMAIN kids \cup {l + 1}
  BY <1>7, <1>8
<1>10. IsInjective(kids) /\ Range(kids) = Kids(to)
  BY <1>1, <1>4 DEF IInv, OneOwner, Kids
<1>11. IsInjective(new)
  BY <1>3, <1>8, <1>9, <1>10 DEF IsInjective, Range
<1>12. Range(new) = Kids(to) \cup {f[from]}
  BY <1>8, <1>9, <1>10 DEF Range
<1>13. c \in Contents /\ c.kind # "free" /\ c.kids = new
  BY <1>6, <1>8, IsContent
<1>14. (Kids(to) \ Kids(to)) \cup Below(Kids(to) \ Kids(to)) = {}
  <2>1. Kids(to) \ Kids(to) = {}
    OBVIOUS
  <2> QED
    BY <1>1, <2>1, NoCopies
<1> HIDE DEF c
<1>15. Becomes(to, c, f, (Kids(to) \ Kids(to)) \cup Below(Kids(to) \ Kids(to)))
  BY <1>2, <1>14
<1> QED
  BY <1>1, <1>2, <1>11, <1>12, <1>13, <1>15, BecomesLarger DEF f

\* insert(), over a member of that name or not.
LEMMA InsertMemberStep ==
    ASSUME IInv, NEW to \in Reachable, NEW from \in Reachable, NEW n \in Names,
           InsertMember(to, n, from), UNCHANGED erased
    PROVE  IInv'
<1> DEFINE f == Copies({from} \cup Below({from}))
           c == [heap[to] EXCEPT !.kids =
                    [m \in DOMAIN @ \cup {n} |-> IF m = n THEN f[from] ELSE @[m]]]
<1>1. Contained /\ to \in Live /\ from \in Live /\ to \in Nodes
  BY InvariantPlants, ReachableLive DEF Live
<1>2. Fits({from} \cup Below({from})) /\ Becomes(to, c, f, Replaced(to, n))
  BY DEF InsertMember
<1>3. f[from] \in Heap /\ f[from] \notin Kids(to)
  BY <1>1, <1>2, CopyIsNew
<1> HIDE DEF f
<1>4. PICK kids : /\ heap[to] = [kind |-> "struct", kids |-> kids]
                  /\ kids \in [DOMAIN kids -> Heap] /\ DOMAIN kids \subseteq Names
  <2>1. heap[to].kind = "struct"
    BY DEF InsertMember
  <2> QED
    BY <1>1, <2>1, ContentFacts DEF Contained
<1> DEFINE new == [m \in DOMAIN kids \cup {n} |-> IF m = n THEN f[from] ELSE kids[m]]
           old == {kids[m] : m \in DOMAIN kids \cap {n}}
           P == {kids[m] : m \in DOMAIN kids \ {n}}
<1>5. c = [kind |-> "struct", kids |-> new]
  BY <1>4
<1>6. IsInjective(kids) /\ Kids(to) = {kids[m] : m \in DOMAIN kids}
  BY <1>1, <1>4 DEF IInv, OneOwner, Kids, Range
<1>7. new \in [DOMAIN new -> Heap] /\ DOMAIN new \subseteq Names
  BY <1>3, <1>4
<1>8. DOMAIN new = DOMAIN kids \cup {n} /\ new[n] = f[from] /\ \A m \in DOMAIN kids \ {n} : new[m] = kids[m]
  OBVIOUS
<1> HIDE DEF new
<1>9. c \in Contents /\ c.kind # "free" /\ c.kids = new
  BY <1>5, <1>7, IsContent
<1>10. Range(new) = P \cup {f[from]}
  BY <1>8 DEF Range
<1>11. IsInjective(new)
  BY <1>3, <1>6, <1>8 DEF IsInjective
<1>12. Replaced(to, n) = old \cup Below(old)
  BY <1>4 DEF Replaced
<1>13. Kids(to) \ P = old /\ P \in SUBSET Kids(to)
  BY <1>6 DEF IsInjective
<1> HIDE DEF c, old, P
<1>14. Becomes(to, c, f, (Kids(to) \ P) \cup Below(Kids(to) \ P))
  BY <1>2, <1>12, <1>13
<1> QED
  BY <1>1, <1>2, <1>9, <1>10, <1>11, <1>13, <1>14, BecomesLarger DEF f

\* swap() of two containers apart from one another.
LEMMA SwapStep ==
    ASSUME IInv, NEW a \in Reachable, NEW b \in Reachable, Swap(a, b), UNCHANGED erased
    PROVE  IInv'
<1> DEFINE K == KidsIn(heap)
           K2 == KidsIn(heap')
<1>1. /\ Contained /\ Forest(K, Live, erased) /\ \A n \in Nodes : IsInjective(heap[n].kids)
      /\ a \in Live /\ b \in Live
  BY InvariantPlants, ReachableLive DEF Planted
<1>2. K \in [Nodes -> SUBSET Heap] /\ (\A n \in Nodes : K[n] = Kids(n)) /\ Live \subseteq Nodes
  BY <1>1, GraphFacts
<1>3. a \in Nodes /\ b \in Nodes
  BY <1>1, <1>2
<1>4. a # b /\ a \notin Under(K, {b}) /\ b \notin Under(K, {a})
  BY <1>3, KidsFacts DEF Swap, Apart
<1> HIDE DEF K
<1>5. /\ heap'[a] = heap[b] /\ heap'[b] = heap[a]
      /\ \A n \in Nodes \ {a, b} : heap'[n] = heap[n]
      /\ heap' \in [Nodes -> Contents]
  BY <1>1, <1>3, <1>4 DEF Swap, Contained
<1>6. Contained'
  BY <1>1, <1>5 DEF Contained
<1>7. Live' = Live
  <2>1. heap[a].kind # "free" /\ heap[b].kind # "free"
    BY <1>1 DEF Live
  <2>2. \A n \in Nodes : heap'[n].kind # "free" <=> heap[n].kind # "free"
    BY <1>5, <2>1
  <2> QED
    BY <2>2 DEF Live
<1>8. \A n \in Nodes : K2[n] = Range(heap'[n].kids)
  BY DEF KidsIn
<1>9. K2 \in [Nodes -> SUBSET Heap]
  BY <1>5, ContentFacts DEF KidsIn
<1> HIDE DEF K2
<1>10. K2[a] = K[b] /\ K2[b] = K[a] /\ \A n \in Nodes \ {a, b} : K2[n] = K[n]
  BY <1>2, <1>3, <1>5, <1>8 DEF Kids
<1>11. Forest(K2, Live, erased)
  BY <1>1, <1>4, <1>9, <1>10, Exchanged
<1>12. \A n \in Nodes : IsInjective(heap'[n].kids)
  BY <1>1, <1>3, <1>5
<1>13. Planted'
  BY <1>7, <1>11, <1>12 DEF Planted, K2
<1> QED
  BY <1>6, <1>13, PlantsInvariantNext

\* erase() makes a root of what it takes out.
LEMMA EraseMemberStep ==
    ASSUME IInv, NEW to \in Reachable, NEW n \in Names, EraseMember(to, n)
    PROVE  IInv'
<1> DEFINE K == KidsIn(heap)
           K2 == KidsIn(heap')
<1>1. /\ Contained /\ Forest(K, Live, erased) /\ \A m \in Nodes : IsInjective(heap[m].kids)
      /\ to \in Live
  BY InvariantPlants, ReachableLive DEF Planted
<1>2. K \in [Nodes -> SUBSET Heap] /\ (\A m \in Nodes : K[m] = Kids(m)) /\ Live \subseteq Nodes
  BY <1>1, GraphFacts
<1>3. to \in Nodes
  BY <1>1, <1>2
<1>4. PICK kids : /\ heap[to] = [kind |-> "struct", kids |-> kids]
                  /\ kids \in [DOMAIN kids -> Heap] /\ DOMAIN kids \subseteq Names
  <2>1. heap[to].kind = "struct" /\ heap[to] \in Contents
    BY <1>1, <1>3 DEF EraseMember, Contained
  <2> QED
    BY <2>1, ContentFacts
<1>5. heap[to].kids = kids /\ IsInjective(kids)
  BY <1>1, <1>3, <1>4
<1> DEFINE x == kids[n]
           rest == Restrict(kids, DOMAIN kids \ {n})
<1>6. n \in DOMAIN kids /\ erased' = erased \cup {x}
  BY <1>5 DEF EraseMember
<1>7. heap' = [heap EXCEPT ![to].kids = rest]
  BY <1>5 DEF EraseMember
<1>8. DOMAIN rest = DOMAIN kids \ {n} /\ \A m \in DOMAIN rest : rest[m] = kids[m]
  BY DEF Restrict
<1> HIDE DEF rest, K
<1>9. heap'[to] = [kind |-> "struct", kids |-> rest]
  BY <1>1, <1>3, <1>4, <1>7 DEF Contained
<1>10. \A m \in Nodes \ {to} : heap'[m] = heap[m]
  BY <1>1, <1>7 DEF Contained
<1>11. rest \in [DOMAIN rest -> Heap] /\ DOMAIN rest \subseteq Names
  <2>1. rest = [m \in DOMAIN kids \ {n} |-> kids[m]]
    BY DEF rest, Restrict
  <2> QED
    BY <1>4, <1>8, <2>1
<1>12. heap'[to] \in Contents
  BY <1>9, <1>11, IsContent
<1>13. heap' \in [Nodes -> Contents]
  <2>1. heap' = [m \in Nodes |-> heap'[m]]
    BY <1>1, <1>7 DEF Contained
  <2>2. \A m \in Nodes : heap'[m] \in Contents
    BY <1>1, <1>10, <1>12 DEF Contained
  <2> QED
    BY <2>1, <2>2
<1>14. x \in Heap /\ x \in K[to]
  BY <1>2, <1>3, <1>4, <1>5, <1>6 DEF Kids, Range
<1>15. Contained'
  BY <1>1, <1>6, <1>13, <1>14 DEF Contained
<1>16. Live' = Live
  <2>1. heap[to].kind = "struct" /\ heap'[to].kind = "struct"
    BY <1>4, <1>9
  <2>2. \A m \in Nodes : heap'[m].kind # "free" <=> heap[m].kind # "free"
    BY <1>10, <2>1
  <2> QED
    BY <2>2 DEF Live
<1>17. \A m \in Nodes : K2[m] = Range(heap'[m].kids)
  BY DEF KidsIn
<1>18. K2 \in [Nodes -> SUBSET Heap]
  BY <1>13, ContentFacts DEF KidsIn
<1> HIDE DEF K2
<1>19. K2[to] = K[to] \ {x}
  <2>1. K2[to] = Range(rest) /\ K[to] = Range(kids)
    BY <1>2, <1>3, <1>5, <1>9, <1>17 DEF Kids
  <2>2. Range(rest) = Range(kids) \ {x}
    BY <1>5, <1>6, <1>8 DEF Range, IsInjective
  <2> QED
    BY <2>1, <2>2
<1>20. \A m \in Nodes \ {to} : K2[m] = K[m]
  BY <1>2, <1>10, <1>17 DEF Kids
<1> HIDE DEF x
<1>21. Forest(K2, Live, erased \cup {x})
  BY <1>1, <1>14, <1>18, <1>19, <1>20, Unhooked
<1>22. ASSUME NEW m \in Nodes PROVE IsInjective(heap'[m].kids)
  <2>1. IsInjective(rest)
    BY <1>5, <1>8 DEF IsInjective
  <2> QED
    BY <1>1, <1>9, <1>10, <2>1
<1>23. Planted'
  BY <1>6, <1>16, <1>21, <1>22 DEF Planted, K2
<1> QED
  BY <1>15, <1>23, PlantsInvariantNext

-----------------------------------------------------------------------------
\* The invariant holds throughout: any sequence of operations on nested containers
\* leaves a forest.
THEOREM InvariantHolds == Spec => []IInv
<1>1. ASSUME IInv, [Next]_vars PROVE IInv'
  <2>1. ASSUME NEW to \in Reachable, NEW n \in Names, EraseMember(to, n) PROVE IInv'
    BY <1>1, <2>1, EraseMemberStep
  <2>2. ASSUME UNCHANGED erased, NEW to \in Reachable, AssignFresh(to) PROVE IInv'
    BY <1>1, <2>2, AssignFreshStep
  <2>3. ASSUME UNCHANGED erased, NEW to \in Reachable, Clear(to) PROVE IInv'
    BY <1>1, <2>3, ClearStep
  <2>4. ASSUME UNCHANGED erased, NEW to \in Reachable, NEW from \in Reachable,
               \/ AssignValue(to, from) \/ AssignContainer(to, from)
               \/ AssignRange(to, from) \/ PushBack(to, from) \/ Swap(to, from)
        PROVE  IInv'
    BY <1>1, <2>4, AssignValueStep, AssignContainerStep, AssignRangeStep, PushBackStep, SwapStep
  <2>5. ASSUME UNCHANGED erased, NEW to \in Reachable, NEW from \in Reachable, NEW n \in Names,
               InsertMember(to, n, from)
        PROVE  IInv'
    BY <1>1, <2>5, InsertMemberStep
  <2>6. CASE UNCHANGED vars
    BY <1>1, <2>6, UnchangedStep
  <2> QED
    BY <1>1, <2>1, <2>2, <2>3, <2>4, <2>5, <2>6 DEF Next
<1> QED
  BY <1>1, InitInvariant, PTL DEF Spec

\* Each Value holds what its kind allows, and no array is longer than the heap is
\* large (value.cc:64-137, value_type.cc:119-318).
THEOREM ValuesTypeCorrect == Spec => []TypeOK
<1>1. IInv => TypeOK
  BY DEF IInv
<1> QED
  BY <1>1, InvariantHolds, PTL

\* Each Value is in one place of one container and no pointer leads to a deleted one,
\* after any assignments and insertions, from within itself or not, and exchanges of
\* what is not within each other (value_type.cc:119-318, value.cc:134-160).
THEOREM ValuesHaveOneOwner == Spec => []OneOwner
<1>1. IInv => OneOwner
  BY DEF IInv
<1> QED
  BY <1>1, InvariantHolds, PTL

\* Only what erase() takes out of a struct is lost (value_type.h:252): every other
\* Value is deleted with the container it is in.
THEOREM NothingIsLost == Spec => []NothingLost
<1>1. IInv => NothingLost
  BY DEF IInv
<1> QED
  BY <1>1, InvariantHolds, PTL

\* No Value is within itself, so deleting one and writing one come to an end
\* (value_type.cc:132-136, 174-180).
THEOREM NoValueWithinItself == Spec => [](\A n \in Live : n \notin Below({n}))
<1>1. IInv => \A n \in Live : n \notin Below({n})
  <2> SUFFICES ASSUME IInv, NEW n \in Live PROVE n \notin Below({n})
    OBVIOUS
  <2>1. Forest(KidsIn(heap), Live, erased) /\ n \in Nodes
    BY InvariantPlants DEF Planted, Live
  <2>2. Below({n}) = Under(KidsIn(heap), {n})
    BY <2>1, KidsFacts
  <2> QED
    BY <2>1, <2>2, Acyclic
<1> QED
  BY <1>1, InvariantHolds, PTL

-----------------------------------------------------------------------------
(* Places. *)
HIDE DEF Nodes

\* The indices and names of places, and places.
Key == Variables \cup Names \cup Nat
Place == Seq(Key)

\* One step further, and further to another place.
Deeper(p, k) == Append(p, k)
Join(p, r) == p \o r

\* The one place is in the other.
Holds(p, q) == \E r \in Place : q = Join(p, r)

\* Places one step further, the empty one, and places in places, are places.
LEMMA PlaceDeeper ==
    ASSUME NEW p \in Place, NEW k \in Key
    PROVE  Deeper(p, k) \in Place /\ Len(Deeper(p, k)) = Len(p) + 1 /\ Len(p) \in Nat
BY DEF Place, Deeper

LEMMA PlaceEmpty == <<>> \in Place /\ Len(<<>>) = 0
BY DEF Place

LEMMA PlaceJoin ==
    ASSUME NEW p \in Place, NEW r \in Place
    PROVE  Join(p, r) \in Place /\ Len(Join(p, r)) = Len(p) + Len(r)
BY DEF Place, Join

\* How steps and places in places compose.
LEMMA JoinEmpty ==
    ASSUME NEW p \in Place
    PROVE  Join(p, <<>>) = p /\ Join(<<>>, p) = p
BY DEF Place, Join

LEMMA JoinDeeper ==
    ASSUME NEW p \in Place, NEW r \in Place, NEW k \in Key
    PROVE  Join(p, Deeper(r, k)) = Deeper(Join(p, r), k)
BY DEF Place, Join, Deeper

\* The last step and what is before it are those of the place.
LEMMA DeeperSame ==
    ASSUME NEW p \in Place, NEW q \in Place, NEW k \in Key, NEW j \in Key, Deeper(p, k) = Deeper(q, j)
    PROVE  p = q /\ k = j
<1>1. p \in Seq(Key) /\ q \in Seq(Key)
  BY DEF Place
<1>2. Append(p, k) = Append(q, j)
  BY DEF Deeper
<1> HIDE DEF Key
<1>3. Len(p) = Len(q) /\ Len(p) \in Nat
  <2>1. Len(Append(p, k)) = Len(p) + 1 /\ Len(Append(q, j)) = Len(q) + 1
    BY <1>1
  <2> QED
    BY <1>1, <1>2, <2>1
<1>4. Append(p, k)[Len(p) + 1] = k /\ Append(q, j)[Len(q) + 1] = j
  BY <1>1
<1>5. \A i \in 1..Len(p) : Append(p, k)[i] = p[i] /\ Append(q, j)[i] = q[i]
  BY <1>1, <1>3
<1>6. \A i \in 1..Len(p) : p[i] = q[i]
  BY <1>2, <1>5
<1> QED
  BY <1>1, <1>2, <1>3, <1>4, <1>6, SeqEqual

\* A place is in another in one way.
LEMMA JoinSame ==
    ASSUME NEW p \in Place, NEW r \in Place, NEW s \in Place, Join(p, r) = Join(p, s)
    PROVE  r = s
<1>1. p \in Seq(Key) /\ r \in Seq(Key) /\ s \in Seq(Key)
  BY DEF Place
<1>2. p \o r = p \o s
  BY DEF Join
<1>3. Len(p) + Len(r) = Len(p) + Len(s) /\ Len(p) \in Nat /\ Len(r) \in Nat /\ Len(s) \in Nat
  <2>1. Len(p \o r) = Len(p) + Len(r) /\ Len(p \o s) = Len(p) + Len(s)
    BY <1>1
  <2> QED
    BY <1>1, <1>2, <2>1
<1>4. Len(r) = Len(s)
  BY <1>3
<1>5. ASSUME NEW i \in 1..Len(r) PROVE r[i] = s[i]
  <2>1. (p \o r)[Len(p) + i] = r[i]
    BY <1>1, <1>3
  <2>2. (p \o s)[Len(p) + i] = s[i]
    BY <1>1, <1>3, <1>4
  <2> QED
    BY <1>2, <2>1, <2>2
<1> QED
  BY <1>1, <1>4, <1>5, SeqEqual

\* A place that is not empty has a last step.
LEMMA DeeperOf ==
    ASSUME NEW p \in Place, p # <<>>
    PROVE  \E q \in Place, k \in Key : p = Deeper(q, k)
<1>1. p \in Seq(Key)
  BY DEF Place
<1>2. Len(p) \in Nat /\ Len(p) # 0
  BY <1>1, EmptySeq
<1> DEFINE q == SubSeq(p, 1, Len(p) - 1)
           k == p[Len(p)]
<1>3. q \in Seq(Key) /\ Len(q) = Len(p) - 1 /\ \A i \in 1..Len(p) - 1 : q[i] = p[i]
  <2>1. \A i \in 1..Len(p) - 1 : p[i] \in Key
    BY <1>1, <1>2
  <2>2. PICK n \in Nat : n = Len(p) - 1
    BY <1>2
  <2>3. /\ SubSeq(p, 1, n) \in Seq(Key)
        /\ Len(SubSeq(p, 1, n)) = IF 1 <= n THEN n - 1 + 1 ELSE 0
        /\ \A i \in 1 .. n - 1 + 1 : SubSeq(p, 1, n)[i] = p[1 + i - 1]
    BY <2>1, <2>2, SubSeqProperties
  <2>4. q = SubSeq(p, 1, n)
    BY <2>2
  <2> HIDE DEF q
  <2>5. q \in Seq(Key) /\ Len(q) = n /\ \A i \in 1..n : q[i] = p[i]
    BY <2>3, <2>4
  <2> QED
    BY <2>2, <2>5
<1>4. k \in Key
  BY <1>1, <1>2
<1> HIDE DEF q, k, Key
<1>5. Append(q, k) \in Seq(Key) /\ Len(Append(q, k)) = Len(p)
  BY <1>2, <1>3, <1>4
<1>6. ASSUME NEW i \in 1..Len(p) PROVE Append(q, k)[i] = p[i]
  BY <1>2, <1>3, <1>4, <1>6 DEF k
<1>7. Append(q, k) = p
  BY <1>1, <1>5, <1>6, SeqEqual
<1> QED
  BY <1>3, <1>4, <1>7 DEF Place, Deeper

\* What a place holds: itself, and what is further from what it holds.
LEMMA HoldsItself ==
    ASSUME NEW p \in Place
    PROVE  Holds(p, p)
BY PlaceEmpty, JoinEmpty DEF Holds

LEMMA HoldsDeeper ==
    ASSUME NEW p \in Place, NEW q \in Place, NEW k \in Key
    PROVE  Holds(p, Deeper(q, k)) <=> Holds(p, q) \/ p = Deeper(q, k)
<1>1. ASSUME Holds(p, q) PROVE Holds(p, Deeper(q, k))
  <2>1. PICK r \in Place : q = Join(p, r)
    BY <1>1 DEF Holds
  <2>2. Deeper(r, k) \in Place /\ Deeper(q, k) = Join(p, Deeper(r, k))
    BY <2>1, JoinDeeper, PlaceDeeper
  <2> QED
    BY <2>2 DEF Holds
<1>2. ASSUME Holds(p, Deeper(q, k)), p # Deeper(q, k) PROVE Holds(p, q)
  <2>1. PICK r \in Place : Deeper(q, k) = Join(p, r)
    BY <1>2 DEF Holds
  <2>2. r # <<>>
    BY <1>2, <2>1, JoinEmpty
  <2>3. PICK s \in Place, j \in Key : r = Deeper(s, j)
    BY <2>2, DeeperOf
  <2>4. Deeper(q, k) = Deeper(Join(p, s), j) /\ Join(p, s) \in Place
    BY <2>1, <2>3, JoinDeeper, PlaceJoin
  <2>5. q = Join(p, s)
    BY <2>4, DeeperSame
  <2> QED
    BY <2>5 DEF Holds
<1> QED
  BY <1>1, <1>2, HoldsItself, PlaceDeeper

\* So it does for the users of trees.
LEMMA HoldsPrefix ==
    ASSUME NEW p \in Place, NEW q \in Place
    PROVE  Trees!IsPrefix(p, q) <=> Holds(p, q)
<1>1. p \in Seq(Key) /\ q \in Seq(Key) /\ Len(p) \in Nat /\ Len(q) \in Nat
  BY DEF Place
<1> HIDE DEF Key
<1>2. Trees!IsPrefix(p, q) <=> Len(p) <= Len(q) /\ SubSeq(p, 1, Len(p)) = SubSeq(q, 1, Len(p))
  BY DEF Trees!IsPrefix
<1>3. SubSeq(p, 1, Len(p)) = p
  BY <1>1, SubSeqFull
<1>4. ASSUME Len(p) <= Len(q), p = SubSeq(q, 1, Len(p)) PROVE Holds(p, q)
  <2> DEFINE r == SubSeq(q, Len(p) + 1, Len(q))
  <2>1. r \in Seq(Key)
    <3>1. \A i \in Len(p) + 1 .. Len(q) : q[i] \in Key
      BY <1>1
    <3> QED
      BY <1>1, <3>1, SubSeqProperties
  <2>2. SubSeq(q, 1, Len(q)) = SubSeq(q, 1, Len(p)) \o r
    <3>1. /\ 1 \in 1 .. Len(q) + 1 /\ Len(p) \in 1 - 1 .. Len(q)
          /\ Len(q) \in Len(p) .. Len(q)
      BY <1>1, <1>4
    <3> QED
      BY <1>1, <3>1, ConcatAdjacentSubSeq
  <2>3. q = p \o r
    BY <1>1, <1>4, <2>2, SubSeqFull
  <2> QED
    BY <2>1, <2>3 DEF Holds, Place, Join
<1>5. ASSUME Holds(p, q) PROVE Len(p) <= Len(q) /\ p = SubSeq(q, 1, Len(p))
  <2>1. PICK r \in Seq(Key) : q = p \o r
    BY <1>5 DEF Holds, Place, Join
  <2>2. Len(q) = Len(p) + Len(r) /\ Len(r) \in Nat
    BY <1>1, <2>1
  <2>3. Len(p) <= Len(q)
    BY <1>1, <2>2
  <2>4. SubSeq(q, 1, Len(p)) \in Seq(Key) /\ Len(SubSeq(q, 1, Len(p))) = Len(p)
        /\ \A i \in 1..Len(p) : SubSeq(q, 1, Len(p))[i] = q[i]
    <3>1. \A i \in 1..Len(p) : q[i] \in Key
      BY <1>1, <2>3
    <3> QED
      BY <1>1, <2>3, <3>1, SubSeqProperties
  <2>5. \A i \in 1..Len(p) : q[i] = p[i]
    BY <1>1, <2>1
  <2>6. p = SubSeq(q, 1, Len(p))
    BY <1>1, <2>4, <2>5, SeqEqual
  <2> QED
    BY <2>3, <2>6
<1> QED
  BY <1>2, <1>3, <1>4, <1>5

\* What they cut off is the place in the place.
LEMMA RestOfPlace ==
    ASSUME NEW p \in Place, NEW r \in Place
    PROVE  SubSeq(Join(p, r), Len(p) + 1, Len(Join(p, r))) = r
<1>1. p \in Seq(Key) /\ r \in Seq(Key) /\ Len(p) \in Nat /\ Len(r) \in Nat
  BY DEF Place
<1> DEFINE q == p \o r
           s == SubSeq(q, Len(p) + 1, Len(q))
<1>2. q \in Seq(Key) /\ Len(q) = Len(p) + Len(r) /\ \A i \in 1..Len(r) : q[Len(p) + i] = r[i]
  BY <1>1
<1> HIDE DEF q, Key
<1>3. s \in Seq(Key) /\ Len(s) = Len(r) /\ \A i \in 1..Len(r) : s[i] = q[Len(p) + i]
  <2>1. \A i \in Len(p) + 1 .. Len(q) : q[i] \in Key
    BY <1>1, <1>2
  <2>2. /\ s \in Seq(Key)
        /\ Len(s) = IF Len(p) + 1 <= Len(q) THEN Len(q) - (Len(p) + 1) + 1 ELSE 0
        /\ \A i \in 1 .. Len(q) - (Len(p) + 1) + 1 : s[i] = q[Len(p) + 1 + i - 1]
    BY <1>1, <1>2, <2>1, SubSeqProperties
  <2> HIDE DEF s
  <2>3. PICK l \in Nat, m \in Nat : l = Len(p) /\ m = Len(r)
    BY <1>1
  <2>4. Len(q) = l + m
    BY <1>2, <2>3
  <2>5. Len(s) = m /\ \A i \in 1..m : s[i] = q[l + 1 + i - 1]
    BY <2>2, <2>3, <2>4
  <2>6. \A i \in 1..m : l + 1 + i - 1 = l + i
    BY <2>3
  <2> QED
    BY <2>2, <2>3, <2>5, <2>6
<1> HIDE DEF s
<1>4. ASSUME NEW i \in 1..Len(r) PROVE s[i] = r[i]
  BY <1>2, <1>3
<1>5. s = r
  BY <1>1, <1>3, <1>4, SeqEqual
<1> QED
  BY <1>5 DEF q, s, Join

-----------------------------------------------------------------------------
(* What arcs lead to, and at which places. *)

\* Pairs of a place and the Value there.
Pairs == Place \X Nodes

\* Whatever the arcs E lead to from T is in T.
Follows(E, T) ==
    \A p \in Place, n \in Nodes, k \in Key, m \in Nodes :
        <<p, n>> \in T /\ <<n, k, m>> \in E => <<Deeper(p, k), m>> \in T

\* What the arcs lead to from the pairs R.
Paths(E, R) == {w \in Pairs : \A T \in SUBSET Pairs : R \subseteq T /\ Follows(E, T) => w \in T}

\* From one Value: what it holds, at places within it.
From(E, n) == Paths(E, {<<<<>>, n>>})

\* The roots are there, and all that the arcs lead to from what is there.
LEMMA PathsRoots ==
    ASSUME NEW E, NEW R, R \in SUBSET Pairs
    PROVE  R \subseteq Paths(E, R) /\ Paths(E, R) \in SUBSET Pairs
BY DEF Paths

LEMMA PathsFollow ==
    ASSUME NEW E, NEW R
    PROVE  Follows(E, Paths(E, R))
<1>1. ASSUME NEW p \in Place, NEW n \in Nodes, NEW k \in Key, NEW m \in Nodes,
             <<p, n>> \in Paths(E, R), <<n, k, m>> \in E
       PROVE <<Deeper(p, k), m>> \in Paths(E, R)
  <2>1. <<Deeper(p, k), m>> \in Pairs
    BY PlaceDeeper DEF Pairs
  <2>2. ASSUME NEW T \in SUBSET Pairs, R \subseteq T, Follows(E, T)
        PROVE  <<Deeper(p, k), m>> \in T
    <3>1. <<p, n>> \in T
      BY <1>1, <2>2 DEF Paths
    <3> QED
      BY <1>1, <2>2, <3>1 DEF Follows
  <2> QED
    BY <2>1, <2>2 DEF Paths
<1> QED
  BY <1>1 DEF Follows

\* Induction on the way to a place.
LEMMA PathsLeast ==
    ASSUME NEW E, NEW R, R \in SUBSET Pairs, NEW T, R \subseteq T,
           \A p \in Place, n \in Nodes, k \in Key, m \in Nodes :
               <<p, n>> \in Paths(E, R) /\ <<p, n>> \in T /\ <<n, k, m>> \in E
                   => <<Deeper(p, k), m>> \in T
    PROVE  Paths(E, R) \subseteq T
<1> DEFINE P == Paths(E, R)
           S == P \cap T
<1>1. R \subseteq P /\ P \in SUBSET Pairs /\ Follows(E, P)
  BY PathsRoots, PathsFollow
<1>2. Follows(E, S)
  <2>1. ASSUME NEW p \in Place, NEW n \in Nodes, NEW k \in Key, NEW m \in Nodes,
               <<p, n>> \in S, <<n, k, m>> \in E
         PROVE <<Deeper(p, k), m>> \in S
    <3>1. <<Deeper(p, k), m>> \in P
      BY <1>1, <2>1 DEF Follows
    <3>2. <<Deeper(p, k), m>> \in T
      BY <2>1
    <3> QED
      BY <3>1, <3>2
  <2> HIDE DEF S
  <2> QED
    BY <2>1 DEF Follows
<1>3. S \in SUBSET Pairs /\ R \subseteq S
  BY <1>1
<1>4. ASSUME NEW w \in P PROVE w \in S
  <2> HIDE DEF S
  <2> QED
    BY <1>2, <1>3 DEF Paths
<1> QED
  BY <1>4

\* The pair is one step from another.
StepsTo(E, R, p, n) ==
    \E q \in Place, o \in Nodes, k \in Key :
        <<q, o>> \in Paths(E, R) /\ <<o, k, n>> \in E /\ p = Deeper(q, k)

\* A pair is a root, or one step from another.
LEMMA PathsFrom ==
    ASSUME NEW E, NEW R, R \in SUBSET Pairs, NEW p \in Place, NEW n \in Nodes,
           <<p, n>> \in Paths(E, R), <<p, n>> \notin R
    PROVE  StepsTo(E, R, p, n)
<1> DEFINE T == {w \in Pairs : w \in R \/ \E q \in Place, o \in Nodes, k \in Key :
                    <<q, o>> \in Paths(E, R) /\ <<o, k, w[2]>> \in E /\ w[1] = Deeper(q, k)}
<1>1. R \subseteq T
  OBVIOUS
<1>2. ASSUME NEW q \in Place, NEW o \in Nodes, NEW k \in Key, NEW m \in Nodes,
             <<q, o>> \in Paths(E, R), <<o, k, m>> \in E
       PROVE <<Deeper(q, k), m>> \in T
  <2>1. <<Deeper(q, k), m>> \in Pairs
    BY PlaceDeeper DEF Pairs
  <2> QED
    BY <1>2, <2>1
<1> HIDE DEF T
<1>3. Paths(E, R) \subseteq T
  BY <1>1, <1>2, PathsLeast
<1>4. <<p, n>> \in T
  BY <1>3
<1> QED
  BY <1>4 DEF T, StepsTo

\* The roots are of one length, which no other place is shorter than.
Rooted(R, l) == R \in SUBSET Pairs /\ \A p \in Place, n \in Nodes : <<p, n>> \in R => Len(p) = l

\* No place is shorter than the roots are.
LEMMA PathsLength ==
    ASSUME NEW E, NEW R, NEW l \in Nat, Rooted(R, l), NEW p \in Place, NEW n \in Nodes,
           <<p, n>> \in Paths(E, R)
    PROVE  Len(p) >= l
<1> DEFINE T == {w \in Pairs : Len(w[1]) >= l}
<1>1. R \in SUBSET Pairs /\ \A q \in Place, o \in Nodes : <<q, o>> \in R => Len(q) = l
  BY DEF Rooted
<1>2. R \subseteq T
  <2>1. ASSUME NEW w \in R PROVE w \in T
    <3>1. PICK q \in Place, o \in Nodes : w = <<q, o>>
      BY <1>1 DEF Pairs
    <3> QED
      BY <1>1, <3>1
  <2> QED
    BY <2>1
<1>3. ASSUME NEW q \in Place, NEW o \in Nodes, NEW k \in Key, NEW m \in Nodes, <<q, o>> \in T
       PROVE <<Deeper(q, k), m>> \in T
  <2>1. Len(q) >= l
    BY <1>3
  <2>2. Len(Deeper(q, k)) >= l /\ <<Deeper(q, k), m>> \in Pairs
    BY <2>1, PlaceDeeper DEF Pairs
  <2> QED
    BY <2>2
<1> HIDE DEF T
<1>4. Paths(E, R) \subseteq T
  BY <1>1, <1>2, <1>3, PathsLeast
<1>5. <<p, n>> \in T
  BY <1>4
<1> QED
  BY <1>5 DEF T

\* A Value holds one Value under an index or a name.
Single(E) == \A n \in Nodes, k \in Key, m \in Nodes, o \in Nodes :
                 <<n, k, m>> \in E /\ <<n, k, o>> \in E => m = o

\* There is one Value in a place.
LEMMA PathsSingle ==
    ASSUME NEW E, Single(E), NEW R, NEW l \in Nat, Rooted(R, l),
           \A p \in Place, n \in Nodes, m \in Nodes : <<p, n>> \in R /\ <<p, m>> \in R => n = m,
           NEW p \in Place, NEW n \in Nodes, NEW m \in Nodes,
           <<p, n>> \in Paths(E, R), <<p, m>> \in Paths(E, R)
    PROVE  n = m
<1> DEFINE P == Paths(E, R)
           T == {w \in Pairs : \A o \in Nodes : <<w[1], o>> \in P => o = w[2]}
<1>1. R \in SUBSET Pairs /\ \A q \in Place, o \in Nodes : <<q, o>> \in R => Len(q) = l
  BY DEF Rooted
<1>0. ASSUME NEW q \in Place, NEW o \in Nodes, <<q, o>> \in P, <<q, o>> \notin R
       PROVE  \E q1 \in Place, o1 \in Nodes, k \in Key :
                  <<q1, o1>> \in P /\ <<o1, k, o>> \in E /\ q = Deeper(q1, k)
  <2>1. R \in SUBSET Pairs
    BY DEF Rooted
  <2> QED
    <3>1. StepsTo(E, R, q, o)
      BY <1>0, <2>1, PathsFrom
    <3> QED
      BY <3>1 DEF StepsTo
<1>2. ASSUME NEW q \in Place, NEW o \in Nodes, <<q, o>> \in R PROVE <<q, o>> \in T
  <2>1. ASSUME NEW o2 \in Nodes, <<q, o2>> \in P PROVE o2 = o
    <3>1. ASSUME <<q, o2>> \notin R PROVE FALSE
      <4>1. PICK q1 \in Place, o1 \in Nodes, k \in Key :
                   <<q1, o1>> \in P /\ <<o1, k, o2>> \in E /\ q = Deeper(q1, k)
        BY <1>0, <2>1, <3>1
      <4>2. Len(q1) >= l /\ Len(q) = l /\ Len(q) = Len(q1) + 1 /\ Len(q1) \in Nat
        BY <1>1, <1>2, <4>1, PathsLength, PlaceDeeper
      <4> QED
        BY <4>2
    <3> QED
      BY <1>2, <3>1
  <2>2. <<q, o>> \in Pairs
    BY DEF Pairs
  <2> HIDE DEF P
  <2> QED
    BY <2>1, <2>2
<1>3. R \subseteq T
  <2>1. ASSUME NEW w \in R PROVE w \in T
    <3>1. PICK q \in Place, o \in Nodes : w = <<q, o>>
      BY <1>1 DEF Pairs
    <3> HIDE DEF T
    <3> QED
      BY <1>2, <3>1
  <2> QED
    BY <2>1
<1>4. ASSUME NEW q \in Place, NEW o \in Nodes, NEW k \in Key, NEW o2 \in Nodes,
             <<q, o>> \in P, <<q, o>> \in T, <<o, k, o2>> \in E
       PROVE <<Deeper(q, k), o2>> \in T
  <2>1. ASSUME NEW o3 \in Nodes, <<Deeper(q, k), o3>> \in P PROVE o3 = o2
    <3>0. Deeper(q, k) \in Place
      BY PlaceDeeper
    <3>1. ASSUME <<Deeper(q, k), o3>> \in R PROVE FALSE
      <4>1. Len(q) >= l /\ Len(Deeper(q, k)) = l /\ Len(Deeper(q, k)) = Len(q) + 1 /\ Len(q) \in Nat
        BY <1>1, <1>4, <3>0, <3>1, PathsLength, PlaceDeeper
      <4> QED
        BY <4>1
    <3>2. PICK q1 \in Place, o1 \in Nodes, k1 \in Key :
                   <<q1, o1>> \in P /\ <<o1, k1, o3>> \in E /\ Deeper(q, k) = Deeper(q1, k1)
      BY <1>0, <2>1, <3>0, <3>1
    <3>3. q1 = q /\ k1 = k
      BY <3>2, DeeperSame
    <3>4. o1 = o
      BY <1>4, <3>2, <3>3
    <3> QED
      BY <1>4, <3>2, <3>3, <3>4 DEF Single
  <2>2. <<Deeper(q, k), o2>> \in Pairs
    BY PlaceDeeper DEF Pairs
  <2> HIDE DEF P
  <2> QED
    BY <2>1, <2>2
<1> HIDE DEF T
<1>5. P \subseteq T
  BY <1>1, <1>3, <1>4, PathsLeast
<1>6. <<p, m>> \in T
  BY <1>5
<1> QED
  BY <1>6 DEF T

\* On from a place the way is that of the Value there.
LEMMA PathsOn ==
    ASSUME NEW E, NEW R, R \in SUBSET Pairs, NEW p \in Place, NEW n \in Nodes, <<p, n>> \in Paths(E, R),
           NEW r \in Place, NEW m \in Nodes, <<r, m>> \in From(E, n)
    PROVE  <<Join(p, r), m>> \in Paths(E, R)
<1> DEFINE P == Paths(E, R)
           T == {w \in Pairs : <<Join(p, w[1]), w[2]>> \in P}
           O == {<<<<>>, n>>}
<1>1. O \in SUBSET Pairs
  BY PlaceEmpty DEF Pairs
<1>2. O \subseteq T
  BY <1>1, JoinEmpty
<1>3. ASSUME NEW q \in Place, NEW o \in Nodes, NEW k \in Key, NEW o2 \in Nodes,
             <<q, o>> \in T, <<o, k, o2>> \in E
       PROVE <<Deeper(q, k), o2>> \in T
  <2>1. <<Join(p, q), o>> \in P
    BY <1>3
  <2>2. Join(p, q) \in Place
    BY PlaceJoin
  <2>3. <<Deeper(Join(p, q), k), o2>> \in P
    BY <1>3, <2>1, <2>2, PathsFollow DEF Follows
  <2>4. <<Join(p, Deeper(q, k)), o2>> \in P
    BY <2>3, JoinDeeper
  <2>5. <<Deeper(q, k), o2>> \in Pairs
    BY PlaceDeeper DEF Pairs
  <2> QED
    BY <2>4, <2>5
<1> HIDE DEF T
<1>4. Paths(E, O) \subseteq T
  <2> HIDE DEF O
  <2> QED
    BY <1>1, <1>2, <1>3, PathsLeast
<1>5. <<r, m>> \in T
  BY <1>4 DEF From
<1> QED
  BY <1>5 DEF T

\* One Value is a root, at the empty place.
LEMMA FromRooted ==
    ASSUME NEW n \in Nodes
    PROVE  /\ Rooted({<<<<>>, n>>}, 0)
           /\ {<<<<>>, n>>} \in SUBSET Pairs
BY PlaceEmpty DEF Rooted, Pairs

\* What is at a place in a place is in the Value there.
LEMMA PathsWithin ==
    ASSUME NEW E, Single(E), NEW R, NEW l \in Nat, Rooted(R, l),
           \A p \in Place, n \in Nodes, m \in Nodes : <<p, n>> \in R /\ <<p, m>> \in R => n = m,
           NEW p \in Place, NEW n \in Nodes, <<p, n>> \in Paths(E, R),
           NEW r \in Place, NEW m \in Nodes, <<Join(p, r), m>> \in Paths(E, R)
    PROVE  <<r, m>> \in From(E, n)
<1> DEFINE P == Paths(E, R)
           T == {w \in Pairs : \A s \in Place : w[1] = Join(p, s) => <<s, w[2]>> \in From(E, n)}
           O == {<<<<>>, n>>}
<1>1. R \in SUBSET Pairs /\ \A q \in Place, o \in Nodes : <<q, o>> \in R => Len(q) = l
  BY DEF Rooted
<1>2. O \in SUBSET Pairs /\ <<<<>>, n>> \in From(E, n) /\ Follows(E, From(E, n))
  BY FromRooted, PathsRoots, PathsFollow DEF From
<1>3. ASSUME NEW o \in Nodes, <<p, o>> \in P PROVE <<<<>>, o>> \in From(E, n)
  <2>1. o = n
    BY <1>3, PathsSingle
  <2> QED
    BY <1>2, <2>1
<1>4. ASSUME NEW q \in Place, NEW o \in Nodes, <<q, o>> \in R PROVE <<q, o>> \in T
  <2>1. ASSUME NEW s \in Place, q = Join(p, s) PROVE <<s, o>> \in From(E, n)
    <3>1. Len(q) = l /\ Len(p) >= l /\ Len(q) = Len(p) + Len(s) /\ Len(s) \in Nat /\ Len(p) \in Nat
      <4>1. Len(s) \in Nat /\ Len(p) \in Nat
        BY DEF Place
      <4> QED
        BY <1>1, <1>4, <2>1, <4>1, PathsLength, PlaceJoin
    <3>2. Len(s) = 0
      BY <3>1
    <3>3. s = <<>>
      BY <3>2, EmptySeq DEF Place
    <3>4. q = p /\ <<p, o>> \in P
      BY <1>1, <1>4, <2>1, <3>3, JoinEmpty, PathsRoots
    <3> QED
      BY <1>3, <3>3, <3>4
  <2>2. <<q, o>> \in Pairs
    BY DEF Pairs
  <2> QED
    BY <2>1, <2>2
<1>5. R \subseteq T
  <2>1. ASSUME NEW w \in R PROVE w \in T
    <3>1. PICK q \in Place, o \in Nodes : w = <<q, o>>
      BY <1>1 DEF Pairs
    <3> HIDE DEF T
    <3> QED
      BY <1>4, <3>1
  <2> QED
    BY <2>1
<1>6. ASSUME NEW q \in Place, NEW o \in Nodes, NEW k \in Key, NEW o2 \in Nodes,
             <<q, o>> \in P, <<q, o>> \in T, <<o, k, o2>> \in E
       PROVE <<Deeper(q, k), o2>> \in T
  <2>1. ASSUME NEW s \in Place, Deeper(q, k) = Join(p, s) PROVE <<s, o2>> \in From(E, n)
    <3>1. CASE s = <<>>
      <4>1. Deeper(q, k) = p
        BY <2>1, <3>1, JoinEmpty
      <4>2. <<p, o2>> \in P
        BY <1>6, <4>1, PathsFollow DEF Follows
      <4> QED
        BY <1>3, <3>1, <4>2
    <3>2. CASE s # <<>>
      <4>1. PICK s1 \in Place, j \in Key : s = Deeper(s1, j)
        BY <3>2, DeeperOf
      <4>2. Deeper(q, k) = Deeper(Join(p, s1), j) /\ Join(p, s1) \in Place
        BY <2>1, <4>1, JoinDeeper, PlaceJoin
      <4>3. q = Join(p, s1) /\ k = j
        BY <4>2, DeeperSame
      <4>4. <<s1, o>> \in From(E, n)
        BY <1>6, <4>3
      <4> QED
        BY <1>2, <1>6, <4>1, <4>3, <4>4 DEF Follows
    <3> QED
      BY <3>1, <3>2
  <2>2. <<Deeper(q, k), o2>> \in Pairs
    BY PlaceDeeper DEF Pairs
  <2> QED
    BY <2>1, <2>2
<1> HIDE DEF T
<1>7. P \subseteq T
  BY <1>1, <1>5, <1>6, PathsLeast
<1>8. <<Join(p, r), m>> \in T
  BY <1>7
<1> QED
  BY <1>8 DEF T

-----------------------------------------------------------------------------
(* What is not in some places, and copies. *)

\* Not in any of the places X.
Outside(X, p) == \A x \in X : ~Holds(x, p)

\* One step further is outside, unless it is the place itself.
LEMMA OutsideDeeper ==
    ASSUME NEW X \in SUBSET Place, NEW p \in Place, NEW k \in Key
    PROVE  Outside(X, Deeper(p, k)) <=> Outside(X, p) /\ Deeper(p, k) \notin X
BY HoldsDeeper DEF Outside

\* Outside of X, and apart from what leads to X, the arcs E and E2 are the same.
Agree(E, E2, R, X) ==
    \A p \in Place, n \in Nodes, k \in Key, m \in Nodes :
        <<p, n>> \in Paths(E, R) /\ Outside(X, p) /\ Deeper(p, k) \notin X
            => (<<n, k, m>> \in E <=> <<n, k, m>> \in E2)

\* Then the same is there.
LEMMA PathsOutside ==
    ASSUME NEW E, NEW E2, NEW R, R \in SUBSET Pairs, NEW X \in SUBSET Place, Agree(E, E2, R, X),
           NEW p \in Place, NEW n \in Nodes, Outside(X, p)
    PROVE  <<p, n>> \in Paths(E, R) <=> <<p, n>> \in Paths(E2, R)
<1> DEFINE P == Paths(E, R)
           P2 == Paths(E2, R)
           T == {w \in Pairs : Outside(X, w[1]) => w \in P2}
           T2 == {w \in Pairs : Outside(X, w[1]) => w \in P}
<1>1. R \subseteq P /\ R \subseteq P2 /\ Follows(E, P) /\ Follows(E2, P2)
  BY PathsRoots, PathsFollow
<1> HIDE DEF P, P2
<1>2. ASSUME NEW q \in Place, NEW o \in Nodes, NEW k \in Key, NEW m \in Nodes,
             <<q, o>> \in P, <<q, o>> \in T, <<o, k, m>> \in E
       PROVE <<Deeper(q, k), m>> \in T
  <2>1. ASSUME Outside(X, Deeper(q, k)) PROVE <<Deeper(q, k), m>> \in P2
    <3>1. Outside(X, q) /\ Deeper(q, k) \notin X
      BY <2>1, OutsideDeeper
    <3>2. <<o, k, m>> \in E2
      BY <1>2, <3>1 DEF Agree, P
    <3> QED
      BY <1>1, <1>2, <3>1, <3>2 DEF Follows
  <2>2. <<Deeper(q, k), m>> \in Pairs
    BY PlaceDeeper DEF Pairs
  <2> QED
    BY <2>1, <2>2
<1>3. ASSUME NEW q \in Place, NEW o \in Nodes, NEW k \in Key, NEW m \in Nodes,
             <<q, o>> \in P2, <<q, o>> \in T2, <<o, k, m>> \in E2
       PROVE <<Deeper(q, k), m>> \in T2
  <2>1. ASSUME Outside(X, Deeper(q, k)) PROVE <<Deeper(q, k), m>> \in P
    <3>1. Outside(X, q) /\ Deeper(q, k) \notin X
      BY <2>1, OutsideDeeper
    <3>2. <<q, o>> \in P
      BY <1>3, <3>1
    <3>3. <<o, k, m>> \in E
      BY <1>3, <3>1, <3>2 DEF Agree, P
    <3> QED
      BY <1>1, <3>2, <3>3 DEF Follows
  <2>2. <<Deeper(q, k), m>> \in Pairs
    BY PlaceDeeper DEF Pairs
  <2> QED
    BY <2>1, <2>2
<1>4. R \subseteq T /\ R \subseteq T2
  BY <1>1
<1> HIDE DEF T, T2
<1>5. Paths(E, R) \subseteq T
  BY <1>2, <1>4, PathsLeast DEF P
<1>6. Paths(E2, R) \subseteq T2
  BY <1>3, <1>4, PathsLeast DEF P2
<1>7. <<p, n>> \in P => <<p, n>> \in P2
  BY <1>5 DEF T, P
<1>8. <<p, n>> \in P2 => <<p, n>> \in P
  BY <1>6 DEF T2, P2
<1> QED
  BY <1>7, <1>8 DEF P, P2

\* What n holds in E is in E2 copied to g, and no more.
Copied(E, E2, n, g) ==
    \A r \in Place, o \in Nodes : <<r, o>> \in From(E, n) =>
        /\ g[o] \in Nodes
        /\ \A k \in Key, m \in Nodes : <<o, k, m>> \in E => <<g[o], k, g[m]>> \in E2
        /\ \A k \in Key, m \in Nodes : <<g[o], k, m>> \in E2 =>
              \E o2 \in Nodes : m = g[o2] /\ <<o, k, o2>> \in E

\* A Value holds itself, and all that the arcs lead to.
LEMMA FromFacts ==
    ASSUME NEW E, NEW n \in Nodes
    PROVE  <<<<>>, n>> \in From(E, n) /\ Follows(E, From(E, n)) /\ From(E, n) \in SUBSET Pairs
BY FromRooted, PathsRoots, PathsFollow DEF From

\* Induction for what a Value holds.
LEMMA FromLeast ==
    ASSUME NEW E, NEW n \in Nodes, NEW T, <<<<>>, n>> \in T,
           \A p \in Place, o \in Nodes, k \in Key, m \in Nodes :
               <<p, o>> \in From(E, n) /\ <<p, o>> \in T /\ <<o, k, m>> \in E
                   => <<Deeper(p, k), m>> \in T
    PROVE  From(E, n) \subseteq T
<1> DEFINE O == {<<<<>>, n>>}
<1>1. O \in SUBSET Pairs
  BY FromRooted
<1>2. O \subseteq T
  OBVIOUS
<1> HIDE DEF O
<1>3. From(E, n) = Paths(E, O)
  BY DEF From, O
<1> QED
  BY <1>1, <1>2, <1>3, PathsLeast

\* The copy has at each place the copy of what is there.
LEMMA FromCopied ==
    ASSUME NEW E, NEW E2, NEW n \in Nodes, NEW g, Copied(E, E2, n, g),
           NEW r \in Place, NEW o \in Nodes, <<r, o>> \in From(E, n)
    PROVE  <<r, g[o]>> \in From(E2, g[n])
<1> DEFINE T == {w \in Pairs : <<w[1], g[w[2]]>> \in From(E2, g[n])}
<1>1. g[n] \in Nodes
  BY FromFacts, PlaceEmpty DEF Copied
<1>2. <<<<>>, n>> \in T
  BY <1>1, FromFacts
<1>3. ASSUME NEW p \in Place, NEW q \in Nodes, NEW k \in Key, NEW m \in Nodes,
             <<p, q>> \in From(E, n), <<p, q>> \in T, <<q, k, m>> \in E
       PROVE <<Deeper(p, k), m>> \in T
  <2>1. g[q] \in Nodes /\ <<g[q], k, g[m]>> \in E2
    BY <1>3 DEF Copied
  <2>2. <<Deeper(p, k), m>> \in From(E, n) /\ Deeper(p, k) \in Place
    BY <1>3, FromFacts, PlaceDeeper DEF Follows
  <2>3. g[m] \in Nodes
    BY <2>2 DEF Copied
  <2>4. <<Deeper(p, k), g[m]>> \in From(E2, g[n])
    BY <1>1, <1>3, <2>1, <2>3, FromFacts DEF Follows
  <2> QED
    BY <2>2, <2>4 DEF Pairs
<1> HIDE DEF T
<1>4. From(E, n) \subseteq T
  BY <1>2, <1>3, FromLeast
<1>5. <<r, o>> \in T
  BY <1>4
<1> QED
  BY <1>5 DEF T

\* What is at r within n has been copied to m.
HasCopy(E, n, g, r, m) == \E o \in Nodes : m = g[o] /\ <<r, o>> \in From(E, n)

\* Whatever a copy holds is a copy of what the original holds there.
LEMMA CopiedFrom ==
    ASSUME NEW E, NEW E2, NEW n \in Nodes, NEW g, Copied(E, E2, n, g),
           NEW r \in Place, NEW m \in Nodes, <<r, m>> \in From(E2, g[n])
    PROVE  HasCopy(E, n, g, r, m)
<1> DEFINE T == {w \in Pairs : \E o \in Nodes : w[2] = g[o] /\ <<w[1], o>> \in From(E, n)}
<1>1. g[n] \in Nodes
  BY FromFacts, PlaceEmpty DEF Copied
<1>2. <<<<>>, g[n]>> \in T
  BY <1>1, FromFacts, PlaceEmpty DEF Pairs
<1>3. ASSUME NEW p \in Place, NEW q \in Nodes, NEW k \in Key, NEW x \in Nodes,
             <<p, q>> \in T, <<q, k, x>> \in E2
       PROVE <<Deeper(p, k), x>> \in T
  <2>1. PICK o \in Nodes : q = g[o] /\ <<p, o>> \in From(E, n)
    BY <1>3
  <2>2. PICK o2 \in Nodes : x = g[o2] /\ <<o, k, o2>> \in E
    BY <1>3, <2>1 DEF Copied
  <2>3. <<Deeper(p, k), o2>> \in From(E, n)
    BY <2>1, <2>2, FromFacts DEF Follows
  <2>4. <<Deeper(p, k), x>> \in Pairs
    BY PlaceDeeper DEF Pairs
  <2> QED
    BY <2>2, <2>3, <2>4
<1> HIDE DEF T
<1>4. From(E2, g[n]) \subseteq T
  BY <1>1, <1>2, <1>3, FromLeast
<1>5. <<r, m>> \in T
  BY <1>4
<1> QED
  BY <1>5 DEF T, HasCopy

\* A Value that holds nothing.
LEMMA FromEmpty ==
    ASSUME NEW E, NEW n \in Nodes, \A k \in Key, m \in Nodes : <<n, k, m>> \notin E
    PROVE  From(E, n) = {<<<<>>, n>>}
<1> DEFINE T == {<<<<>>, n>>}
<1>1. ASSUME NEW p \in Place, NEW o \in Nodes, NEW k \in Key, NEW m \in Nodes,
             <<p, o>> \in T, <<o, k, m>> \in E
       PROVE <<Deeper(p, k), m>> \in T
  BY <1>1
<1>2. <<<<>>, n>> \in T
  OBVIOUS
<1> HIDE DEF T
<1>3. From(E, n) \subseteq T
  BY <1>1, <1>2, FromLeast
<1> QED
  BY <1>3, FromFacts DEF T

\* The first step of a place is that of places further on.
LEMMA HeadDeeper ==
    ASSUME NEW p \in Place, NEW k \in Key
    PROVE  /\ p = <<>> => Head(Deeper(p, k)) = k
           /\ p # <<>> => Head(Deeper(p, k)) = Head(p)
           /\ Deeper(p, k) # <<>>
<1>1. p \in Seq(Key)
  BY DEF Place
<1>2. p # <<>> => Len(p) > 0
  BY <1>1, EmptySeq
<1> QED
  BY <1>1, <1>2 DEF Deeper

\* Only what n holds under I is left: within it, what begins so.
LEMMA FromFirst ==
    ASSUME NEW E, NEW E2, NEW n \in Nodes, NEW I,
           \A k \in Key, m \in Nodes : <<n, k, m>> \in E2 <=> <<n, k, m>> \in E /\ k \in I,
           \A o \in Nodes, k \in Key, m \in Nodes : o # n => (<<o, k, m>> \in E2 <=> <<o, k, m>> \in E),
           \A r \in Place : <<r, n>> \in From(E, n) => r = <<>>,
           NEW r \in Place, NEW o \in Nodes
    PROVE  <<r, o>> \in From(E2, n) <=> <<r, o>> \in From(E, n) /\ (r = <<>> \/ Head(r) \in I)
<1> DEFINE T == {w \in Pairs : w \in From(E, n) /\ (w[1] = <<>> \/ Head(w[1]) \in I)}
           T2 == {w \in Pairs : (w[1] = <<>> \/ Head(w[1]) \in I) => w \in From(E2, n)}
<1>1. <<<<>>, n>> \in T /\ <<<<>>, n>> \in T2
  BY FromFacts
<1>2. ASSUME NEW p \in Place, NEW q \in Nodes, NEW k \in Key, NEW m \in Nodes,
             <<p, q>> \in T, <<q, k, m>> \in E2
       PROVE <<Deeper(p, k), m>> \in T
  <2>1. <<q, k, m>> \in E /\ (q = n => k \in I)
    BY <1>2
  <2>2. <<Deeper(p, k), m>> \in From(E, n)
    BY <1>2, <2>1, FromFacts DEF Follows
  <2>3. ASSUME p = <<>> PROVE q = n
    <3>1. <<p, q>> \in From(E, n)
      BY <1>2
    <3>2. <<<<>>, q>> \in Paths(E, {<<<<>>, n>>})
      BY <2>3, <3>1 DEF From
    <3>3. ASSUME q # n PROVE FALSE
      <4>1. {<<<<>>, n>>} \in SUBSET Pairs
        BY FromRooted
      <4>2. <<<<>>, q>> \notin {<<<<>>, n>>}
        BY <3>3
      <4>3. StepsTo(E, {<<<<>>, n>>}, <<>>, q)
        BY <3>2, <4>1, <4>2, PlaceEmpty, PathsFrom
      <4> QED
        BY <4>3, HeadDeeper DEF StepsTo
    <3> QED
      BY <3>3
  <2>4. Head(Deeper(p, k)) \in I
    <3>1. CASE p = <<>>
      BY <2>1, <2>3, <3>1, HeadDeeper
    <3>2. CASE p # <<>>
      BY <1>2, <3>2, HeadDeeper
    <3> QED
      BY <3>1, <3>2
  <2> QED
    BY <2>2, <2>4, PlaceDeeper DEF Pairs
<1>3. ASSUME NEW p \in Place, NEW q \in Nodes, NEW k \in Key, NEW m \in Nodes,
             <<p, q>> \in From(E, n), <<p, q>> \in T2, <<q, k, m>> \in E
       PROVE <<Deeper(p, k), m>> \in T2
  <2>1. ASSUME Head(Deeper(p, k)) \in I PROVE <<Deeper(p, k), m>> \in From(E2, n)
    <3>1. p = <<>> \/ Head(p) \in I
      BY <2>1, HeadDeeper
    <3>2. <<p, q>> \in From(E2, n)
      BY <1>3, <3>1
    <3>3. ASSUME q = n PROVE k \in I
      <4>1. p = <<>>
        BY <1>3, <3>3
      <4> QED
        BY <2>1, <4>1, HeadDeeper
    <3>4. <<q, k, m>> \in E2
      BY <1>3, <3>3
    <3> QED
      BY <3>2, <3>4, FromFacts DEF Follows
  <2>2. Deeper(p, k) # <<>> /\ <<Deeper(p, k), m>> \in Pairs
    BY HeadDeeper, PlaceDeeper DEF Pairs
  <2> QED
    BY <2>1, <2>2
<1> HIDE DEF T, T2
<1>4. From(E2, n) \subseteq T
  BY <1>1, <1>2, FromLeast
<1>5. From(E, n) \subseteq T2
  BY <1>1, <1>3, FromLeast
<1>6. <<r, o>> \in From(E2, n) => <<r, o>> \in From(E, n) /\ (r = <<>> \/ Head(r) \in I)
  BY <1>4 DEF T
<1>7. <<r, o>> \in From(E, n) /\ (r = <<>> \/ Head(r) \in I) => <<r, o>> \in From(E2, n)
  BY <1>5 DEF T2
<1> QED
  BY <1>6, <1>7

-----------------------------------------------------------------------------
(* The places of variables: the pointers are a forest, so each Value has one. *)

\* The variables are at places of their own.
Start == {<<<<v>>, v>> : v \in Variables}

\* They are roots, one for each variable.
LEMMA StartFacts ==
    /\ Rooted(Start, 1) /\ Start \in SUBSET Pairs
    /\ \A p \in Place, n \in Nodes, m \in Nodes : <<p, n>> \in Start /\ <<p, m>> \in Start => n = m
    /\ \A p \in Place, q \in Place, n \in Nodes : <<p, n>> \in Start /\ <<q, n>> \in Start => p = q
<1>1. ASSUME NEW v \in Variables PROVE <<v>> \in Place /\ Len(<<v>>) = 1
  BY DEF Place, Key
<1>2. Start \in SUBSET Pairs
  BY <1>1 DEF Start, Pairs, Nodes
<1>3. ASSUME NEW p \in Place, NEW n \in Nodes, <<p, n>> \in Start PROVE n \in Variables /\ p = <<n>>
  BY <1>3 DEF Start
<1> QED
  BY <1>1, <1>2, <1>3 DEF Rooted

\* The arcs E are the pointers K, with an index or a name for each.
Drawn(E, K) ==
    /\ \A n \in Nodes, m \in Nodes : m \in K[n] <=> \E k \in Key : <<n, k, m>> \in E
    /\ \A n \in Nodes, k \in Key, j \in Key, m \in Nodes : <<n, k, m>> \in E /\ <<n, j, m>> \in E => k = j
    /\ Single(E)

\* What is in a place lives.
LEMMA PlacesLive ==
    ASSUME NEW E, NEW K, NEW L, NEW X, Forest(K, L, X), Drawn(E, K),
           NEW p \in Place, NEW n \in Nodes, <<p, n>> \in Paths(E, Start)
    PROVE  n \in L
<1> DEFINE T == {w \in Pairs : w[2] \in L}
<1>1. Start \subseteq T
  <2>1. ASSUME NEW v \in Variables PROVE <<<<v>>, v>> \in T
    BY StartFacts DEF Start, Forest
  <2> QED
    BY <2>1 DEF Start
<1>2. ASSUME NEW q \in Place, NEW o \in Nodes, NEW k \in Key, NEW m \in Nodes,
             <<q, o>> \in T, <<o, k, m>> \in E
       PROVE <<Deeper(q, k), m>> \in T
  <2>1. m \in K[o] /\ o \in L
    BY <1>2 DEF Drawn
  <2>2. m \in L
    BY <2>1 DEF Forest
  <2> QED
    BY <2>2, PlaceDeeper DEF Pairs
<1> HIDE DEF T
<1>3. Paths(E, Start) \subseteq T
  BY <1>1, <1>2, StartFacts, PathsLeast
<1>4. <<p, n>> \in T
  BY <1>3
<1> QED
  BY <1>4 DEF T

\* A Value is in one place.
LEMMA OnePlace ==
    ASSUME NEW E, NEW K, NEW L, NEW X, Forest(K, L, X), Drawn(E, K),
           NEW p \in Place, NEW q \in Place, NEW n \in Nodes,
           <<p, n>> \in Paths(E, Start), <<q, n>> \in Paths(E, Start)
    PROVE  p = q
<1> DEFINE P == Paths(E, Start)
           T == {w \in Pairs : \A s \in Place : <<s, w[2]>> \in P => s = w[1]}
<1>1. ASSUME NEW s \in Place, NEW o \in Nodes, <<s, o>> \in P, <<s, o>> \notin Start
       PROVE  \E q1 \in Place, o1 \in Nodes, k \in Key :
                  <<q1, o1>> \in P /\ <<o1, k, o>> \in E /\ s = Deeper(q1, k)
  <2>1. StepsTo(E, Start, s, o)
    BY <1>1, StartFacts, PathsFrom
  <2> QED
    BY <2>1 DEF StepsTo
<1>2. ASSUME NEW o \in Nodes, NEW k \in Key, NEW m \in Nodes, <<o, k, m>> \in E
       PROVE  m \in Heap /\ m \in K[o]
  <2>1. m \in K[o] /\ K[o] \subseteq Heap
    BY <1>2 DEF Drawn, Forest
  <2> QED
    BY <2>1
<1>3. ASSUME NEW s \in Place, NEW o \in Nodes, <<s, o>> \in Start PROVE o \notin Heap
  BY <1>3, ValueAssumption DEF Start
<1> HIDE DEF P
<1>4. ASSUME NEW v \in Variables PROVE <<<<v>>, v>> \in T
  <2>1. <<<<v>>, v>> \in Start /\ <<<<v>>, v>> \in Pairs /\ <<v>> \in Place
    BY StartFacts DEF Start, Pairs, Place, Key, Nodes
  <2>2. ASSUME NEW s \in Place, <<s, v>> \in P PROVE s = <<v>>
    <3>1. <<s, v>> \in Start
      <4>1. v \in Nodes /\ v \notin Heap
        BY ValueAssumption DEF Nodes
      <4> QED
        BY <1>1, <1>2, <2>2, <4>1
    <3>2. v \in Nodes
      BY DEF Nodes
    <3> QED
      BY <2>1, <3>1, <3>2, StartFacts
  <2> QED
    BY <2>1, <2>2
<1>5. ASSUME NEW s \in Place, NEW o \in Nodes, NEW k \in Key, NEW m \in Nodes,
             <<s, o>> \in P, <<s, o>> \in T, <<o, k, m>> \in E
       PROVE <<Deeper(s, k), m>> \in T
  <2>1. ASSUME NEW s2 \in Place, <<s2, m>> \in P PROVE s2 = Deeper(s, k)
    <3>1. <<s2, m>> \notin Start
      BY <1>2, <1>3, <1>5
    <3>2. PICK q1 \in Place, o1 \in Nodes, j \in Key :
                 <<q1, o1>> \in P /\ <<o1, j, m>> \in E /\ s2 = Deeper(q1, j)
      BY <1>1, <2>1, <3>1
    <3>3. o \in L /\ o1 \in L /\ m \in K[o] /\ m \in K[o1]
      BY <1>2, <1>5, <3>2, PlacesLive DEF P
    <3>4. o1 = o
      BY <3>3 DEF Forest
    <3>5. j = k
      BY <1>5, <3>2, <3>4 DEF Drawn
    <3>6. q1 = s
      BY <1>5, <3>2, <3>4
    <3> QED
      BY <3>2, <3>5, <3>6
  <2> QED
    BY <2>1, PlaceDeeper DEF Pairs
<1> HIDE DEF T
<1>6. Start \subseteq T
  BY <1>4 DEF Start
<1>7. P \subseteq T
  BY <1>5, <1>6, StartFacts, PathsLeast DEF P
<1>8. <<p, n>> \in T
  BY <1>7 DEF P
<1> QED
  BY <1>8 DEF T, P

\* What a Value leads to is under it, at places not empty.
LEMMA FromUnder ==
    ASSUME NEW E, NEW K \in [Nodes -> SUBSET Heap], Drawn(E, K), NEW n \in Nodes,
           NEW r \in Place, NEW m \in Nodes, <<r, m>> \in From(E, n)
    PROVE  \/ r = <<>> /\ m = n
           \/ r # <<>> /\ m \in Under(K, {n})
<1> DEFINE T == {w \in Pairs : w = <<<<>>, n>> \/ (w[1] # <<>> /\ w[2] \in Under(K, {n}))}
<1>1. <<<<>>, n>> \in T
  BY PlaceEmpty DEF Pairs
<1>2. ASSUME NEW q \in Place, NEW o \in Nodes, NEW k \in Key, NEW x \in Nodes,
             <<q, o>> \in T, <<o, k, x>> \in E
       PROVE <<Deeper(q, k), x>> \in T
  <2>1. x \in K[o] /\ o \in {n} \cup Under(K, {n}) /\ K[o] \subseteq Heap
    BY <1>2 DEF Drawn
  <2>2. x \in Under(K, {n})
    BY <2>1, UnderClosed
  <2> QED
    BY <2>2, PlaceDeeper, HeadDeeper DEF Pairs
<1> HIDE DEF T
<1>3. From(E, n) \subseteq T
  BY <1>1, <1>2, FromLeast
<1>4. <<r, m>> \in T
  BY <1>3
<1> QED
  BY <1>4 DEF T

\* And what is under it is in one of them.
LEMMA UnderIsFrom ==
    ASSUME NEW E, NEW K \in [Nodes -> SUBSET Heap], Drawn(E, K), NEW n \in Nodes,
           NEW m \in Under(K, {n})
    PROVE  \E r \in Place : <<r, m>> \in From(E, n)
<1> DEFINE T == {x \in Heap : \E r \in Place : <<r, x>> \in From(E, n)}
<1>1. ASSUME NEW o \in {n} \cup T PROVE K[o] \subseteq T
  <2>1. o \in Nodes
    BY DEF Nodes
  <2>2. PICK r \in Place : <<r, o>> \in From(E, n)
    BY FromFacts, PlaceEmpty
  <2>3. ASSUME NEW x \in K[o] PROVE x \in T
    <3>1. x \in Heap /\ x \in Nodes
      BY <2>1 DEF Nodes
    <3>2. PICK k \in Key : <<o, k, x>> \in E
      BY <2>1, <3>1 DEF Drawn
    <3>3. <<Deeper(r, k), x>> \in From(E, n) /\ Deeper(r, k) \in Place
      BY <2>1, <2>2, <3>1, <3>2, FromFacts, PlaceDeeper DEF Follows
    <3> QED
      BY <3>1, <3>3
  <2> QED
    BY <2>3
<1>2. T \in SUBSET Heap
  OBVIOUS
<1> HIDE DEF T
<1>3. Under(K, {n}) \subseteq T
  BY <1>1, <1>2, UnderLeast
<1> QED
  BY <1>3 DEF T

\* What can be named is in a place.
LEMMA ReachedPlace ==
    ASSUME NEW E, NEW K \in [Nodes -> SUBSET Heap], Drawn(E, K),
           NEW n \in Variables \cup Under(K, Variables)
    PROVE  \E p \in Place : <<p, n>> \in Paths(E, Start)
<1> DEFINE T == {x \in Heap : \E r \in Place : <<r, x>> \in Paths(E, Start)}
<1>0. Follows(E, Paths(E, Start)) /\ Start \subseteq Paths(E, Start)
  BY StartFacts, PathsRoots, PathsFollow
<1>1. ASSUME NEW v \in Variables PROVE <<v>> \in Place /\ <<<<v>>, v>> \in Paths(E, Start)
  BY <1>0 DEF Start, Place, Key
<1>2. ASSUME NEW o \in Variables \cup T PROVE K[o] \subseteq T
  <2>1. o \in Nodes
    BY DEF Nodes
  <2>2. PICK r \in Place : <<r, o>> \in Paths(E, Start)
    BY <1>1
  <2>3. ASSUME NEW x \in K[o] PROVE x \in T
    <3>1. x \in Heap /\ x \in Nodes
      BY <2>1 DEF Nodes
    <3>2. PICK k \in Key : <<o, k, x>> \in E
      BY <2>1, <3>1 DEF Drawn
    <3>3. <<Deeper(r, k), x>> \in Paths(E, Start) /\ Deeper(r, k) \in Place
      BY <1>0, <2>1, <2>2, <3>1, <3>2, PlaceDeeper DEF Follows
    <3> QED
      BY <3>1, <3>3
  <2> QED
    BY <2>3
<1>3. T \in SUBSET Heap
  OBVIOUS
<1> HIDE DEF T
<1>4. Under(K, Variables) \subseteq T
  BY <1>2, <1>3, UnderLeast
<1> QED
  BY <1>1, <1>4 DEF T

\* What is in the place of a Value is the Value and what is under it.
LEMMA HeldIsWithin ==
    ASSUME NEW E, NEW K, NEW L, NEW X, Forest(K, L, X), Drawn(E, K),
           NEW x \in Place, NEW n \in Nodes, <<x, n>> \in Paths(E, Start),
           NEW p \in Place, NEW m \in Nodes, <<p, m>> \in Paths(E, Start)
    PROVE  Holds(x, p) <=> m \in {n} \cup Under(K, {n})
<1>0. K \in [Nodes -> SUBSET Heap] /\ Single(E)
  BY DEF Forest, Drawn
<1>1. ASSUME Holds(x, p) PROVE m \in {n} \cup Under(K, {n})
  <2>1. PICK r \in Place : p = Join(x, r)
    BY <1>1 DEF Holds
  <2>2. <<r, m>> \in From(E, n)
    BY <1>0, <2>1, StartFacts, PathsWithin
  <2> QED
    BY <1>0, <2>2, FromUnder
<1>2. ASSUME m \in {n} \cup Under(K, {n}) PROVE Holds(x, p)
  <2>1. PICK r \in Place : <<r, m>> \in From(E, n)
    BY <1>0, <1>2, UnderIsFrom, FromFacts, PlaceEmpty
  <2>2. <<Join(x, r), m>> \in Paths(E, Start) /\ Join(x, r) \in Place
    BY <2>1, StartFacts, PathsOn, PlaceJoin
  <2>3. p = Join(x, r)
    BY <2>2, OnePlace
  <2> QED
    BY <2>3 DEF Holds
<1> QED
  BY <1>1, <1>2

-----------------------------------------------------------------------------
(* The places of a heap, level by level or all at once. *)

\* Numbers have a least one.
LEMMA NatMin ==
    ASSUME NEW S \in SUBSET Nat, S # {}
    PROVE  \E x \in S : \A y \in S : x <= y
<1> DEFINE R == OpToRel(<, Nat)
<1>1. IsWellFoundedOn(R, Nat)
  BY NatLessThanWellFounded
<1>2. \A x, y \in Nat : <<x, y>> \in R <=> x < y
  BY DEF OpToRel
<1> HIDE DEF R
<1>3. \E x \in S : \A y \in S : ~ (<<y, x>> \in R)
  BY <1>1, WFMin
<1>4. PICK x \in S : \A y \in S : ~ (<<y, x>> \in R)
  BY <1>3
<1>5. ASSUME NEW y \in S PROVE x <= y
  <2>1. x \in Nat /\ y \in Nat
    OBVIOUS
  <2>2. ~(y < x)
    BY <1>2, <1>4, <2>1
  <2> QED
    BY <2>1, <2>2
<1> QED
  BY <1>5

\* Induction, for a set of numbers.
LEMMA NatInd ==
    ASSUME NEW S \in SUBSET Nat, 0 \in S, \A n \in S : n + 1 \in S
    PROVE  S = Nat
<1>1. ASSUME Nat \ S # {} PROVE FALSE
  <2>1. PICK x \in Nat \ S : \A y \in Nat \ S : x <= y
    BY <1>1, NatMin
  <2>2. x # 0 /\ x - 1 \in Nat /\ x - 1 \notin Nat \ S
    BY <2>1
  <2> QED
    BY <2>1, <2>2
<1> QED
  BY <1>1

\* The pointers of a heap h, by index or name.
Arcs(h) ==
    {a \in Nodes \X Key \X Nodes : a[2] \in DOMAIN h[a[1]].kids /\ h[a[1]].kids[a[2]] = a[3]}

\* An arc is a pointer in the container.
LEMMA ArcFacts ==
    ASSUME NEW h, NEW n \in Nodes, NEW k \in Key, NEW m \in Nodes
    PROVE  <<n, k, m>> \in Arcs(h) <=> k \in DOMAIN h[n].kids /\ h[n].kids[k] = m
BY DEF Arcs

\* A Value holds others by indices or names.
LEMMA KeyFacts ==
    ASSUME NEW c \in Contents, NEW k \in DOMAIN c.kids
    PROVE  k \in Key /\ c.kids[k] \in Nodes /\ c.kids[k] \in Heap
<1>1. c.kids \in [DOMAIN c.kids -> Heap]
  BY ContentFacts
<1>2. c.kids[k] \in Heap
  BY <1>1
<1>3. CASE c.kind = "array"
  <2>1. c.kids \in Seq(Heap)
    BY <1>3, ContentFacts
  <2>2. k \in Nat
    BY <2>1
  <2> QED
    BY <1>2, <2>2 DEF Key, Nodes
<1>4. CASE c.kind = "struct"
  BY <1>2, <1>4, ContentFacts DEF Key, Nodes
<1>5. CASE c.kind \in Scalars \cup {"free"}
  BY <1>5, ContentFacts, EmptyFacts
<1> QED
  BY <1>3, <1>4, <1>5, ContentFacts

\* The arcs of a heap are its pointers, with their indices and names.
LEMMA ArcsDrawn ==
    ASSUME NEW h \in [Nodes -> Contents], \A n \in Nodes : IsInjective(h[n].kids)
    PROVE  Drawn(Arcs(h), KidsIn(h))
<1> DEFINE E == Arcs(h)
<1>1. ASSUME NEW n \in Nodes, NEW k \in Key, NEW m \in Nodes
       PROVE  <<n, k, m>> \in E <=> k \in DOMAIN h[n].kids /\ h[n].kids[k] = m
  BY ArcFacts
<1> HIDE DEF E
<1>2. ASSUME NEW n \in Nodes, NEW m \in Nodes
       PROVE  m \in KidsIn(h)[n] <=> \E k \in Key : <<n, k, m>> \in E
  <2>1. KidsIn(h)[n] = Range(h[n].kids)
    BY DEF KidsIn
  <2>2. m \in Range(h[n].kids) <=> \E k \in DOMAIN h[n].kids : h[n].kids[k] = m
    BY DEF Range
  <2>3. h[n] \in Contents
    OBVIOUS
  <2>4. \A k \in DOMAIN h[n].kids : k \in Key
    BY <2>3, KeyFacts
  <2> QED
    BY <1>1, <2>1, <2>2, <2>4
<1>3. ASSUME NEW n \in Nodes, NEW k \in Key, NEW j \in Key, NEW m \in Nodes,
             <<n, k, m>> \in E, <<n, j, m>> \in E
       PROVE  k = j
  BY <1>1, <1>3 DEF IsInjective
<1>4. Single(E)
  BY <1>1 DEF Single
<1> QED
  BY <1>2, <1>3, <1>4 DEF Drawn, E

\* One level more of what the pointers lead to.
LEMMA FurtherFacts ==
    ASSUME NEW h \in [Nodes -> Contents], NEW at, at \in SUBSET Pairs
    PROVE  /\ Further(h, at) \in SUBSET Pairs /\ at \subseteq Further(h, at)
           /\ \A p \in Place, n \in Nodes, k \in Key, m \in Nodes :
                 <<p, n>> \in at /\ <<n, k, m>> \in Arcs(h) => <<Deeper(p, k), m>> \in Further(h, at)
           /\ \A w \in Further(h, at) \ at :
                 \E p \in Place, n \in Nodes, k \in Key, m \in Nodes :
                    <<p, n>> \in at /\ <<n, k, m>> \in Arcs(h) /\ w = <<Deeper(p, k), m>>
<1>1. ASSUME NEW w \in at, NEW k \in DOMAIN h[w[2]].kids
       PROVE  \E p \in Place, n \in Nodes, m \in Nodes :
                 /\ k \in Key /\ w = <<p, n>> /\ <<n, k, m>> \in Arcs(h)
                 /\ <<Append(w[1], k), h[w[2]].kids[k]>> = <<Deeper(p, k), m>>
                 /\ <<Deeper(p, k), m>> \in Pairs
  <2>1. PICK p \in Place, n \in Nodes : w = <<p, n>>
    BY DEF Pairs
  <2>2. h[n] \in Contents /\ k \in DOMAIN h[n].kids
    BY <2>1
  <2>3. k \in Key /\ h[n].kids[k] \in Nodes
    BY <2>2, KeyFacts
  <2>4. <<n, k, h[n].kids[k]>> \in Arcs(h)
    BY <2>2, <2>3, ArcFacts
  <2>5. <<Deeper(p, k), h[n].kids[k]>> \in Pairs
    BY <2>3, PlaceDeeper DEF Pairs
  <2> QED
    BY <2>1, <2>3, <2>4, <2>5 DEF Deeper
<1>2. \A w \in Further(h, at) \ at : \E v \in at : \E k \in DOMAIN h[v[2]].kids :
          w = <<Append(v[1], k), h[v[2]].kids[k]>>
  BY DEF Further
<1>3. ASSUME NEW w \in Further(h, at) \ at
       PROVE  /\ w \in Pairs
              /\ \E p \in Place, n \in Nodes, k \in Key, m \in Nodes :
                    <<p, n>> \in at /\ <<n, k, m>> \in Arcs(h) /\ w = <<Deeper(p, k), m>>
  <2>1. PICK v \in at : \E k \in DOMAIN h[v[2]].kids : w = <<Append(v[1], k), h[v[2]].kids[k]>>
    BY <1>2
  <2>2. PICK k \in DOMAIN h[v[2]].kids : w = <<Append(v[1], k), h[v[2]].kids[k]>>
    BY <2>1
  <2>3. PICK p \in Place, n \in Nodes, m \in Nodes :
           /\ k \in Key /\ v = <<p, n>> /\ <<n, k, m>> \in Arcs(h)
           /\ <<Append(v[1], k), h[v[2]].kids[k]>> = <<Deeper(p, k), m>>
           /\ <<Deeper(p, k), m>> \in Pairs
    BY <1>1
  <2> QED
    BY <2>2, <2>3
<1>4. at \subseteq Further(h, at)
  BY DEF Further
<1>5. ASSUME NEW p \in Place, NEW n \in Nodes, NEW k \in Key, NEW m \in Nodes,
             <<p, n>> \in at, <<n, k, m>> \in Arcs(h)
       PROVE  <<Deeper(p, k), m>> \in Further(h, at)
  <2>1. k \in DOMAIN h[n].kids /\ h[n].kids[k] = m
    BY <1>5, ArcFacts
  <2> QED
    BY <1>5, <2>1 DEF Further, Deeper
<1>6. Further(h, at) \in SUBSET Pairs
  BY <1>3
<1> QED
  BY <1>3, <1>4, <1>5, <1>6

\* The levels are defined.
LEMMA LevelsExist ==
    ASSUME NEW h, NEW C \in Nat
    PROVE  \E g : g = [d \in 0..C |-> IF d = 0 THEN Start ELSE Further(h, g[d - 1])]
<1> DEFINE Body(g, d) == IF d = 0 THEN Start ELSE Further(h, g[d - 1])
           S == {n \in Nat : \E g : g = [d \in 0..n |-> Body(g, d)]}
<1>1. 0 \in S
  <2> DEFINE g == [d \in 0..0 |-> Start]
  <2>1. g = [d \in 0..0 |-> Body(g, d)]
    OBVIOUS
  <2> HIDE DEF g, Body
  <2> QED
    BY <2>1
<1>2. ASSUME NEW n \in S PROVE n + 1 \in S
  <2>1. PICK g : g = [d \in 0..n |-> Body(g, d)]
    OBVIOUS
  <2> DEFINE f == [d \in 0 .. n + 1 |-> Body(g, d)]
  <2>2. ASSUME NEW d \in 0..n PROVE f[d] = g[d]
    <3>1. d \in 0 .. n + 1
      OBVIOUS
    <3> HIDE DEF Body
    <3> QED
      BY <2>1, <3>1
  <2>3. ASSUME NEW d \in 0 .. n + 1 PROVE Body(g, d) = Body(f, d)
    <3>1. d # 0 => d - 1 \in 0..n
      OBVIOUS
    <3>2. d # 0 => g[d - 1] = f[d - 1]
      BY <2>2, <3>1
    <3> HIDE DEF f
    <3> QED
      BY <3>2
  <2>4. f = [d \in 0 .. n + 1 |-> Body(f, d)]
    <3> HIDE DEF Body
    <3> QED
      BY <2>3
  <2> HIDE DEF f, Body
  <2> QED
    BY <2>4
<1>3. S = Nat
  <2>1. S \in SUBSET Nat
    OBVIOUS
  <2> HIDE DEF S
  <2> QED
    BY <1>1, <1>2, <2>1, NatInd
<1>4. C \in S
  BY <1>3
<1> QED
  BY <1>4

\* The levels end where nothing is further: each Value on a way holds fewer than the
\* last one.
LEMMA AtIsPaths ==
    ASSUME NEW h \in [Nodes -> Contents], \A n \in Nodes : IsInjective(h[n].kids),
           NEW L, NEW X, Forest(KidsIn(h), L, X)
    PROVE  At(h) = Paths(Arcs(h), Start)
<1> DEFINE C == Cardinality(Heap)
           E == Arcs(h)
           K == KidsIn(h)
           P == Paths(E, Start)
           upTo[d \in 0..Cardinality(Heap)] ==
               IF d = 0 THEN {<<<<v>>, v>> : v \in Variables} ELSE Further(h, upTo[d - 1])
           Ends(T, p, n) == \A k \in Key, m \in Nodes : <<n, k, m>> \in E => <<Deeper(p, k), m>> \in T
           Good(d) == /\ Start \subseteq upTo[d] /\ upTo[d] \subseteq P
                      /\ \A p \in Place, n \in Nodes : <<p, n>> \in upTo[d] =>
                            Ends(upTo[d], p, n) \/ Cardinality(Under(K, {n})) <= C - d
           S == {d \in Nat : d <= C => Good(d)}
<1>0. C \in Nat
  BY ValueAssumption, FS_CardinalityType
<1>1. At(h) = upTo[C]
  BY DEF At
<1>2. upTo = [d \in 0..C |-> IF d = 0 THEN Start ELSE Further(h, upTo[d - 1])]
  <2>1. \E g : g = [d \in 0..C |-> IF d = 0 THEN Start ELSE Further(h, g[d - 1])]
    BY <1>0, LevelsExist
  <2> QED
    BY <2>1 DEF Start
<1>3. /\ K \in [Nodes -> SUBSET Heap] /\ Drawn(E, K) /\ Follows(E, P) /\ Start \subseteq P
      /\ P \in SUBSET Pairs
  BY ArcsDrawn, PathsFollow, PathsRoots, StartFacts DEF Forest
<1>4. ASSUME NEW n \in Nodes
       PROVE  /\ Under(K, {n}) \in SUBSET Heap /\ IsFiniteSet(Under(K, {n}))
              /\ Cardinality(Under(K, {n})) \in Nat /\ Cardinality(Under(K, {n})) <= C
  <2>1. Under(K, {n}) \in SUBSET Heap
    BY DEF Under
  <2> QED
    BY <2>1, ValueAssumption, FS_Subset, FS_CardinalityType
<1> HIDE DEF C, upTo, E, K
<1>5. 0 \in S
  <2>1. upTo[0] = Start
    BY <1>0, <1>2
  <2>2. ASSUME NEW n \in Nodes PROVE Cardinality(Under(K, {n})) <= C - 0
    BY <1>0, <1>4
  <2>3. Good(0)
    BY <1>3, <2>1, <2>2
  <2> HIDE DEF Good
  <2> QED
    BY <2>3
<1>6. ASSUME NEW d \in S PROVE d + 1 \in S
  <2>1. ASSUME d + 1 <= C PROVE Good(d + 1)
    <3> DEFINE at == upTo[d]
               next == upTo[d + 1]
    <3>1. Good(d) /\ d \in Nat /\ d \in 0..C /\ d + 1 \in 0..C /\ d + 1 # 0 /\ d + 1 - 1 = d
      BY <1>0, <2>1
    <3>2. next = Further(h, at)
      BY <1>2, <3>1
    <3>3. /\ Start \subseteq at /\ at \subseteq P /\ at \in SUBSET Pairs
          /\ \A p \in Place, n \in Nodes : <<p, n>> \in at =>
                Ends(at, p, n) \/ Cardinality(Under(K, {n})) <= C - d
      BY <1>3, <3>1
    <3> HIDE DEF at, next, Good, P
    <3>4. /\ next \in SUBSET Pairs /\ at \subseteq next
          /\ \A p \in Place, n \in Nodes, k \in Key, m \in Nodes :
                <<p, n>> \in at /\ <<n, k, m>> \in E => <<Deeper(p, k), m>> \in next
          /\ \A w \in next \ at :
                \E p \in Place, n \in Nodes, k \in Key, m \in Nodes :
                   <<p, n>> \in at /\ <<n, k, m>> \in E /\ w = <<Deeper(p, k), m>>
      BY <3>2, <3>3, FurtherFacts DEF E
    <3>5. next \subseteq P
      <4>1. ASSUME NEW w \in next \ at PROVE w \in P
        <5>1. PICK p \in Place, n \in Nodes, k \in Key, m \in Nodes :
                 <<p, n>> \in at /\ <<n, k, m>> \in E /\ w = <<Deeper(p, k), m>>
          BY <3>4
        <5> QED
          BY <1>3, <3>3, <5>1 DEF Follows
      <4> QED
        BY <3>3, <4>1
    <3>6. ASSUME NEW q \in Place, NEW m \in Nodes, <<q, m>> \in next
          PROVE  Ends(next, q, m) \/ Cardinality(Under(K, {m})) <= C - (d + 1)
      <4>1. CASE <<q, m>> \in at
        BY <3>4, <4>1
      <4>2. CASE <<q, m>> \notin at
        <5>1. PICK p \in Place, n \in Nodes, k \in Key, m2 \in Nodes :
                 <<p, n>> \in at /\ <<n, k, m2>> \in E /\ <<q, m>> = <<Deeper(p, k), m2>>
          BY <3>4, <3>6, <4>2
        <5>2. <<n, k, m>> \in E /\ q = Deeper(p, k)
          BY <5>1
        <5>3. ~Ends(at, p, n)
          BY <4>2, <5>2
        <5>4. Cardinality(Under(K, {n})) <= C - d
          BY <3>3, <5>1, <5>3
        <5>5. <<p, n>> \in P /\ <<q, m>> \in P
          BY <3>3, <3>5, <3>6, <5>1
        <5>6. m \in L
          BY <1>3, <5>5, PlacesLive DEF K, P
        <5>7. m \notin Under(K, {m})
          BY <5>6, Acyclic DEF K
        <5>8. m \in K[n]
          BY <1>3, <5>2 DEF Drawn
        <5>9. m \in Under(K, {n}) /\ Under(K, {m}) \subseteq Under(K, {n})
          <6>1. K[n] \subseteq Heap
            BY <1>3
          <6>2. m \in Under(K, {n})
            BY <5>8, <6>1, UnderClosed
          <6> QED
            BY <1>3, <6>2, UnderWithin
        <5> DEFINE U == Under(K, {n})
                   V == Under(K, {m})
        <5>10. IsFiniteSet(U) /\ Cardinality(U) \in Nat /\ Cardinality(V) \in Nat
          BY <1>4
        <5>11. V \subseteq U \ {m}
          BY <5>7, <5>9
        <5> HIDE DEF U, V
        <5>12. Cardinality(U \ {m}) = Cardinality(U) - 1 /\ IsFiniteSet(U \ {m})
          BY <5>9, <5>10, FS_RemoveElement DEF U
        <5>13. Cardinality(V) <= Cardinality(U \ {m})
          BY <5>11, <5>12, FS_Subset
        <5>14. PICK u \in Nat, v \in Nat : u = Cardinality(U) /\ v = Cardinality(V)
          BY <5>10
        <5>15. v <= u - 1 /\ u <= C - d
          BY <5>4, <5>12, <5>13, <5>14 DEF U
        <5>16. v <= C - (d + 1)
          BY <1>0, <3>1, <5>15
        <5> QED
          BY <5>14, <5>16 DEF V
      <4> QED
        BY <4>1, <4>2
    <3> QED
      BY <3>3, <3>4, <3>5, <3>6 DEF Good, next, at
  <2> HIDE DEF Good
  <2> QED
    BY <2>1
<1>7. S = Nat
  <2>1. S \in SUBSET Nat
    OBVIOUS
  <2> HIDE DEF S
  <2> QED
    BY <1>5, <1>6, <2>1, NatInd
<1>8. Good(C)
  <2>1. C \in S
    BY <1>0, <1>7
  <2> HIDE DEF Good
  <2> QED
    BY <1>0, <2>1
<1> DEFINE at == upTo[C]
<1>9. ASSUME NEW p \in Place, NEW n \in Nodes, NEW k \in Key, NEW m \in Nodes,
             <<p, n>> \in at, <<n, k, m>> \in E
       PROVE  <<Deeper(p, k), m>> \in at
  <2>1. CASE Ends(at, p, n)
    BY <1>9, <2>1
  <2>2. CASE Cardinality(Under(K, {n})) <= C - C
    <3>1. Cardinality(Under(K, {n})) = 0
      BY <1>0, <1>4, <2>2
    <3>2. Under(K, {n}) = {}
      BY <1>4, <3>1, FS_EmptySet
    <3>3. m \in K[n] /\ K[n] \subseteq Heap
      BY <1>3, <1>9 DEF Drawn
    <3> QED
      BY <3>2, <3>3, UnderClosed
  <2> QED
    BY <1>8, <1>9, <2>1, <2>2
<1>10. Start \subseteq at /\ at \subseteq P
  BY <1>8
<1> HIDE DEF at
<1>11. P \subseteq at
  BY <1>9, <1>10, StartFacts, PathsLeast
<1> QED
  BY <1>1, <1>10, <1>11 DEF at, E

-----------------------------------------------------------------------------
(* The tree of a heap. *)

\* What the invariant says of a heap h.
Sound(h, L, X) ==
    /\ h \in [Nodes -> Contents]
    /\ \A n \in Nodes : IsInjective(h[n].kids)
    /\ Forest(KidsIn(h), L, X)

\* The pairs of a heap, and the tree a Value in it stands for.
PathsIn(h) == Paths(Arcs(h), Start)
Shape(h, n) == {<<w[1], h[w[2]].kind>> : w \in From(Arcs(h), n)}

\* What follows for its arcs and places.
LEMMA SoundFacts ==
    ASSUME NEW h, NEW L, NEW X, Sound(h, L, X)
    PROVE  /\ Drawn(Arcs(h), KidsIn(h)) /\ Single(Arcs(h))
           /\ KidsIn(h) \in [Nodes -> SUBSET Heap] /\ Forest(KidsIn(h), L, X)
           /\ L \subseteq Nodes /\ PathsIn(h) \in SUBSET Pairs /\ Follows(Arcs(h), PathsIn(h))
<1>1. Drawn(Arcs(h), KidsIn(h))
  BY ArcsDrawn DEF Sound
<1> QED
  BY <1>1, StartFacts, PathsRoots, PathsFollow DEF Drawn, Sound, Forest, PathsIn

\* The tree of a heap: its places, and the kinds of what is there.
LEMMA TreeOfFacts ==
    ASSUME NEW h, NEW L, NEW X, Sound(h, L, X)
    PROVE  /\ TreeOf(h) = {<<w[1], h[w[2]].kind>> : w \in PathsIn(h)}
           /\ \A w \in TreeOf(h) : \E p \in Place, n \in Nodes : <<p, n>> \in PathsIn(h) /\ w = <<p, h[n].kind>>
           /\ \A p \in Place, n \in Nodes : <<p, n>> \in PathsIn(h) => <<p, h[n].kind>> \in TreeOf(h)
<1>1. At(h) = PathsIn(h)
  BY AtIsPaths DEF Sound, PathsIn
<1>2. TreeOf(h) = {<<w[1], h[w[2]].kind>> : w \in PathsIn(h)}
  BY <1>1 DEF TreeOf
<1>3. ASSUME NEW w \in TreeOf(h)
      PROVE  \E p \in Place, n \in Nodes : <<p, n>> \in PathsIn(h) /\ w = <<p, h[n].kind>>
  <2>1. PICK v \in PathsIn(h) : w = <<v[1], h[v[2]].kind>>
    BY <1>2
  <2>2. PICK p \in Place, n \in Nodes : v = <<p, n>>
    BY SoundFacts DEF Pairs
  <2> QED
    BY <2>1, <2>2
<1>4. ASSUME NEW p \in Place, NEW n \in Nodes, <<p, n>> \in PathsIn(h)
      PROVE  <<p, h[n].kind>> \in TreeOf(h)
  BY <1>2, <1>4
<1> QED
  BY <1>2, <1>3, <1>4

\* What a Value stands for: the places in it, and the kinds of what is there.
LEMMA ShapeFacts ==
    ASSUME NEW h, NEW m \in Nodes
    PROVE  /\ \A w \in Shape(h, m) : \E p \in Place, n \in Nodes :
                 <<p, n>> \in From(Arcs(h), m) /\ w = <<p, h[n].kind>>
           /\ \A p \in Place, n \in Nodes : <<p, n>> \in From(Arcs(h), m) => <<p, h[n].kind>> \in Shape(h, m)
<1>1. ASSUME NEW w \in Shape(h, m)
      PROVE  \E p \in Place, n \in Nodes : <<p, n>> \in From(Arcs(h), m) /\ w = <<p, h[n].kind>>
  <2>1. PICK v \in From(Arcs(h), m) : w = <<v[1], h[v[2]].kind>>
    BY DEF Shape
  <2>2. PICK p \in Place, n \in Nodes : v = <<p, n>>
    <3>1. From(Arcs(h), m) \in SUBSET Pairs
      BY FromFacts
    <3> QED
      BY <3>1 DEF Pairs
  <2> QED
    BY <2>1, <2>2
<1>2. ASSUME NEW p \in Place, NEW n \in Nodes, <<p, n>> \in From(Arcs(h), m)
      PROVE  <<p, h[n].kind>> \in Shape(h, m)
  BY <1>2 DEF Shape
<1> QED
  BY <1>1, <1>2

\* The places of a tree are those of the heap.
LEMMA TreePlaces ==
    ASSUME NEW h, NEW L, NEW X, Sound(h, L, X), NEW p
    PROVE  p \in Trees!Places(TreeOf(h)) <=> p \in Place /\ \E n \in Nodes : <<p, n>> \in PathsIn(h)
<1>1. ASSUME p \in Trees!Places(TreeOf(h)) PROVE p \in Place /\ \E n \in Nodes : <<p, n>> \in PathsIn(h)
  <2>1. PICK w \in TreeOf(h) : p = w[1]
    BY <1>1 DEF Trees!Places
  <2>2. PICK q \in Place, n \in Nodes : <<q, n>> \in PathsIn(h) /\ w = <<q, h[n].kind>>
    BY TreeOfFacts
  <2> QED
    BY <2>1, <2>2
<1>2. ASSUME NEW n \in Nodes, p \in Place, <<p, n>> \in PathsIn(h) PROVE p \in Trees!Places(TreeOf(h))
  <2>1. <<p, h[n].kind>> \in TreeOf(h)
    BY <1>2, TreeOfFacts
  <2> QED
    BY <2>1 DEF Trees!Places
<1> QED
  BY <1>1, <1>2

\* The value in a place is the tree the Value there stands for.
LEMMA TreeValue ==
    ASSUME NEW h, NEW L, NEW X, Sound(h, L, X), NEW x \in Place, NEW n \in Nodes, <<x, n>> \in PathsIn(h)
    PROVE  Trees!Value(TreeOf(h), x) = Shape(h, n)
<1> DEFINE V == Trees!Value(TreeOf(h), x)
           cut(w) == <<SubSeq(w[1], Len(x) + 1, Len(w[1])), w[2]>>
<1>1. V = {cut(w) : w \in {o \in TreeOf(h) : Trees!IsPrefix(x, o[1])}}
  BY DEF Trees!Value
<1>2. ASSUME NEW r \in Place, NEW kind PROVE cut(<<Join(x, r), kind>>) = <<r, kind>>
  BY RestOfPlace
<1> HIDE DEF V, cut
<1>3. ASSUME NEW y \in V PROVE y \in Shape(h, n)
  <2>1. PICK w \in TreeOf(h) : Trees!IsPrefix(x, w[1]) /\ y = cut(w)
    BY <1>1
  <2>2. PICK p \in Place, m \in Nodes : <<p, m>> \in PathsIn(h) /\ w = <<p, h[m].kind>>
    BY TreeOfFacts
  <2>3. PICK r \in Place : p = Join(x, r)
    BY <2>1, <2>2, HoldsPrefix DEF Holds
  <2>4. <<r, m>> \in From(Arcs(h), n)
    BY <2>2, <2>3, SoundFacts, StartFacts, PathsWithin DEF PathsIn
  <2>5. y = <<r, h[m].kind>>
    BY <1>2, <2>1, <2>2, <2>3
  <2> QED
    BY <2>4, <2>5, ShapeFacts
<1>4. ASSUME NEW y \in Shape(h, n) PROVE y \in V
  <2>1. PICK r \in Place, m \in Nodes : <<r, m>> \in From(Arcs(h), n) /\ y = <<r, h[m].kind>>
    BY ShapeFacts
  <2>2. <<Join(x, r), m>> \in PathsIn(h) /\ Join(x, r) \in Place
    BY <2>1, StartFacts, PathsOn, PlaceJoin DEF PathsIn
  <2>3. <<Join(x, r), h[m].kind>> \in TreeOf(h)
    BY <2>2, TreeOfFacts
  <2>4. Trees!IsPrefix(x, Join(x, r))
    BY <2>2, HoldsPrefix DEF Holds
  <2>5. cut(<<Join(x, r), h[m].kind>>) \in V
    BY <1>1, <2>3, <2>4
  <2> QED
    BY <1>2, <2>1, <2>5
<1> QED
  BY <1>3, <1>4 DEF V

\* Where nothing is, there is no value.
LEMMA TreeNoValue ==
    ASSUME NEW h, NEW L, NEW X, Sound(h, L, X), NEW x \in Place,
           \A p \in Place, n \in Nodes : <<p, n>> \in PathsIn(h) => ~Holds(x, p)
    PROVE  Trees!Value(TreeOf(h), x) = Trees!Nothing
<1>1. ASSUME NEW w \in TreeOf(h), Trees!IsPrefix(x, w[1]) PROVE FALSE
  <2>1. PICK p \in Place, m \in Nodes : <<p, m>> \in PathsIn(h) /\ w = <<p, h[m].kind>>
    BY TreeOfFacts
  <2> QED
    BY <1>1, <2>1, HoldsPrefix
<1> QED
  BY <1>1 DEF Trees!Value, Trees!Nothing

\* What changes elsewhere: nothing.
LEMMA TreeElsewhere ==
    ASSUME NEW h, NEW L, NEW X, Sound(h, L, X), NEW h2, NEW L2, NEW X2, Sound(h2, L2, X2),
           NEW P \in SUBSET Place, Agree(Arcs(h), Arcs(h2), Start, P),
           \A p \in Place, n \in Nodes :
               <<p, n>> \in PathsIn(h) /\ Outside(P, p) => h2[n].kind = h[n].kind
    PROVE  Trees!Elsewhere(TreeOf(h2), P) = Trees!Elsewhere(TreeOf(h), P)
<1>1. ASSUME NEW p \in Place, NEW n \in Nodes, Outside(P, p)
      PROVE  <<p, n>> \in PathsIn(h) <=> <<p, n>> \in PathsIn(h2)
  BY <1>1, StartFacts, PathsOutside DEF PathsIn
<1>2. ASSUME NEW p \in Place PROVE Outside(P, p) <=> \A q \in P : ~Trees!IsPrefix(q, p)
  BY HoldsPrefix DEF Outside
<1>3. ASSUME NEW w \in Trees!Elsewhere(TreeOf(h2), P) PROVE w \in Trees!Elsewhere(TreeOf(h), P)
  <2>1. w \in TreeOf(h2) /\ \A q \in P : ~Trees!IsPrefix(q, w[1])
    BY DEF Trees!Elsewhere
  <2>2. PICK p \in Place, n \in Nodes : <<p, n>> \in PathsIn(h2) /\ w = <<p, h2[n].kind>>
    BY <2>1, TreeOfFacts
  <2>3. Outside(P, p)
    BY <1>2, <2>1, <2>2
  <2>4. <<p, n>> \in PathsIn(h)
    BY <1>1, <2>2, <2>3
  <2>5. w = <<p, h[n].kind>>
    BY <2>2, <2>3, <2>4
  <2>6. w \in TreeOf(h)
    BY <2>4, <2>5, TreeOfFacts
  <2> QED
    BY <2>1, <2>6 DEF Trees!Elsewhere
<1>4. ASSUME NEW w \in Trees!Elsewhere(TreeOf(h), P) PROVE w \in Trees!Elsewhere(TreeOf(h2), P)
  <2>1. w \in TreeOf(h) /\ \A q \in P : ~Trees!IsPrefix(q, w[1])
    BY DEF Trees!Elsewhere
  <2>2. PICK p \in Place, n \in Nodes : <<p, n>> \in PathsIn(h) /\ w = <<p, h[n].kind>>
    BY <2>1, TreeOfFacts
  <2>3. Outside(P, p)
    BY <1>2, <2>1, <2>2
  <2>4. <<p, n>> \in PathsIn(h2)
    BY <1>1, <2>2, <2>3
  <2>5. w = <<p, h2[n].kind>>
    BY <2>2, <2>3
  <2>6. w \in TreeOf(h2)
    BY <2>4, <2>5, TreeOfFacts
  <2> QED
    BY <2>1, <2>6 DEF Trees!Elsewhere
<1> QED
  BY <1>3, <1>4

\* An array or a struct has the keys its content has.
LEMMA TreeKeys ==
    ASSUME NEW h, NEW L, NEW X, Sound(h, L, X), NEW x \in Place, NEW n \in Nodes, <<x, n>> \in PathsIn(h)
    PROVE  Trees!Keys(TreeOf(h), x) = DOMAIN h[n].kids
<1>0. h[n] \in Contents /\ Single(Arcs(h))
  BY SoundFacts DEF Sound
<1>1. ASSUME NEW k \in DOMAIN h[n].kids PROVE k \in Trees!Keys(TreeOf(h), x)
  <2>1. k \in Key /\ h[n].kids[k] \in Nodes
    BY <1>0, KeyFacts
  <2>2. <<n, k, h[n].kids[k]>> \in Arcs(h)
    BY <2>1, ArcFacts
  <2>3. <<Deeper(x, k), h[n].kids[k]>> \in PathsIn(h) /\ Deeper(x, k) \in Place
    BY <2>1, <2>2, SoundFacts, PlaceDeeper DEF Follows
  <2>4. Append(x, k) \in Trees!Places(TreeOf(h))
    BY <2>1, <2>3, TreePlaces DEF Deeper
  <2>5. Trees!Last(Append(x, k)) = k
    <3>1. x \in Seq(Key)
      BY DEF Place
    <3> HIDE DEF Key
    <3> QED
      BY <2>1, <3>1 DEF Trees!Last
  <2> QED
    BY <2>4, <2>5 DEF Trees!Keys
<1>2. ASSUME NEW k \in Trees!Keys(TreeOf(h), x) PROVE k \in DOMAIN h[n].kids
  <2>1. PICK q \in Trees!Places(TreeOf(h)) : k = Trees!Last(q)
    BY DEF Trees!Keys
  <2>2. q \in Place /\ \E o \in Nodes : <<q, o>> \in PathsIn(h)
    BY <2>1, TreePlaces
  <2>3. Len(q) >= 1 /\ Len(x) >= 1 /\ Len(x) \in Nat
    BY <2>2, StartFacts, PathsLength DEF PathsIn, Place
  <2>4. k \in Key
    BY <2>1, <2>2, <2>3 DEF Trees!Last, Place
  <2>5. Deeper(x, k) \in Trees!Places(TreeOf(h)) /\ Deeper(x, k) \in Place /\ Len(Deeper(x, k)) = Len(x) + 1
    BY <2>4, PlaceDeeper DEF Trees!Keys, Deeper
  <2>6. PICK m \in Nodes : <<Deeper(x, k), m>> \in PathsIn(h)
    BY <2>5, TreePlaces
  <2>7. <<Deeper(x, k), m>> \notin Start
    <3>1. ASSUME <<Deeper(x, k), m>> \in Start PROVE FALSE
      <4>1. Len(Deeper(x, k)) = 1
        BY <2>5, <3>1, StartFacts DEF Rooted
      <4> QED
        <5>1. PICK l \in Nat : l = Len(x)
          BY <2>3
        <5>2. l >= 1 /\ l + 1 = 1
          BY <2>3, <2>5, <4>1, <5>1
        <5> QED
          BY <5>2
    <3> QED
      BY <3>1
  <2>8. StepsTo(Arcs(h), Start, Deeper(x, k), m)
    BY <2>5, <2>6, <2>7, StartFacts, PathsFrom DEF PathsIn
  <2>9. PICK p \in Place, o \in Nodes, j \in Key :
           <<p, o>> \in Paths(Arcs(h), Start) /\ <<o, j, m>> \in Arcs(h) /\ Deeper(x, k) = Deeper(p, j)
    BY <2>8 DEF StepsTo
  <2>10. p = x /\ j = k
    BY <2>4, <2>9, DeeperSame
  <2>11. o = n
    BY <1>0, <2>9, <2>10, StartFacts, PathsSingle DEF PathsIn
  <2> QED
    BY <2>9, <2>10, <2>11, ArcFacts
<1> QED
  BY <1>1, <1>2

-----------------------------------------------------------------------------
(* A heap in which one place has changed. *)

\* A place holds the one it is further from, and not the other way round.
LEMMA ParentOutside ==
    ASSUME NEW q \in Place, NEW k \in Key
    PROVE  ~Holds(Deeper(q, k), q)
<1>1. ASSUME Holds(Deeper(q, k), q) PROVE FALSE
  <2>1. PICK r \in Place : q = Join(Deeper(q, k), r)
    BY <1>1 DEF Holds
  <2>2. PICK l \in Nat, m \in Nat : l = Len(q) /\ m = Len(r)
    BY DEF Place
  <2>3. Deeper(q, k) \in Place /\ Len(Deeper(q, k)) = l + 1
    BY <2>2, PlaceDeeper
  <2>4. Len(Join(Deeper(q, k), r)) = l + 1 + m
    BY <2>2, <2>3, PlaceJoin
  <2>5. l = l + 1 + m
    BY <2>1, <2>2, <2>4
  <2> QED
    BY <2>2, <2>5
<1> QED
  BY <1>1

\* A Value stays where it was when the way there is outside of what changes.
LEMMA StillAt ==
    ASSUME NEW h, NEW L, NEW X, Sound(h, L, X), NEW h2, NEW L2, NEW X2, Sound(h2, L2, X2),
           NEW P \in SUBSET Place, Agree(Arcs(h), Arcs(h2), Start, P),
           NEW x \in Place, NEW n \in Nodes, <<x, n>> \in PathsIn(h),
           \A q \in Place, k \in Key, o \in Nodes :
               x = Deeper(q, k) /\ <<q, o>> \in PathsIn(h) =>
                   Outside(P, q) /\ (<<o, k, n>> \in Arcs(h) => <<o, k, n>> \in Arcs(h2))
    PROVE  <<x, n>> \in PathsIn(h2)
<1>1. CASE <<x, n>> \in Start
  BY <1>1, StartFacts, PathsRoots DEF PathsIn
<1>2. CASE <<x, n>> \notin Start
  <2>1. StepsTo(Arcs(h), Start, x, n)
    BY <1>2, StartFacts, PathsFrom DEF PathsIn
  <2>2. PICK q \in Place, o \in Nodes, k \in Key :
           <<q, o>> \in PathsIn(h) /\ <<o, k, n>> \in Arcs(h) /\ x = Deeper(q, k)
    BY <2>1 DEF StepsTo, PathsIn
  <2>3. Outside(P, q) /\ <<o, k, n>> \in Arcs(h2)
    BY <2>2
  <2>4. <<q, o>> \in PathsIn(h2)
    BY <2>2, <2>3, StartFacts, PathsOutside DEF PathsIn
  <2> QED
    BY <2>2, <2>3, <2>4, SoundFacts DEF Follows
<1> QED
  BY <1>1, <1>2

\* Contents that are the same lead to the same.
LEMMA SameArcs ==
    ASSUME NEW h, NEW h2, NEW n \in Nodes, NEW m \in Nodes, h2[m].kids = h[n].kids, NEW k \in Key, NEW o \in Nodes
    PROVE  <<n, k, o>> \in Arcs(h) <=> <<m, k, o>> \in Arcs(h2)
BY ArcFacts

\* What lives is where it can be named, or not.
LEMMA PlaceLives ==
    ASSUME NEW h, NEW L, NEW X, Sound(h, L, X), NEW p \in Place, NEW n \in Nodes, <<p, n>> \in PathsIn(h)
    PROVE  n \in L
BY SoundFacts, PlacesLive DEF PathsIn

\* What is in the place of a Value in a heap: the Value and what is under it.
LEMMA HeldInHeap ==
    ASSUME NEW h, NEW L, NEW X, Sound(h, L, X), NEW x \in Place, NEW n \in Nodes, <<x, n>> \in PathsIn(h),
           NEW p \in Place, NEW m \in Nodes, <<p, m>> \in PathsIn(h)
    PROVE  Holds(x, p) <=> m \in {n} \cup Under(KidsIn(h), {n})
<1>1. Forest(KidsIn(h), L, X) /\ Drawn(Arcs(h), KidsIn(h))
  BY SoundFacts
<1>2. <<x, n>> \in Paths(Arcs(h), Start) /\ <<p, m>> \in Paths(Arcs(h), Start)
  BY DEF PathsIn
<1> QED
  BY <1>1, <1>2, HeldIsWithin

\* Another value in the place x of `to'.
LEMMA ReplacedAt ==
    ASSUME NEW h, NEW L, NEW X, Sound(h, L, X), NEW h2, NEW L2, NEW X2, Sound(h2, L2, X2),
           NEW x \in Place, NEW to \in Nodes, <<x, to>> \in PathsIn(h),
           \A n \in L \ ({to} \cup Under(KidsIn(h), {to})) : h2[n] = h[n]
    PROVE  /\ Trees!Elsewhere(TreeOf(h2), {x}) = Trees!Elsewhere(TreeOf(h), {x})
           /\ Trees!Value(TreeOf(h2), x) = Shape(h2, to)
<1>1. ASSUME NEW p \in Place, NEW n \in Nodes, <<p, n>> \in PathsIn(h), Outside({x}, p)
      PROVE  h2[n] = h[n]
  <2>1. n \notin {to} \cup Under(KidsIn(h), {to})
    BY <1>1, HeldInHeap DEF Outside
  <2> QED
    BY <1>1, <2>1, PlaceLives
<1>2. Agree(Arcs(h), Arcs(h2), Start, {x})
  <2>1. ASSUME NEW p \in Place, NEW n \in Nodes, NEW k \in Key, NEW m \in Nodes,
               <<p, n>> \in PathsIn(h), Outside({x}, p)
        PROVE  <<n, k, m>> \in Arcs(h) <=> <<n, k, m>> \in Arcs(h2)
    BY <1>1, <2>1, SameArcs
  <2> QED
    BY <2>1 DEF Agree, PathsIn
<1>3. \A p \in Place, n \in Nodes :
         <<p, n>> \in PathsIn(h) /\ Outside({x}, p) => h2[n].kind = h[n].kind
  BY <1>1
<1>4. ASSUME NEW q \in Place, NEW k \in Key, NEW o \in Nodes, x = Deeper(q, k), <<q, o>> \in PathsIn(h)
      PROVE  Outside({x}, q) /\ (<<o, k, to>> \in Arcs(h) => <<o, k, to>> \in Arcs(h2))
  <2>1. Outside({x}, q)
    BY <1>4, ParentOutside DEF Outside
  <2> QED
    BY <1>1, <1>4, <2>1, SameArcs
<1>5. {x} \in SUBSET Place
  OBVIOUS
<1>6. <<x, to>> \in PathsIn(h2)
  BY <1>2, <1>4, <1>5, StillAt
<1> QED
  BY <1>2, <1>3, <1>5, <1>6, TreeElsewhere, TreeValue

\* In h2 the place x holds what the arc k of `to' leads to, and all else is as in h.
Changed(h, h2, to, k, x) ==
    /\ Trees!Elsewhere(TreeOf(h2), {x}) = Trees!Elsewhere(TreeOf(h), {x})
    /\ \A m \in Nodes : <<to, k, m>> \in Arcs(h2) => Trees!Value(TreeOf(h2), x) = Shape(h2, m)
    /\ (\A m \in Nodes : <<to, k, m>> \notin Arcs(h2)) => Trees!Value(TreeOf(h2), x) = Trees!Nothing

\* Nothing changes but what the arc k of `to' leads to.
Spared(h, L, h2, to, k) ==
    /\ h2[to].kind = h[to].kind
    /\ \A j \in Key \ {k}, m \in Nodes : <<to, j, m>> \in Arcs(h) <=> <<to, j, m>> \in Arcs(h2)
    /\ \A n \in L \ {to} :
           \/ h2[n] = h[n]
           \/ \E c \in Nodes : <<to, k, c>> \in Arcs(h) /\ n \in {c} \cup Under(KidsIn(h), {c})

\* Something else, or nothing, where `to' holds something under k, or nothing.
LEMMA ChildAt ==
    ASSUME NEW h, NEW L, NEW X, Sound(h, L, X), NEW h2, NEW L2, NEW X2, Sound(h2, L2, X2),
           NEW y \in Place, NEW to \in Nodes, <<y, to>> \in PathsIn(h), NEW k \in Key,
           Spared(h, L, h2, to, k)
    PROVE  Changed(h, h2, to, k, Deeper(y, k))
<1> DEFINE x == Deeper(y, k)
<1>10. h2[to].kind = h[to].kind
  BY DEF Spared
<1>11. \A j \in Key \ {k}, m \in Nodes : <<to, j, m>> \in Arcs(h) <=> <<to, j, m>> \in Arcs(h2)
  BY DEF Spared
<1>12. ASSUME NEW n \in L \ {to}
       PROVE  \/ h2[n] = h[n]
              \/ \E c \in Nodes : <<to, k, c>> \in Arcs(h) /\ n \in {c} \cup Under(KidsIn(h), {c})
  BY DEF Spared
<1>0. x \in Place /\ {x} \in SUBSET Place
  BY PlaceDeeper
<1>1. ASSUME NEW p \in Place, NEW n \in Nodes, <<p, n>> \in PathsIn(h), Outside({x}, p), n # to
      PROVE  h2[n] = h[n]
  <2>1. n \in L
    BY <1>1, PlaceLives
  <2>2. ASSUME NEW c \in Nodes, <<to, k, c>> \in Arcs(h), n \in {c} \cup Under(KidsIn(h), {c}) PROVE FALSE
    <3>1. <<x, c>> \in PathsIn(h)
      BY <2>2, SoundFacts DEF Follows
    <3>2. Holds(x, p)
      BY <1>0, <1>1, <2>2, <3>1, HeldInHeap
    <3> QED
      BY <1>1, <3>2 DEF Outside
  <2> QED
    BY <1>1, <1>12, <2>1, <2>2
<1>2. ASSUME NEW p \in Place, <<p, to>> \in PathsIn(h) PROVE p = y
  BY <1>2, SoundFacts, OnePlace DEF PathsIn
<1> HIDE DEF x
<1>3. Agree(Arcs(h), Arcs(h2), Start, {x})
  <2>1. ASSUME NEW p \in Place, NEW n \in Nodes, NEW j \in Key, NEW m \in Nodes,
               <<p, n>> \in PathsIn(h), Outside({x}, p), Deeper(p, j) \notin {x}
        PROVE  <<n, j, m>> \in Arcs(h) <=> <<n, j, m>> \in Arcs(h2)
    <3>1. CASE n # to
      BY <1>1, <2>1, <3>1, SameArcs
    <3>2. CASE n = to
      <4>1. p = y /\ j # k
        BY <1>2, <2>1, <3>2 DEF x
      <4> QED
        BY <1>11, <3>2, <4>1
    <3> QED
      BY <3>1, <3>2
  <2> QED
    BY <2>1 DEF Agree, PathsIn
<1>4. \A p \in Place, n \in Nodes :
         <<p, n>> \in PathsIn(h) /\ Outside({x}, p) => h2[n].kind = h[n].kind
  BY <1>10, <1>1
<1>5. Outside({x}, y)
  BY ParentOutside DEF Outside, x
<1>6. <<y, to>> \in PathsIn(h2)
  BY <1>0, <1>3, <1>5, StartFacts, PathsOutside DEF PathsIn
<1>7. ASSUME NEW m \in Nodes, <<to, k, m>> \in Arcs(h2) PROVE Trees!Value(TreeOf(h2), x) = Shape(h2, m)
  <2>1. <<x, m>> \in PathsIn(h2)
    BY <1>6, <1>7, SoundFacts DEF Follows, x
  <2> QED
    BY <1>0, <2>1, TreeValue
<1>8. ASSUME \A m \in Nodes : <<to, k, m>> \notin Arcs(h2) PROVE Trees!Value(TreeOf(h2), x) = Trees!Nothing
  <2>1. ASSUME NEW p \in Place, NEW n \in Nodes, <<p, n>> \in PathsIn(h2) PROVE ~Holds(x, p)
    <3> DEFINE T == {w \in Pairs : ~Holds(x, w[1])}
    <3>1. ASSUME NEW q \in Place, NEW o \in Nodes, NEW j \in Key, NEW m \in Nodes,
                 <<q, o>> \in PathsIn(h2), <<q, o>> \in T, <<o, j, m>> \in Arcs(h2)
          PROVE <<Deeper(q, j), m>> \in T
      <4>1. ~Holds(x, q)
        BY <3>1
      <4>2. ASSUME x = Deeper(q, j) PROVE FALSE
        <5>1. q = y /\ j = k
          BY <4>2, DeeperSame DEF x
        <5>2. o = to
          BY <1>6, <3>1, <5>1, SoundFacts, StartFacts, PathsSingle DEF PathsIn
        <5> QED
          BY <1>8, <3>1, <5>1, <5>2
      <4>3. ~Holds(x, Deeper(q, j))
        BY <1>0, <4>1, <4>2, HoldsDeeper
      <4> QED
        BY <4>3, PlaceDeeper DEF Pairs
    <3>2. Start \subseteq T
      <4>1. ASSUME NEW w \in Start PROVE w \in T
        <5>1. PICK q \in Place, o \in Nodes : w = <<q, o>>
          BY StartFacts DEF Pairs
        <5>2. Len(q) = 1 /\ Len(y) >= 1
          BY <5>1, StartFacts, PathsLength DEF Rooted, PathsIn
        <5>3. ASSUME Holds(x, q) PROVE FALSE
          <6>1. PICK r \in Place : q = Join(x, r)
            BY <5>3 DEF Holds
          <6>2. PICK l \in Nat, i \in Nat : l = Len(y) /\ i = Len(r)
            BY DEF Place
          <6>3. Len(x) = l + 1
            BY <6>2, PlaceDeeper DEF x
          <6>4. Len(q) = l + 1 + i
            <7>1. Len(Join(x, r)) = Len(x) + Len(r)
              BY <1>0, PlaceJoin
            <7> QED
              BY <6>1, <6>2, <6>3, <7>1
          <6>5. l + 1 + i = 1 /\ l >= 1
            BY <5>2, <6>2, <6>4
          <6> QED
            BY <6>2, <6>5
        <5> QED
          BY <5>1, <5>3 DEF Pairs
      <4> QED
        BY <4>1
    <3> HIDE DEF T
    <3>3. PathsIn(h2) \subseteq T
      BY <3>1, <3>2, StartFacts, PathsLeast DEF PathsIn
    <3>4. <<p, n>> \in T
      BY <2>1, <3>3
    <3> QED
      BY <3>4 DEF T
  <2> QED
    BY <1>0, <2>1, TreeNoValue
<1>9. Trees!Elsewhere(TreeOf(h2), {x}) = Trees!Elsewhere(TreeOf(h), {x})
  BY <1>0, <1>3, <1>4, TreeElsewhere
<1> QED
  BY <1>7, <1>8, <1>9 DEF x, Changed

-----------------------------------------------------------------------------
(* What Values stand for when contents are copied. *)

\* What is copied, with all it leads to, stands for the same tree.
LEMMA ShapeLed ==
    ASSUME NEW h, NEW h2, NEW S \in SUBSET Nodes, NEW n \in S, NEW g,
           \A s \in S : g[s] \in Nodes /\ h2[g[s]].kind = h[s].kind
                           /\ DOMAIN h2[g[s]].kids = DOMAIN h[s].kids,
           \A s \in S : \A k \in DOMAIN h[s].kids :
               h[s].kids[k] \in S /\ h2[g[s]].kids[k] = g[h[s].kids[k]]
    PROVE  Shape(h2, g[n]) = Shape(h, n)
<1> DEFINE T == {w \in Pairs : w[2] \in S}
<1>1. <<<<>>, n>> \in T
  BY PlaceEmpty DEF Pairs
<1>2. ASSUME NEW p \in Place, NEW o \in Nodes, NEW k \in Key, NEW m \in Nodes,
             <<p, o>> \in T, <<o, k, m>> \in Arcs(h)
       PROVE <<Deeper(p, k), m>> \in T
  <2>1. o \in S /\ k \in DOMAIN h[o].kids /\ h[o].kids[k] = m
    BY <1>2, ArcFacts
  <2> QED
    BY <2>1, PlaceDeeper DEF Pairs
<1>3. ASSUME NEW r \in Place, NEW o \in Nodes, <<r, o>> \in From(Arcs(h), n) PROVE o \in S
  <2> HIDE DEF T
  <2>1. From(Arcs(h), n) \subseteq T
    BY <1>1, <1>2, FromLeast
  <2>2. <<r, o>> \in T
    BY <1>3, <2>1
  <2> QED
    BY <2>2 DEF T
<1> HIDE DEF T
<1>4. ASSUME NEW o \in S, NEW k \in Key, NEW m \in Nodes, <<o, k, m>> \in Arcs(h)
       PROVE  <<g[o], k, g[m]>> \in Arcs(h2)
  <2>1. k \in DOMAIN h[o].kids /\ h[o].kids[k] = m
    BY <1>4, ArcFacts
  <2>2. m \in S /\ h2[g[o]].kids[k] = g[m] /\ k \in DOMAIN h2[g[o]].kids
    BY <2>1
  <2> QED
    BY <2>2, ArcFacts
<1>5. ASSUME NEW o \in S, NEW k \in Key, NEW m \in Nodes, <<g[o], k, m>> \in Arcs(h2)
       PROVE  \E o2 \in Nodes : m = g[o2] /\ <<o, k, o2>> \in Arcs(h)
  <2>1. g[o] \in Nodes
    OBVIOUS
  <2>2. k \in DOMAIN h2[g[o]].kids /\ h2[g[o]].kids[k] = m
    BY <1>5, <2>1, ArcFacts
  <2>3. k \in DOMAIN h[o].kids
    BY <2>2
  <2>4. h[o].kids[k] \in S /\ m = g[h[o].kids[k]]
    BY <2>2, <2>3
  <2>5. <<o, k, h[o].kids[k]>> \in Arcs(h)
    BY <2>3, <2>4, ArcFacts
  <2> QED
    BY <2>4, <2>5
<1>6. Copied(Arcs(h), Arcs(h2), n, g)
  BY <1>3, <1>4, <1>5 DEF Copied
<1>7. n \in Nodes /\ g[n] \in Nodes
  OBVIOUS
<1>8. ASSUME NEW w \in Shape(h2, g[n]) PROVE w \in Shape(h, n)
  <2>1. PICK p \in Place, m \in Nodes : <<p, m>> \in From(Arcs(h2), g[n]) /\ w = <<p, h2[m].kind>>
    BY <1>7, ShapeFacts
  <2>2. PICK o \in Nodes : m = g[o] /\ <<p, o>> \in From(Arcs(h), n)
    <3>1. HasCopy(Arcs(h), n, g, p, m)
      BY <1>6, <1>7, <2>1, CopiedFrom
    <3> QED
      BY <3>1 DEF HasCopy
  <2>3. w = <<p, h[o].kind>>
    BY <1>3, <2>1, <2>2
  <2> QED
    BY <1>7, <2>2, <2>3, ShapeFacts
<1>9. ASSUME NEW w \in Shape(h, n) PROVE w \in Shape(h2, g[n])
  <2>1. PICK p \in Place, o \in Nodes : <<p, o>> \in From(Arcs(h), n) /\ w = <<p, h[o].kind>>
    BY <1>7, ShapeFacts
  <2>2. <<p, g[o]>> \in From(Arcs(h2), g[n])
    BY <1>6, <1>7, <2>1, FromCopied
  <2>3. w = <<p, h2[g[o]].kind>> /\ g[o] \in Nodes
    BY <1>3, <2>1
  <2> QED
    BY <1>7, <2>2, <2>3, ShapeFacts
<1> QED
  BY <1>8, <1>9

\* A Value that holds nothing is a tree of one kind.
LEMMA ShapeEmpty ==
    ASSUME NEW h, NEW n \in Nodes, h[n].kids = <<>>
    PROVE  Shape(h, n) = Trees!Single(h[n].kind)
<1>1. \A k \in Key, m \in Nodes : <<n, k, m>> \notin Arcs(h)
  BY ArcFacts, EmptyFacts
<1>2. From(Arcs(h), n) = {<<<<>>, n>>}
  BY <1>1, FromEmpty
<1> QED
  BY <1>2 DEF Shape, Trees!Single

\* The beginning of an array.
LEMMA ShapeFirst ==
    ASSUME NEW h, NEW L, NEW X, Sound(h, L, X), NEW n \in L, h[n].kind = "array",
           NEW i \in 0..Len(h[n].kids), NEW h2, h2[n].kind = h[n].kind,
           h2[n].kids = SubSeq(h[n].kids, 1, i), \A o \in Nodes \ {n} : h2[o] = h[o]
    PROVE  Shape(h2, n) = Trees!First(i, Shape(h, n))
<1> DEFINE E == Arcs(h)
           E2 == Arcs(h2)
<1>1. n \in Nodes /\ h[n] \in Contents
  BY SoundFacts DEF Sound
<1>2. h[n].kids \in Seq(Heap)
  BY <1>1, ContentFacts
<1>3. PICK l \in Nat : l = Len(h[n].kids) /\ i \in Nat /\ i <= l /\ DOMAIN h[n].kids = 1..l
  <2> DEFINE s == h[n].kids
  <2>3. s \in Seq(Heap)
    BY <1>2
  <2> HIDE DEF s
  <2>4. Len(s) \in Nat /\ DOMAIN s = 1..Len(s)
    BY <2>3
  <2>1. PICK l \in Nat : Len(h[n].kids) = l /\ DOMAIN h[n].kids = 1..l
    BY <2>4 DEF s
  <2>2. i \in Nat /\ i <= l
    BY <2>1
  <2> QED
    BY <2>1, <2>2
<1>4. DOMAIN h2[n].kids = 1..i /\ \A k \in 1..i : h2[n].kids[k] = h[n].kids[k]
  <2>1. \A k \in 1..i : h[n].kids[k] \in Heap
    BY <1>2, <1>3
  <2> DEFINE s == SubSeq(h[n].kids, 1, i)
  <2>2. /\ s \in Seq(Heap)
        /\ Len(s) = IF 1 <= i THEN i - 1 + 1 ELSE 0
        /\ \A k \in 1 .. i - 1 + 1 : s[k] = h[n].kids[1 + k - 1]
    BY <1>3, <2>1, SubSeqProperties
  <2>3. s = h2[n].kids
    OBVIOUS
  <2> HIDE DEF s
  <2>4. DOMAIN s = 1..i /\ \A k \in 1..i : s[k] = h[n].kids[k]
    BY <1>3, <2>2
  <2> QED
    BY <2>3, <2>4
<1>5. ASSUME NEW k \in Key, NEW m \in Nodes PROVE <<n, k, m>> \in E2 <=> <<n, k, m>> \in E /\ k \in 1..i
  <2>1. \A j \in 1..i : j \in DOMAIN h[n].kids
    BY <1>3
  <2>2. <<n, k, m>> \in E2 <=> k \in 1..i /\ h2[n].kids[k] = m
    BY <1>1, <1>4, ArcFacts
  <2>3. <<n, k, m>> \in E <=> k \in DOMAIN h[n].kids /\ h[n].kids[k] = m
    BY <1>1, ArcFacts
  <2> QED
    BY <1>4, <2>1, <2>2, <2>3
<1>6. ASSUME NEW o \in Nodes, NEW k \in Key, NEW m \in Nodes, o # n
       PROVE  <<o, k, m>> \in E2 <=> <<o, k, m>> \in E
  <2>1. h2[o].kids = h[o].kids
    BY <1>6
  <2> QED
    BY <2>1, SameArcs
<1>7. ASSUME NEW r \in Place, <<r, n>> \in From(E, n) PROVE r = <<>>
  <2>1. n \notin Under(KidsIn(h), {n})
    BY SoundFacts, Acyclic
  <2>2. Drawn(E, KidsIn(h)) /\ KidsIn(h) \in [Nodes -> SUBSET Heap]
    BY SoundFacts
  <2> HIDE DEF E
  <2> QED
    BY <1>1, <1>7, <2>1, <2>2, FromUnder
<1> HIDE DEF E, E2
<1>8. ASSUME NEW r \in Place, NEW o \in Nodes
       PROVE  <<r, o>> \in From(E2, n) <=> <<r, o>> \in From(E, n) /\ (r = <<>> \/ Head(r) \in 1..i)
  <2> DEFINE I == 1..i
  <2>1. /\ \A k \in Key, m \in Nodes : <<n, k, m>> \in E2 <=> <<n, k, m>> \in E /\ k \in I
        /\ \A q \in Nodes, k \in Key, m \in Nodes : q # n => (<<q, k, m>> \in E2 <=> <<q, k, m>> \in E)
        /\ \A q \in Place : <<q, n>> \in From(E, n) => q = <<>>
    BY <1>5, <1>6, <1>7
  <2> HIDE DEF I
  <2>2. <<r, o>> \in From(E2, n) <=> <<r, o>> \in From(E, n) /\ (r = <<>> \/ Head(r) \in I)
    BY <1>1, <2>1, FromFirst
  <2> QED
    BY <2>2 DEF I
<1>9. \A o \in Nodes : h2[o].kind = h[o].kind
  OBVIOUS
<1>10. ASSUME NEW w \in Shape(h2, n) PROVE w \in Trees!First(i, Shape(h, n))
  <2>1. PICK p \in Place, m \in Nodes : <<p, m>> \in From(E2, n) /\ w = <<p, h2[m].kind>>
    BY <1>1, ShapeFacts DEF E2
  <2>2. <<p, m>> \in From(E, n) /\ (p = <<>> \/ Head(p) \in 1..i)
    BY <1>8, <2>1
  <2>3. w = <<p, h[m].kind>>
    BY <1>9, <2>1
  <2>4. w \in Shape(h, n)
    BY <1>1, <2>2, <2>3, ShapeFacts DEF E
  <2> QED
    BY <2>2, <2>3, <2>4 DEF Trees!First
<1>11. ASSUME NEW w \in Trees!First(i, Shape(h, n)) PROVE w \in Shape(h2, n)
  <2>1. w \in Shape(h, n) /\ (w[1] = <<>> \/ Head(w[1]) \in 1..i)
    BY DEF Trees!First
  <2>2. PICK p \in Place, m \in Nodes : <<p, m>> \in From(E, n) /\ w = <<p, h[m].kind>>
    BY <1>1, <2>1, ShapeFacts DEF E
  <2>3. p = <<>> \/ Head(p) \in 1..i
    BY <2>1, <2>2
  <2>4. <<p, m>> \in From(E2, n)
    BY <1>8, <2>2, <2>3
  <2>5. w = <<p, h2[m].kind>>
    BY <1>9, <2>2
  <2> QED
    BY <1>1, <2>4, <2>5, ShapeFacts DEF E2
<1> QED
  BY <1>10, <1>11

\* Two Values exchange what they hold.
LEMMA ExchangedShape ==
    ASSUME NEW h, NEW L, NEW X, Sound(h, L, X), NEW h2,
           NEW a \in L, NEW b \in L, a \notin Under(KidsIn(h), {b}), h2[a] = h[b],
           \A n \in L \ {a, b} : h2[n] = h[n]
    PROVE  Shape(h2, a) = Shape(h, b)
<1> DEFINE K == KidsIn(h)
           S == {b} \cup Under(K, {b})
           g == [s \in S |-> IF s = b THEN a ELSE s]
<1>1. K \in [Nodes -> SUBSET Heap] /\ Forest(K, L, X) /\ L \subseteq Nodes /\ h \in [Nodes -> Contents]
  BY SoundFacts DEF Sound
<1>2. b \notin Under(K, {b}) /\ Under(K, {b}) \subseteq L
  BY <1>1, Acyclic, UnderLives
<1>3. S \in SUBSET Nodes /\ b \in S /\ S \subseteq L
  BY <1>1, <1>2
<1>4. ASSUME NEW s \in S, NEW k \in DOMAIN h[s].kids
       PROVE  h[s].kids[k] \in Under(K, {b})
  <2>1. h[s].kids[k] \in K[s]
    <3>1. K[s] = Range(h[s].kids)
      BY <1>3 DEF KidsIn
    <3> QED
      BY <3>1 DEF Range
  <2>2. K[s] \subseteq Heap
    BY <1>1, <1>3
  <2> QED
    BY <2>1, <2>2, UnderClosed
<1>5. \A s \in S : g[s] = IF s = b THEN a ELSE s
  OBVIOUS
<1>6. \A s \in Under(K, {b}) : g[s] = s
  BY <1>2, <1>5
<1>7. ASSUME NEW s \in S PROVE g[s] \in Nodes /\ h2[g[s]] = h[s]
  <2>1. CASE s = b
    BY <1>1, <1>5, <2>1
  <2>2. CASE s # b
    <3>1. s \in Under(K, {b}) /\ s # a /\ g[s] = s
      BY <1>6, <2>2
    <3>2. s \in L \ {a, b}
      BY <1>2, <2>2, <3>1
    <3> QED
      BY <1>3, <3>1, <3>2
  <2> QED
    BY <2>1, <2>2
<1> HIDE DEF g, K
<1>8. ASSUME NEW s \in S, NEW k \in DOMAIN h[s].kids
       PROVE  h[s].kids[k] \in S /\ h2[g[s]].kids[k] = g[h[s].kids[k]]
  BY <1>4, <1>6, <1>7
<1>9. g[b] = a
  BY <1>3, <1>5
<1>11. \A s \in S : g[s] \in Nodes /\ h2[g[s]].kind = h[s].kind
                        /\ DOMAIN h2[g[s]].kids = DOMAIN h[s].kids
  BY <1>7
<1> HIDE DEF S
<1>10. Shape(h2, g[b]) = Shape(h, b)
  BY <1>3, <1>8, <1>11, ShapeLed
<1> QED
  BY <1>9, <1>10

-----------------------------------------------------------------------------
(* Places and trees of the program's heap. *)

\* The invariant says this of the heap, before a step and after it.
HeapSound == Sound(heap, Live, erased)

LEMMA InvariantSound == IInv => HeapSound
BY InvariantPlants DEF Planted, Contained, Sound, HeapSound

LEMMA NowSound == IInv => Sound(heap, Live, erased)
BY InvariantSound DEF HeapSound

LEMMA InvariantSoundNext == IInv' => HeapSound'
BY InvariantSound, PTL

LEMMA ThenSound == IInv' => Sound(heap', Live', erased')
BY InvariantSoundNext DEF HeapSound

\* What the user names is in a place, and the user can assign it.
LEMMA HasPlace ==
    ASSUME IInv, NEW n \in Reachable
    PROVE  /\ n \in Live /\ n \in Nodes
           /\ \E x \in Place : <<x, n>> \in PathsIn(heap)
<1>1. Sound(heap, Live, erased) /\ n \in Live
  BY NowSound, ReachableLive
<1>2. Drawn(Arcs(heap), KidsIn(heap)) /\ KidsIn(heap) \in [Nodes -> SUBSET Heap] /\ Live \subseteq Nodes
  BY <1>1, SoundFacts
<1>3. Below(Variables) = Under(KidsIn(heap), Variables)
  BY KidsFacts DEF Nodes
<1>4. n \in Variables \cup Under(KidsIn(heap), Variables)
  BY <1>3 DEF Reachable
<1> QED
  BY <1>1, <1>2, <1>4, ReachedPlace DEF PathsIn

\* What the user names stands for a value that is held.
LEMMA IsHeld ==
    ASSUME IInv, NEW n \in Reachable
    PROVE  Shape(heap, n) \in Trees!Held(TreeOf(heap))
<1>1. PICK x \in Place : <<x, n>> \in PathsIn(heap)
  BY HasPlace
<1>2. n \in Nodes /\ Sound(heap, Live, erased)
  BY HasPlace, NowSound
<1>3. Trees!Value(TreeOf(heap), x) = Shape(heap, n)
  BY <1>1, <1>2, TreeValue
<1>4. x \in Trees!Places(TreeOf(heap))
  BY <1>1, <1>2, TreePlaces
<1> QED
  BY <1>3, <1>4 DEF Trees!Held

\* What is below a Value is under it.
LEMMA BelowIsUnder ==
    ASSUME NEW n \in Nodes
    PROVE  Below({n}) = Under(KidsIn(heap), {n})
BY KidsFacts

\* The heap after an assignment.
Assigned(to, c, S, f, D) ==
    /\ heap'[to] = c
    /\ \A s \in S : f[s] \in Heap /\ f[s] \notin Live
    /\ \A s \in S : heap'[f[s]] = Led(heap[s], f)
    /\ \A n \in Live \ (D \cup {to}) : heap'[n] = heap[n]

\* Becomes() brings it about, when the copies are new and `to' is not deleted.
LEMMA BecomesFacts ==
    ASSUME NEW to \in Live, NEW c, NEW S, NEW f \in Injection(S, Heap \ Live), NEW D, to \notin D,
           Becomes(to, c, f, D)
    PROVE  Assigned(to, c, S, f, D)
<1>1. /\ f \in [S -> Heap \ Live] /\ DOMAIN f = S
      /\ \A s, t \in S : f[s] = f[t] => s = t
  BY DEF Injection, IsInjective
<1>2. to \in Nodes /\ Live \subseteq Nodes /\ Heap \subseteq Nodes
  BY DEF Live, Nodes
<1>3. \A m \in Nodes :
         heap'[m] = IF m = to THEN c
                    ELSE IF m \in Range(f) THEN Clone(CHOOSE o \in S : f[o] = m, f)
                    ELSE IF m \in D THEN Free
                    ELSE heap[m]
  BY <1>1 DEF Becomes
<1>4. Range(f) = {f[s] : s \in S}
  BY <1>1 DEF Range
<1>5. \A s \in S : f[s] \in Heap /\ f[s] \notin Live
  BY <1>1
<1>6. ASSUME NEW s \in S PROVE heap'[f[s]] = Led(heap[s], f)
  <2>1. f[s] \in Range(f) /\ f[s] \in Nodes /\ f[s] # to
    BY <1>2, <1>4, <1>5
  <2>2. (CHOOSE o \in S : f[o] = f[s]) = s
    BY <1>1
  <2>3. heap'[f[s]] = Clone(CHOOSE o \in S : f[o] = f[s], f)
    BY <1>3, <2>1
  <2> QED
    BY <2>2, <2>3 DEF Clone
<1>7. ASSUME NEW n \in Live \ (D \cup {to}) PROVE heap'[n] = heap[n]
  <2>1. n \in Nodes /\ n \notin Range(f) /\ n # to /\ n \notin D
    BY <1>2, <1>4, <1>5
  <2> QED
    BY <1>3, <2>1
<1> QED
  BY <1>2, <1>3, <1>5, <1>6, <1>7 DEF Assigned

\* The parts of a content whose pointers have been led to copies.
LEMMA LedParts ==
    ASSUME NEW c \in Contents, NEW f
    PROVE  /\ Led(c, f).kind = c.kind
           /\ DOMAIN Led(c, f).kids = DOMAIN c.kids
           /\ \A k \in DOMAIN c.kids : Led(c, f).kids[k] = f[c.kids[k]]
<1>1. PICK kind, kids : c = [kind |-> kind, kids |-> kids]
  BY ContentFacts
<1>2. Led(c, f) = [kind |-> kind, kids |-> [k \in DOMAIN kids |-> f[kids[k]]]]
  BY <1>1 DEF Led
<1> QED
  BY <1>1, <1>2

\* What is copied with a set has what it holds copied.
LEMMA CopiedClosed ==
    ASSUME IInv, NEW A \in SUBSET Live, NEW s \in A \cup Below(A), NEW k \in DOMAIN heap[s].kids
    PROVE  s \in Live /\ s \in Nodes /\ heap[s] \in Contents /\ heap[s].kids[k] \in Below(A)
<1>1. Sound(heap, Live, erased)
  BY NowSound
<1>2. /\ KidsIn(heap) \in [Nodes -> SUBSET Heap] /\ Live \subseteq Nodes
      /\ Forest(KidsIn(heap), Live, erased) /\ heap \in [Nodes -> Contents]
  BY <1>1, SoundFacts DEF Sound
<1>3. A \in SUBSET Nodes
  BY <1>2
<1>4. Below(A) = Under(KidsIn(heap), A)
  BY <1>3, KidsFacts
<1>5. s \in Live
  BY <1>2, <1>4, UnderLives
<1>6. heap[s].kids[k] \in KidsIn(heap)[s] /\ KidsIn(heap)[s] \subseteq Heap
  <2>1. KidsIn(heap)[s] = Range(heap[s].kids)
    BY <1>2, <1>5 DEF KidsIn
  <2> QED
    BY <1>2, <1>5, <2>1 DEF Range
<1>7. heap[s].kids[k] \in Under(KidsIn(heap), A)
  BY <1>4, <1>6, UnderClosed
<1> QED
  BY <1>2, <1>4, <1>5, <1>7

\* `to' gets what `from' would be if it held only c.
LEMMA AnotherShape ==
    ASSUME IInv, NEW to \in Live, NEW from \in Live, NEW c \in Contents,
           Range(c.kids) \subseteq Kids(from), to \notin Below({to}),
           LET A == Range(c.kids)
               f == Copies(A \cup Below(A))
           IN  Fits(A \cup Below(A)) /\ Becomes(to, Led(c, f), f, Below({to})),
           NEW mid, mid[from] = c, \A n \in Nodes \ {from} : mid[n] = heap[n]
    PROVE  Shape(heap', to) = Shape(mid, from)
<1> DEFINE A == Range(c.kids)
           C == A \cup Below(A)
           f == Copies(C)
           S == {from} \cup C
           g == [s \in S |-> IF s = from THEN to ELSE f[s]]
<1>1. /\ Sound(heap, Live, erased) /\ Live \subseteq Nodes /\ to \in Nodes /\ from \in Nodes
      /\ Forest(KidsIn(heap), Live, erased) /\ KidsIn(heap) \in [Nodes -> SUBSET Heap]
  BY NowSound, SoundFacts
<1>2. A \subseteq Live /\ A \subseteq Nodes /\ Kids(from) = KidsIn(heap)[from]
  <2>1. Kids(from) = KidsIn(heap)[from]
    BY <1>1, KidsFacts
  <2>2. \A n \in Live : KidsIn(heap)[n] \subseteq Live \ erased
    BY <1>1 DEF Forest
  <2>3. Kids(from) \subseteq Live
    BY <2>1, <2>2
  <2> QED
    BY <1>1, <2>1, <2>3
<1>3. Below(A) = Under(KidsIn(heap), A) /\ Below(A) \subseteq Live
  BY <1>1, <1>2, KidsFacts, UnderLives
<1>4. from \notin C
  <2>1. from \notin Under(KidsIn(heap), {from})
    BY <1>1, Acyclic
  <2>2. Kids(from) \subseteq Under(KidsIn(heap), {from})
    BY <1>1, <1>2, UnderOne
  <2>3. A \in SUBSET ({from} \cup Under(KidsIn(heap), {from}))
    BY <2>2
  <2>4. {from} \in SUBSET Nodes
    BY <1>1
  <2>5. Under(KidsIn(heap), A) \subseteq Under(KidsIn(heap), {from})
    BY <1>1, <2>3, <2>4, UnderWithin
  <2> QED
    BY <1>3, <2>1, <2>2, <2>5
<1>5. f \in Injection(C, Heap \ Live)
  BY CopiesFacts
<1>6. Becomes(to, Led(c, f), f, Below({to}))
  OBVIOUS
<1> HIDE DEF f
<1>7. /\ heap'[to] = Led(c, f)
      /\ \A s \in C : f[s] \in Heap /\ f[s] \notin Live
      /\ \A s \in C : heap'[f[s]] = Led(heap[s], f)
  <2> HIDE DEF C
  <2>1. Assigned(to, Led(c, f), C, f, Below({to}))
    BY <1>5, <1>6, BecomesFacts
  <2> QED
    BY <2>1 DEF Assigned
<1>8. /\ \A s \in S : g[s] = IF s = from THEN to ELSE f[s]
      /\ S \in SUBSET Nodes /\ C \subseteq Live /\ from \in S
  BY <1>1, <1>2, <1>3
<1>9. \A s \in C : g[s] = f[s] /\ s \in S /\ mid[s] = heap[s] /\ s \in Nodes
  BY <1>1, <1>4, <1>8
<1> HIDE DEF g
<1>10. ASSUME NEW s \in S
       PROVE  g[s] \in Nodes /\ mid[s] \in Contents /\ heap'[g[s]] = Led(mid[s], f)
  <2>1. CASE s = from
    BY <1>1, <1>7, <1>8, <2>1
  <2>2. CASE s \in C
    <3>1. heap[s] \in Contents
      BY <1>1, <1>9, <2>2 DEF Sound
    <3>2. g[s] \in Nodes
      BY <1>7, <1>9, <2>2 DEF Nodes
    <3> QED
      BY <1>7, <1>9, <2>2, <3>1, <3>2
  <2> QED
    BY <2>1, <2>2
<1>11. ASSUME NEW s \in S, NEW k \in DOMAIN mid[s].kids PROVE mid[s].kids[k] \in C
  <2>1. CASE s = from
    BY <2>1 DEF Range
  <2>2. CASE s \in C
    <3>1. k \in DOMAIN heap[s].kids
      BY <1>9, <2>2
    <3> QED
      BY <1>2, <1>9, <2>2, <3>1, CopiedClosed
  <2> QED
    BY <2>1, <2>2
<1>12. \A s \in S : g[s] \in Nodes /\ heap'[g[s]].kind = mid[s].kind
                      /\ DOMAIN heap'[g[s]].kids = DOMAIN mid[s].kids
  BY <1>10, LedParts
<1>13. ASSUME NEW s \in S, NEW k \in DOMAIN mid[s].kids
       PROVE  mid[s].kids[k] \in S /\ heap'[g[s]].kids[k] = g[mid[s].kids[k]]
  <2>1. mid[s].kids[k] \in C
    BY <1>11
  <2>2. heap'[g[s]].kids[k] = f[mid[s].kids[k]]
    BY <1>10, LedParts
  <2> QED
    BY <1>9, <2>1, <2>2
<1> HIDE DEF S, C
<1>14. Shape(heap', g[from]) = Shape(mid, from)
  <2>1. PICK h2 : h2 = heap'
    OBVIOUS
  <2>2. S \in SUBSET Nodes /\ from \in S
    BY <1>8
  <2>3. \A s \in S : g[s] \in Nodes /\ h2[g[s]].kind = mid[s].kind
                       /\ DOMAIN h2[g[s]].kids = DOMAIN mid[s].kids
    BY <1>12, <2>1
  <2>4. \A s \in S : \A k \in DOMAIN mid[s].kids :
            mid[s].kids[k] \in S /\ h2[g[s]].kids[k] = g[mid[s].kids[k]]
    BY <1>13, <2>1
  <2>5. Shape(h2, g[from]) = Shape(mid, from)
    BY <2>2, <2>3, <2>4, ShapeLed
  <2> QED
    BY <2>1, <2>5
<1>15. g[from] = to
  BY <1>8
<1> QED
  BY <1>14, <1>15

\* `to' is not below itself, and the rest of what lives does not change when its
\* place gets another value.
LEMMA AnotherAt ==
    ASSUME IInv, IInv', NEW to \in Reachable, NEW c, NEW S, NEW f \in Injection(S, Heap \ Live),
           Becomes(to, c, f, Below({to}))
    PROVE  \E x \in Trees!Places(TreeOf(heap)) :
              /\ Trees!Elsewhere(TreeOf(heap'), {x}) = Trees!Elsewhere(TreeOf(heap), {x})
              /\ Trees!Value(TreeOf(heap'), x) = Shape(heap', to)
              /\ <<x, heap[to].kind>> \in TreeOf(heap)
<1>1. to \in Live /\ to \in Nodes /\ Sound(heap, Live, erased) /\ Sound(heap', Live', erased')
  BY HasPlace, NowSound, ThenSound
<1>2. PICK x \in Place : <<x, to>> \in PathsIn(heap)
  BY HasPlace
<1>3. Below({to}) = Under(KidsIn(heap), {to})
  BY <1>1, BelowIsUnder
<1>4. to \notin Below({to})
  BY <1>1, <1>3, SoundFacts, Acyclic
<1>5. \A n \in Live \ ({to} \cup Under(KidsIn(heap), {to})) : heap'[n] = heap[n]
  <2>1. Assigned(to, c, S, f, Below({to}))
    BY <1>1, <1>4, BecomesFacts
  <2> QED
    BY <1>3, <2>1 DEF Assigned
<1>6. /\ Trees!Elsewhere(TreeOf(heap'), {x}) = Trees!Elsewhere(TreeOf(heap), {x})
      /\ Trees!Value(TreeOf(heap'), x) = Shape(heap', to)
  BY <1>1, <1>2, <1>5, ReplacedAt
<1>7. x \in Trees!Places(TreeOf(heap)) /\ <<x, heap[to].kind>> \in TreeOf(heap)
  BY <1>1, <1>2, TreePlaces, TreeOfFacts
<1> QED
  BY <1>6, <1>7

-----------------------------------------------------------------------------
(* Each operation as its user sees it. *)

\* The user's view of a step.
Seen == Trees!Operation(TreeOf(heap), TreeOf(heap'))

\* Another value in a place, a new one or one that is held, is an assignment.
LEMMA AssignSeen ==
    ASSUME NEW x \in Trees!Places(TreeOf(heap)),
           Trees!Elsewhere(TreeOf(heap'), {x}) = Trees!Elsewhere(TreeOf(heap), {x}),
           Trees!Value(TreeOf(heap'), x) \in Trees!Fresh \cup Trees!Held(TreeOf(heap))
    PROVE  Seen
<1>1. Trees!Becomes(TreeOf(heap), TreeOf(heap'), x, Trees!Fresh \cup Trees!Held(TreeOf(heap)))
  BY DEF Trees!Becomes
<1>2. Trees!Assign(TreeOf(heap), TreeOf(heap'))
  BY <1>1 DEF Trees!Assign
<1> QED
  BY <1>2 DEF Seen, Trees!Operation

\* Value::operator=, from within the assigned Value or not.
LEMMA AssignValueSeen ==
    ASSUME IInv, IInv', NEW to \in Reachable, NEW from \in Reachable, AssignValue(to, from)
    PROVE  Seen
<1> DEFINE c == heap[from]
           A == Range(c.kids)
           f == Copies(A \cup Below(A))
<1>1. /\ to \in Live /\ from \in Live /\ from \in Nodes /\ to \in Nodes /\ Contained
      /\ Forest(KidsIn(heap), Live, erased)
  BY HasPlace, InvariantPlants DEF Planted
<1>2. c \in Contents /\ A = Kids(from)
  BY <1>1 DEF Contained, Kids
<1>3. Below({from}) = A \cup Below(A)
  BY <1>1, <1>2, BelowOne
<1>4. Fits(A \cup Below(A)) /\ Becomes(to, Led(c, f), f, Below({to}))
  BY <1>3 DEF AssignValue, Clone
<1>5. to \notin Below({to})
  BY <1>1, BelowIsUnder, Acyclic
<1>6. Shape(heap', to) = Shape(heap, from)
  BY <1>1, <1>2, <1>4, <1>5, AnotherShape
<1>7. f \in Injection(A \cup Below(A), Heap \ Live)
  BY <1>4, CopiesFacts
<1> HIDE DEF f, A, c
<1>8. PICK x \in Trees!Places(TreeOf(heap)) :
         /\ Trees!Elsewhere(TreeOf(heap'), {x}) = Trees!Elsewhere(TreeOf(heap), {x})
         /\ Trees!Value(TreeOf(heap'), x) = Shape(heap', to)
  BY <1>4, <1>7, AnotherAt
<1> QED
  BY <1>6, <1>8, IsHeld, AssignSeen

\* What has nothing in it is a new value.
LEMMA EmptySeen ==
    ASSUME IInv, IInv', NEW to \in Reachable, NEW c \in Contents, c.kids = <<>>,
           c.kind \in Scalars \cup {"array", "struct"}, Becomes(to, c, <<>>, Below({to}))
    PROVE  Seen
<1> DEFINE f == <<>>
           S == {} \cup Below({})
<1>1. to \in Live /\ to \in Nodes /\ Contained /\ Forest(KidsIn(heap), Live, erased)
  BY HasPlace, InvariantPlants DEF Planted
<1>2. f \in Injection(S, Heap \ Live)
  BY <1>1, NoCopies
<1>3. to \notin Below({to})
  BY <1>1, BelowIsUnder, Acyclic
<1>4. Becomes(to, c, f, Below({to}))
  OBVIOUS
<1> HIDE DEF f, S
<1>5. Assigned(to, c, S, f, Below({to}))
  BY <1>1, <1>2, <1>3, <1>4, BecomesFacts
<1>6. heap'[to] = c
  BY <1>5 DEF Assigned
<1>7. Shape(heap', to) = Trees!Single(c.kind)
  BY <1>1, <1>6, ShapeEmpty
<1>8. Shape(heap', to) \in Trees!Fresh
  BY <1>7 DEF Trees!Fresh
<1>9. PICK x \in Trees!Places(TreeOf(heap)) :
         /\ Trees!Elsewhere(TreeOf(heap'), {x}) = Trees!Elsewhere(TreeOf(heap), {x})
         /\ Trees!Value(TreeOf(heap'), x) = Shape(heap', to)
  BY <1>2, <1>4, AnotherAt
<1> QED
  BY <1>8, <1>9, AssignSeen

\* A scalar, an empty array or an empty struct from a temporary.
LEMMA AssignFreshSeen ==
    ASSUME IInv, IInv', NEW to \in Reachable, AssignFresh(to)
    PROVE  Seen
<1>1. PICK c \in {Scalar(s) : s \in Scalars} \cup {EmptyArray, EmptyStruct} :
         Becomes(to, c, <<>>, Below({to}))
  BY DEF AssignFresh
<1>2. c \in Contents /\ c.kids = <<>> /\ c.kind \in Scalars \cup {"array", "struct"}
  <2>1. CASE \E s \in Scalars : c = Scalar(s)
    BY <2>1, IsContent DEF Scalar
  <2>2. CASE c = EmptyArray
    BY <2>2, IsContent, EmptyFacts DEF EmptyArray
  <2>3. CASE c = EmptyStruct
    <3>1. <<>> \in [DOMAIN <<>> -> Heap] /\ DOMAIN <<>> \subseteq Names
      BY EmptyFacts
    <3> QED
      BY <2>3, <3>1, IsContent DEF EmptyStruct
  <2> QED
    BY <1>1, <2>1, <2>2, <2>3
<1> QED
  BY <1>1, <1>2, EmptySeen

\* clear()
LEMMA ClearSeen ==
    ASSUME IInv, IInv', NEW to \in Reachable, Clear(to)
    PROVE  Seen
<1>1. to \in Nodes /\ heap[to] \in Contents /\ heap[to].kind \in {"array", "struct"}
  BY HasPlace, InvariantPlants DEF Clear, Contained
<1>2. PICK kind, kids : heap[to] = [kind |-> kind, kids |-> kids]
  BY <1>1, ContentFacts
<1> DEFINE c == [heap[to] EXCEPT !.kids = <<>>]
<1>3. c = [kind |-> kind, kids |-> <<>>] /\ kind \in {"array", "struct"}
  BY <1>1, <1>2
<1>4. <<>> \in [DOMAIN <<>> -> Heap] /\ DOMAIN <<>> \subseteq Names /\ <<>> \in Seq(Heap)
  BY EmptyFacts
<1>5. c.kind \in Scalars \cup {"array", "struct"} /\ c.kids = <<>>
  BY <1>3
<1>6. c \in Contents
  <2>1. \/ kind = "array" /\ <<>> \in Seq(Heap)
        \/ kind = "struct" /\ DOMAIN <<>> \subseteq Names /\ <<>> \in [DOMAIN <<>> -> Heap]
    BY <1>3, <1>4
  <2> HIDE DEF c
  <2>2. [kind |-> kind, kids |-> <<>>] \in Contents
    BY <2>1, IsContent
  <2> QED
    BY <1>3, <2>2, Zenon
<1>7. Becomes(to, c, <<>>, Below({to}))
  BY DEF Clear
<1> HIDE DEF c
<1> QED
  BY <1>5, <1>6, <1>7, EmptySeen

\* Array::operator= and Struct::operator=.
LEMMA AssignContainerSeen ==
    ASSUME IInv, IInv', NEW to \in Reachable, NEW from \in Reachable, AssignContainer(to, from)
    PROVE  Seen \/ TreeOf(heap') = TreeOf(heap)
<1>1. CASE to = from
  BY <1>1 DEF AssignContainer
<1>2. CASE to # from
  BY <1>2, AssignValueSeen DEF AssignContainer
<1> QED
  BY <1>1, <1>2

\* swap() of containers apart from one another.
LEMMA SwapSeen ==
    ASSUME IInv, IInv', NEW a \in Reachable, NEW b \in Reachable, Swap(a, b)
    PROVE  Seen
<1> DEFINE K == KidsIn(heap)
           T == TreeOf(heap)
           U == TreeOf(heap')
<1>1. /\ a \in Live /\ a \in Nodes /\ b \in Live /\ b \in Nodes
      /\ Sound(heap, Live, erased) /\ Sound(heap', Live', erased')
  BY HasPlace, NowSound, ThenSound
<1>2. PICK x \in Place : <<x, a>> \in PathsIn(heap)
  BY HasPlace
<1>3. PICK y \in Place : <<y, b>> \in PathsIn(heap)
  BY HasPlace
<1>4. a # b /\ a \notin Under(K, {b}) /\ b \notin Under(K, {a})
  BY <1>1, BelowIsUnder DEF Swap, Apart
<1>5. heap'[a] = heap[b] /\ heap'[b] = heap[a] /\ \A n \in Nodes \ {a, b} : heap'[n] = heap[n]
  BY <1>1, <1>4 DEF Swap, Sound
<1>6. ~Holds(x, y) /\ ~Holds(y, x)
  BY <1>1, <1>2, <1>3, <1>4, HeldInHeap
<1> DEFINE P == {x, y}
<1>7. ASSUME NEW p \in Place, NEW n \in Nodes, <<p, n>> \in PathsIn(heap), Outside(P, p)
      PROVE  heap'[n] = heap[n]
  <2>1. n # a
    BY <1>1, <1>2, <1>7, HeldInHeap DEF Outside
  <2>2. n # b
    BY <1>1, <1>3, <1>7, HeldInHeap DEF Outside
  <2> QED
    BY <1>5, <2>1, <2>2
<1>8. P \in SUBSET Place
  OBVIOUS
<1>9. Agree(Arcs(heap), Arcs(heap'), Start, P)
  <2>1. ASSUME NEW p \in Place, NEW n \in Nodes, NEW k \in Key, NEW m \in Nodes,
               <<p, n>> \in PathsIn(heap), Outside(P, p)
        PROVE  <<n, k, m>> \in Arcs(heap) <=> <<n, k, m>> \in Arcs(heap')
    BY <1>7, <2>1, SameArcs
  <2> QED
    BY <2>1 DEF Agree, PathsIn
<1>10. ASSUME NEW q \in Place, NEW k \in Key, NEW o \in Nodes,
              x = Deeper(q, k) \/ y = Deeper(q, k), <<q, o>> \in PathsIn(heap)
       PROVE  /\ Outside(P, q)
              /\ \A m \in Nodes : <<o, k, m>> \in Arcs(heap) => <<o, k, m>> \in Arcs(heap')
  <2>1. Outside(P, q)
    <3>1. ASSUME Holds(x, q) PROVE FALSE
      BY <1>6, <1>10, <3>1, ParentOutside, HoldsDeeper
    <3>2. ASSUME Holds(y, q) PROVE FALSE
      BY <1>6, <1>10, <3>2, ParentOutside, HoldsDeeper
    <3> QED
      BY <3>1, <3>2 DEF Outside
  <2> QED
    BY <1>7, <1>10, <2>1, SameArcs
<1> HIDE DEF P
<1>11. <<x, a>> \in PathsIn(heap')
  BY <1>1, <1>2, <1>8, <1>9, <1>10, StillAt
<1>12. <<y, b>> \in PathsIn(heap')
  BY <1>1, <1>3, <1>8, <1>9, <1>10, StillAt
<1>13. Trees!Elsewhere(U, P) = Trees!Elsewhere(T, P)
  BY <1>1, <1>7, <1>8, <1>9, TreeElsewhere
<1>14. Shape(heap', a) = Shape(heap, b) /\ Shape(heap', b) = Shape(heap, a)
  <2>1. \A n \in Live \ {a, b} : heap'[n] = heap[n]
    BY <1>5 DEF Live
  <2>2. \A n \in Live \ {b, a} : heap'[n] = heap[n]
    BY <2>1
  <2>3. Shape(heap', a) = Shape(heap, b)
    BY <1>1, <1>4, <1>5, <2>1, ExchangedShape
  <2>4. Shape(heap', b) = Shape(heap, a)
    BY <1>1, <1>4, <1>5, <2>2, ExchangedShape
  <2> QED
    BY <2>3, <2>4
<1>15. /\ Trees!Value(U, x) = Shape(heap', a) /\ Trees!Value(U, y) = Shape(heap', b)
       /\ Trees!Value(T, x) = Shape(heap, a) /\ Trees!Value(T, y) = Shape(heap, b)
  BY <1>1, <1>2, <1>3, <1>11, <1>12, TreeValue
<1>16. /\ x \in Trees!Places(T) /\ y \in Trees!Places(T)
       /\ <<x, heap[a].kind>> \in T /\ <<y, heap[b].kind>> \in T
  BY <1>1, <1>2, <1>3, TreePlaces, TreeOfFacts
<1>17. \E kind \in {"array", "struct"} : {<<x, kind>>, <<y, kind>>} \subseteq T
  BY <1>16 DEF Swap
<1>18. ~Trees!IsPrefix(x, y) /\ ~Trees!IsPrefix(y, x)
  BY <1>6, HoldsPrefix
<1>19. Trees!Elsewhere(U, {x, y}) = Trees!Elsewhere(T, {x, y})
  BY <1>13 DEF P
<1> HIDE DEF T, U
<1>20. Trees!Exchange(T, U)
  BY <1>14, <1>15, <1>16, <1>17, <1>18, <1>19 DEF Trees!Exchange
<1> QED
  BY <1>20 DEF Seen, Trees!Operation, T, U

\* The indices of an array, counted.
LEMMA CountKeys ==
    ASSUME NEW kids \in Seq(Heap)
    PROVE  Trees!Cardinality(DOMAIN kids) = Len(kids)
<1>1. PICK l \in Nat : Len(kids) = l
  OBVIOUS
<1>2. DOMAIN kids = 1..l
  BY <1>1
<1>3. Cardinality(1..l) = l
  <2>1. Cardinality(1..l) = IF 1 > l THEN 0 ELSE l - 1 + 1
    BY FS_Interval
  <2> QED
    BY <2>1
<1>4. Trees!Cardinality(1..l) = Cardinality(1..l)
  BY DEF Trees!Cardinality, Cardinality
<1> QED
  BY <1>1, <1>2, <1>3, <1>4

\* An array takes the beginning of another.
LEMMA AssignRangeSeen ==
    ASSUME IInv, IInv', NEW to \in Reachable, NEW from \in Reachable, AssignRange(to, from)
    PROVE  Seen
<1> DEFINE T == TreeOf(heap)
           U == TreeOf(heap')
<1>1. /\ Contained /\ to \in Live /\ from \in Live /\ from \in Nodes /\ to \in Nodes
      /\ Sound(heap, Live, erased) /\ Forest(KidsIn(heap), Live, erased)
  BY HasPlace, NowSound, InvariantPlants DEF Planted
<1>2. PICK kids \in Seq(Heap) : heap[from] = [kind |-> "array", kids |-> kids]
  <2>1. heap[from].kind = "array"
    BY DEF AssignRange
  <2> QED
    BY <1>1, <2>1, ContentFacts DEF Contained
<1>3. PICK i \in 0..Len(heap[from].kids) :
          LET range == [heap[from] EXCEPT !.kids = SubSeq(@, 1, i)]
              copied == Range(range.kids) \cup Below(Range(range.kids))
              f == Copies(copied)
          IN  /\ Fits(copied)
              /\ Becomes(to, Led(range, f), f, Below({to}))
  BY DEF AssignRange
<1>4. heap[from].kids = kids /\ i \in 0..Len(kids)
  BY <1>2
<1> DEFINE c == [heap[from] EXCEPT !.kids = SubSeq(@, 1, i)]
<1>5. PICK part : part = SubSeq(kids, 1, i)
  OBVIOUS
<1>6. c = [kind |-> "array", kids |-> part]
  <2>1. c = [heap[from] EXCEPT !.kids = part]
    BY <1>4, <1>5
  <2> QED
    BY <1>2, <2>1
<1>7. /\ part \in Seq(Heap) /\ DOMAIN part = 1..i /\ DOMAIN kids = 1..Len(kids)
      /\ Len(kids) \in Nat /\ \A k \in 1..i : part[k] = kids[k]
  BY <1>4, <1>5
<1>8. Range(kids) = Kids(from)
  BY <1>2 DEF Kids
<1>9. \A k \in DOMAIN part : k \in DOMAIN kids /\ part[k] = kids[k]
  BY <1>7, <1>4
<1>10. Range(part) \subseteq Kids(from)
  BY <1>8, <1>9 DEF Range
<1>11. c \in Contents /\ c.kind = "array" /\ c.kids = part
  <2> HIDE DEF c
  <2> QED
    BY <1>6, <1>7, IsContent
<1> DEFINE A == Range(c.kids)
           C == A \cup Below(A)
           f == Copies(C)
<1>12. Fits(C) /\ Becomes(to, Led(c, f), f, Below({to}))
  BY <1>3
<1>13. to \notin Below({to})
  BY <1>1, BelowIsUnder, Acyclic
<1> HIDE DEF c
<1>14. PICK mid : mid = [heap EXCEPT ![from] = c]
  OBVIOUS
<1>15. mid[from] = c /\ \A n \in Nodes \ {from} : mid[n] = heap[n]
  BY <1>1, <1>14 DEF Contained
<1>16. Shape(heap', to) = Shape(mid, from)
  BY <1>1, <1>10, <1>11, <1>12, <1>13, <1>15, AnotherShape
<1>17. Shape(mid, from) = Trees!First(i, Shape(heap, from))
  <2>1. /\ mid[from].kind = heap[from].kind /\ heap[from].kind = "array"
        /\ mid[from].kids = SubSeq(heap[from].kids, 1, i)
    BY <1>2, <1>4, <1>5, <1>11, <1>15
  <2> QED
    BY <1>1, <1>3, <1>15, <2>1, ShapeFirst
<1>18. f \in Injection(C, Heap \ Live)
  BY <1>12, CopiesFacts
<1> HIDE DEF f, C
<1>19. PICK x \in Trees!Places(T) :
          /\ Trees!Elsewhere(U, {x}) = Trees!Elsewhere(T, {x})
          /\ Trees!Value(U, x) = Shape(heap', to)
          /\ <<x, heap[to].kind>> \in T
  BY <1>12, <1>18, AnotherAt
<1>20. PICK y \in Place : <<y, from>> \in PathsIn(heap)
  BY HasPlace
<1>21. /\ y \in Trees!Places(T) /\ <<y, heap[from].kind>> \in T
       /\ Trees!Value(T, y) = Shape(heap, from) /\ Trees!Keys(T, y) = DOMAIN kids
  BY <1>1, <1>4, <1>20, TreePlaces, TreeOfFacts, TreeValue, TreeKeys
<1>22. i \in 0..Trees!Cardinality(Trees!Keys(T, y))
  BY <1>4, <1>21, CountKeys
<1>23. <<x, "array">> \in T /\ <<y, "array">> \in T
  BY <1>19, <1>21 DEF AssignRange
<1> HIDE DEF T, U
<1> DEFINE F == {Trees!First(j, Trees!Value(T, y)) : j \in 0..Trees!Cardinality(Trees!Keys(T, y))}
<1>24. Trees!Value(U, x) \in F
  BY <1>16, <1>17, <1>19, <1>21, <1>22
<1>25. Trees!Becomes(T, U, x, F)
  BY <1>19, <1>24 DEF Trees!Becomes
<1>26. Trees!AssignRange(T, U)
  BY <1>19, <1>21, <1>23, <1>25 DEF Trees!AssignRange
<1> QED
  BY <1>26 DEF Seen, Trees!Operation, T, U

\* A copy stands for the tree it was copied from.
LEMMA CopyShape ==
    ASSUME IInv, NEW to \in Live, NEW from \in Live, NEW c, NEW D, to \notin D,
           NEW f \in Injection({from} \cup Below({from}), Heap \ Live), Becomes(to, c, f, D)
    PROVE  Shape(heap', f[from]) = Shape(heap, from)
<1> DEFINE A == {from}
           S == A \cup Below(A)
<1>1. Live \subseteq Nodes /\ Heap \subseteq Nodes /\ A \in SUBSET Live /\ from \in S
  BY DEF Live, Nodes
<1>2. Assigned(to, c, S, f, D)
  BY BecomesFacts
<1> HIDE DEF S, A
<1>3. /\ \A s \in S : f[s] \in Heap
      /\ \A s \in S : heap'[f[s]] = Led(heap[s], f)
  BY <1>2 DEF Assigned
<1>4. ASSUME NEW s \in S
      PROVE  /\ s \in Nodes
             /\ \A k \in DOMAIN heap[s].kids : heap[s].kids[k] \in S
  <2>1. \A k \in DOMAIN heap[s].kids : heap[s].kids[k] \in Below(A)
    BY <1>1, <1>4, CopiedClosed DEF S
  <2>2. Below(A) \subseteq Heap
    BY DEF Below
  <2> QED
    BY <1>1, <1>4, <2>1, <2>2 DEF S
<1>5. \A s \in S : heap[s] \in Contents
  BY <1>4, InvariantPlants DEF Contained
<1>6. \A s \in S : f[s] \in Nodes /\ heap'[f[s]].kind = heap[s].kind
                      /\ DOMAIN heap'[f[s]].kids = DOMAIN heap[s].kids
  BY <1>1, <1>3, <1>5, LedParts
<1>7. \A s \in S : \A k \in DOMAIN heap[s].kids :
          heap[s].kids[k] \in S /\ heap'[f[s]].kids[k] = f[heap[s].kids[k]]
  BY <1>3, <1>4, <1>5, LedParts
<1>8. PICK h2 : h2 = heap'
  OBVIOUS
<1>9. S \in SUBSET Nodes
  BY <1>4
<1>10. \A s \in S : f[s] \in Nodes /\ h2[f[s]].kind = heap[s].kind
                       /\ DOMAIN h2[f[s]].kids = DOMAIN heap[s].kids
  BY <1>6, <1>8
<1>11. \A s \in S : \A k \in DOMAIN heap[s].kids :
          heap[s].kids[k] \in S /\ h2[f[s]].kids[k] = f[heap[s].kids[k]]
  BY <1>7, <1>8
<1>12. Shape(h2, f[from]) = Shape(heap, from)
  BY <1>1, <1>9, <1>10, <1>11, ShapeLed
<1> QED
  BY <1>8, <1>12

\* What changes with the kid k of `to': what is in that place.
Child(to, k, y) ==
    /\ y \in Trees!Places(TreeOf(heap)) /\ <<y, heap[to].kind>> \in TreeOf(heap)
    /\ Trees!Keys(TreeOf(heap), y) = DOMAIN heap[to].kids
    /\ Trees!Elsewhere(TreeOf(heap'), {Append(y, k)}) = Trees!Elsewhere(TreeOf(heap), {Append(y, k)})
    /\ k \in DOMAIN heap'[to].kids =>
           Trees!Value(TreeOf(heap'), Append(y, k)) = Shape(heap', heap'[to].kids[k])
    /\ k \notin DOMAIN heap'[to].kids =>
           Trees!Value(TreeOf(heap'), Append(y, k)) = Trees!Nothing

\* An operation that spares all but one key of `to' changes one place.
LEMMA ChildSeen ==
    ASSUME IInv, IInv', NEW to \in Reachable, NEW k \in Key, heap'[to].kind = heap[to].kind,
           DOMAIN heap'[to].kids \ {k} = DOMAIN heap[to].kids \ {k},
           \A j \in DOMAIN heap[to].kids \ {k} : heap'[to].kids[j] = heap[to].kids[j],
           NEW D, \A n \in Live \ (D \cup {to}) : heap'[n] = heap[n],
           \A n \in D : /\ k \in DOMAIN heap[to].kids
                        /\ n \in {heap[to].kids[k]} \cup Below({heap[to].kids[k]})
    PROVE  \E y \in Place : Child(to, k, y)
<1>1. /\ to \in Live /\ to \in Nodes /\ Contained
      /\ Sound(heap, Live, erased) /\ Sound(heap', Live', erased')
  BY HasPlace, NowSound, ThenSound, InvariantPlants
<1>2. PICK y \in Place : <<y, to>> \in PathsIn(heap)
  BY HasPlace
<1>3. /\ y \in Trees!Places(TreeOf(heap)) /\ <<y, heap[to].kind>> \in TreeOf(heap)
      /\ Trees!Keys(TreeOf(heap), y) = DOMAIN heap[to].kids
  BY <1>1, <1>2, TreePlaces, TreeOfFacts, TreeKeys
<1>4. ASSUME NEW j \in Key \ {k}, NEW m \in Nodes
      PROVE  <<to, j, m>> \in Arcs(heap) <=> <<to, j, m>> \in Arcs(heap')
  <2>1. j \in DOMAIN heap[to].kids <=> j \in DOMAIN heap'[to].kids
    BY <1>4
  <2> QED
    BY <1>1, <1>4, <2>1, ArcFacts
<1>5. ASSUME NEW n \in Live \ {to}
      PROVE  \/ heap'[n] = heap[n]
             \/ \E c \in Nodes : <<to, k, c>> \in Arcs(heap) /\ n \in {c} \cup Under(KidsIn(heap), {c})
  <2>1. CASE n \notin D
    BY <1>5, <2>1
  <2>2. CASE n \in D
    <3>1. PICK c : c = heap[to].kids[k]
      OBVIOUS
    <3>2. k \in DOMAIN heap[to].kids /\ n \in {c} \cup Below({c})
      BY <2>2, <3>1
    <3>3. c \in Nodes
      BY <1>1, <3>1, <3>2, KeyFacts DEF Contained
    <3>4. <<to, k, c>> \in Arcs(heap)
      BY <1>1, <3>1, <3>2, <3>3, ArcFacts
    <3> QED
      BY <3>2, <3>3, <3>4, BelowIsUnder
  <2> QED
    BY <2>1, <2>2
<1>6. /\ Trees!Elsewhere(TreeOf(heap'), {Deeper(y, k)}) = Trees!Elsewhere(TreeOf(heap), {Deeper(y, k)})
      /\ \A m \in Nodes : <<to, k, m>> \in Arcs(heap') =>
            Trees!Value(TreeOf(heap'), Deeper(y, k)) = Shape(heap', m)
      /\ (\A m \in Nodes : <<to, k, m>> \notin Arcs(heap')) =>
            Trees!Value(TreeOf(heap'), Deeper(y, k)) = Trees!Nothing
  <2>1. PICK h2, L2, X2 : h2 = heap' /\ L2 = Live' /\ X2 = erased'
    OBVIOUS
  <2>2. Sound(h2, L2, X2) /\ h2[to].kind = heap[to].kind
    BY <1>1, <2>1
  <2>3. \A j \in Key \ {k}, m \in Nodes : <<to, j, m>> \in Arcs(heap) <=> <<to, j, m>> \in Arcs(h2)
    BY <1>4, <2>1
  <2>4. \A n \in Live \ {to} :
           \/ h2[n] = heap[n]
           \/ \E c \in Nodes : <<to, k, c>> \in Arcs(heap) /\ n \in {c} \cup Under(KidsIn(heap), {c})
    BY <1>5, <2>1
  <2>5. Spared(heap, Live, h2, to, k)
    BY <2>2, <2>3, <2>4 DEF Spared
  <2>6. Changed(heap, h2, to, k, Deeper(y, k))
    BY <1>1, <1>2, <2>2, <2>5, ChildAt
  <2> QED
    BY <2>1, <2>6 DEF Changed
<1>7. ASSUME k \in DOMAIN heap'[to].kids
      PROVE  Trees!Value(TreeOf(heap'), Deeper(y, k)) = Shape(heap', heap'[to].kids[k])
  <2>1. PICK h2 : h2 = heap'
    OBVIOUS
  <2>2. h2[to] \in Contents /\ k \in DOMAIN h2[to].kids
    BY <1>1, <1>7, <2>1 DEF Sound
  <2>3. h2[to].kids[k] \in Nodes
    BY <2>2, KeyFacts
  <2>4. <<to, k, h2[to].kids[k]>> \in Arcs(h2)
    BY <1>1, <2>2, <2>3, ArcFacts
  <2> QED
    BY <1>6, <2>1, <2>3, <2>4
<1>8. ASSUME k \notin DOMAIN heap'[to].kids
      PROVE  Trees!Value(TreeOf(heap'), Deeper(y, k)) = Trees!Nothing
  BY <1>1, <1>6, <1>8, ArcFacts
<1>9. Child(to, k, y)
  BY <1>3, <1>6, <1>7, <1>8 DEF Child, Deeper
<1> QED
  BY <1>9

\* A container gets a copy for the key k.
LEMMA GetsCopy ==
    ASSUME IInv, IInv', NEW to \in Reachable, NEW from \in Reachable, NEW k \in Key, NEW c \in Contents,
           NEW f \in Injection({from} \cup Below({from}), Heap \ Live), NEW D, to \notin D,
           Becomes(to, c, f, D), c.kind = heap[to].kind,
           DOMAIN c.kids = DOMAIN heap[to].kids \cup {k}, c.kids[k] = f[from],
           \A j \in DOMAIN heap[to].kids \ {k} : c.kids[j] = heap[to].kids[j],
           \A n \in D : /\ k \in DOMAIN heap[to].kids
                        /\ n \in {heap[to].kids[k]} \cup Below({heap[to].kids[k]})
    PROVE  \E y \in Place :
              /\ Child(to, k, y)
              /\ Trees!Becomes(TreeOf(heap), TreeOf(heap'), Append(y, k), Trees!Held(TreeOf(heap)))
<1>1. to \in Live /\ from \in Live
  BY HasPlace
<1>2. Assigned(to, c, {from} \cup Below({from}), f, D)
  BY <1>1, BecomesFacts
<1>3. heap'[to] = c /\ \A n \in Live \ (D \cup {to}) : heap'[n] = heap[n]
  BY <1>2 DEF Assigned
<1>4. /\ heap'[to].kind = heap[to].kind
      /\ DOMAIN heap'[to].kids \ {k} = DOMAIN heap[to].kids \ {k}
      /\ k \in DOMAIN heap'[to].kids /\ heap'[to].kids[k] = f[from]
  BY <1>3
<1>5. \A j \in DOMAIN heap[to].kids \ {k} : heap'[to].kids[j] = heap[to].kids[j]
  BY <1>3
<1>6. PICK y \in Place : Child(to, k, y)
  BY <1>3, <1>4, <1>5, ChildSeen
<1>7. Shape(heap', f[from]) = Shape(heap, from)
  BY <1>1, CopyShape
<1>8. Trees!Value(TreeOf(heap'), Append(y, k)) = Shape(heap, from)
  BY <1>4, <1>6, <1>7 DEF Child
<1>9. Shape(heap, from) \in Trees!Held(TreeOf(heap))
  BY IsHeld
<1>10. Trees!Becomes(TreeOf(heap), TreeOf(heap'), Append(y, k), Trees!Held(TreeOf(heap)))
  BY <1>6, <1>8, <1>9 DEF Trees!Becomes, Child
<1> QED
  BY <1>6, <1>10

\* push_back() of a copy.
LEMMA PushBackSeen ==
    ASSUME IInv, IInv', NEW to \in Reachable, NEW from \in Reachable, PushBack(to, from)
    PROVE  Seen
<1> DEFINE f == Copies({from} \cup Below({from}))
           c == [heap[to] EXCEPT !.kids = Append(@, f[from])]
<1>1. Contained /\ to \in Live /\ from \in Live /\ to \in Nodes /\ heap[to].kind = "array"
  BY InvariantPlants, HasPlace DEF PushBack
<1>2. Fits({from} \cup Below({from})) /\ Becomes(to, c, f, {})
  BY DEF PushBack
<1>3. f[from] \in Heap
  BY <1>1, <1>2, CopyIsNew
<1>4. f \in Injection({from} \cup Below({from}), Heap \ Live)
  BY <1>2, CopiesFacts
<1> HIDE DEF f
<1>5. PICK kids \in Seq(Heap) : heap[to] = [kind |-> "array", kids |-> kids]
  BY <1>1, ContentFacts DEF Contained
<1>6. PICK new : new = Append(kids, f[from])
  OBVIOUS
<1>7. c = [kind |-> "array", kids |-> new]
  <2>1. heap[to].kids = kids
    BY <1>5
  <2>2. c = [heap[to] EXCEPT !.kids = new]
    BY <1>6, <2>1
  <2> QED
    BY <1>5, <2>2
<1>8. PICK l \in Nat : Len(kids) = l
  BY <1>5
<1>9. /\ new \in Seq(Heap) /\ DOMAIN kids = 1..l /\ DOMAIN new = 1..(l + 1)
      /\ \A k \in 1..l : new[k] = kids[k]
      /\ new[l + 1] = f[from]
  BY <1>3, <1>5, <1>6, <1>8
<1>10. PICK k \in Key : k = l + 1 /\ DOMAIN new = DOMAIN kids \cup {k} /\ k \notin DOMAIN kids
  <2>1. l + 1 \in Key
    BY <1>8 DEF Key
  <2>2. DOMAIN new = DOMAIN kids \cup {l + 1} /\ l + 1 \notin DOMAIN kids
    BY <1>8, <1>9
  <2> QED
    BY <2>1, <2>2
<1>11. /\ c \in Contents /\ c.kind = heap[to].kind /\ c.kids = new /\ heap[to].kids = kids
  BY <1>5, <1>7, <1>9, IsContent
<1> HIDE DEF c
<1>12. /\ DOMAIN c.kids = DOMAIN heap[to].kids \cup {k} /\ c.kids[k] = f[from]
       /\ \A j \in DOMAIN heap[to].kids \ {k} : c.kids[j] = heap[to].kids[j]
  BY <1>9, <1>10, <1>11
<1>13. PICK y \in Place :
          /\ Child(to, k, y)
          /\ Trees!Becomes(TreeOf(heap), TreeOf(heap'), Append(y, k), Trees!Held(TreeOf(heap)))
  <2>1. PICK D : D = {}
    OBVIOUS
  <2>2. /\ to \notin D /\ Becomes(to, c, f, D)
        /\ \A n \in D : /\ k \in DOMAIN heap[to].kids
                        /\ n \in {heap[to].kids[k]} \cup Below({heap[to].kids[k]})
    BY <1>2, <2>1
  <2> QED
    BY <1>4, <1>11, <1>12, <2>2, GetsCopy
<1>14. k = Trees!Cardinality(Trees!Keys(TreeOf(heap), y)) + 1
  <2>1. Trees!Keys(TreeOf(heap), y) = DOMAIN kids
    BY <1>11, <1>13 DEF Child
  <2> QED
    BY <1>8, <1>10, <2>1, CountKeys
<1>15. y \in Trees!Places(TreeOf(heap)) /\ <<y, "array">> \in TreeOf(heap)
  BY <1>1, <1>13 DEF Child
<1>16. Trees!PushBack(TreeOf(heap), TreeOf(heap'))
  BY <1>13, <1>14, <1>15 DEF Trees!PushBack
<1> QED
  BY <1>16 DEF Seen, Trees!Operation

\* insert(), over a member of that name or not.
LEMMA InsertMemberSeen ==
    ASSUME IInv, IInv', NEW to \in Reachable, NEW from \in Reachable, NEW n \in Names,
           InsertMember(to, n, from)
    PROVE  Seen
<1> DEFINE f == Copies({from} \cup Below({from}))
           c == [heap[to] EXCEPT !.kids =
                    [m \in DOMAIN @ \cup {n} |-> IF m = n THEN f[from] ELSE @[m]]]
           D == Replaced(to, n)
<1>1. /\ Contained /\ to \in Live /\ from \in Live /\ to \in Nodes /\ heap[to].kind = "struct"
      /\ Forest(KidsIn(heap), Live, erased) /\ n \in Key
  BY InvariantPlants, HasPlace DEF InsertMember, Planted, Key
<1>2. Fits({from} \cup Below({from})) /\ Becomes(to, c, f, D)
  BY DEF InsertMember
<1>3. f[from] \in Heap
  BY <1>1, <1>2, CopyIsNew
<1>4. f \in Injection({from} \cup Below({from}), Heap \ Live)
  BY <1>2, CopiesFacts
<1> HIDE DEF f
<1>5. PICK kids : /\ heap[to] = [kind |-> "struct", kids |-> kids]
                  /\ kids \in [DOMAIN kids -> Heap] /\ DOMAIN kids \subseteq Names
  BY <1>1, ContentFacts DEF Contained
<1> DEFINE new == [m \in DOMAIN kids \cup {n} |-> IF m = n THEN f[from] ELSE kids[m]]
           old == {kids[m] : m \in DOMAIN kids \cap {n}}
<1>6. c = [kind |-> "struct", kids |-> new]
  BY <1>5
<1>7. new \in [DOMAIN new -> Heap] /\ DOMAIN new \subseteq Names
  BY <1>3, <1>5
<1>8. DOMAIN new = DOMAIN kids \cup {n} /\ new[n] = f[from] /\ \A m \in DOMAIN kids \ {n} : new[m] = kids[m]
  OBVIOUS
<1> HIDE DEF new
<1>9. c \in Contents /\ c.kind = heap[to].kind /\ c.kids = new /\ heap[to].kids = kids
  BY <1>5, <1>6, <1>7, IsContent
<1>10. D = old \cup Below(old)
  BY <1>5 DEF Replaced
<1>11. ASSUME NEW m \in D
       PROVE  n \in DOMAIN kids /\ m \in {kids[n]} \cup Below({kids[n]})
  <2>1. CASE n \in DOMAIN kids
    <3>1. old = {kids[n]}
      BY <2>1
    <3> QED
      BY <1>10, <1>11, <2>1, <3>1
  <2>2. CASE n \notin DOMAIN kids
    <3>1. old = {}
      BY <2>2
    <3>2. D = {}
      BY <1>1, <1>10, <3>1, NoCopies
    <3> QED
      BY <1>11, <3>2
  <2> QED
    BY <2>1, <2>2
<1> HIDE DEF D, old, c
<1>12. to \notin D
  <2>1. ASSUME to \in D PROVE FALSE
    <3>1. n \in DOMAIN heap[to].kids /\ to \in {heap[to].kids[n]} \cup Below({heap[to].kids[n]})
      BY <1>9, <1>11, <2>1
    <3>2. heap[to].kids[n] \in Kids(to)
      BY <3>1 DEF Kids, Range
    <3>3. {heap[to].kids[n]} \cup Below({heap[to].kids[n]}) \subseteq Below({to})
      <4>1. KidsIn(heap) \in [Nodes -> SUBSET Heap] /\ Kids(to) = KidsIn(heap)[to]
        BY <1>1, GraphFacts
      <4>2. heap[to].kids[n] \in Under(KidsIn(heap), {to}) /\ heap[to].kids[n] \in Nodes
        <5>1. Under(KidsIn(heap), {to}) = KidsIn(heap)[to] \cup Under(KidsIn(heap), KidsIn(heap)[to])
          BY <1>1, <4>1, UnderOne
        <5>2. Under(KidsIn(heap), {to}) \subseteq Heap
          BY DEF Under
        <5> QED
          BY <3>2, <4>1, <5>1, <5>2 DEF Nodes
      <4>3. {heap[to].kids[n]} \in SUBSET ({to} \cup Under(KidsIn(heap), {to})) /\ {to} \in SUBSET Nodes
        BY <1>1, <4>2
      <4>4. Under(KidsIn(heap), {heap[to].kids[n]}) \subseteq Under(KidsIn(heap), {to})
        BY <4>1, <4>3, UnderWithin
      <4> QED
        BY <1>1, <4>2, <4>4, BelowIsUnder
    <3> QED
      BY <1>1, <3>1, <3>3, BelowIsUnder, Acyclic
  <2> QED
    BY <2>1
<1>13. PICK y \in Place :
          /\ Child(to, n, y)
          /\ Trees!Becomes(TreeOf(heap), TreeOf(heap'), Append(y, n), Trees!Held(TreeOf(heap)))
  <2>1. /\ DOMAIN c.kids = DOMAIN heap[to].kids \cup {n} /\ c.kids[n] = f[from]
        /\ \A j \in DOMAIN heap[to].kids \ {n} : c.kids[j] = heap[to].kids[j]
    BY <1>8, <1>9
  <2>2. \A m \in D : /\ n \in DOMAIN heap[to].kids
                     /\ m \in {heap[to].kids[n]} \cup Below({heap[to].kids[n]})
    BY <1>9, <1>11
  <2> QED
    BY <1>1, <1>2, <1>4, <1>9, <1>12, <2>1, <2>2, GetsCopy
<1>14. y \in Trees!Places(TreeOf(heap)) /\ <<y, "struct">> \in TreeOf(heap)
  BY <1>1, <1>13 DEF Child
<1>15. Trees!InsertMember(TreeOf(heap), TreeOf(heap'))
  BY <1>13, <1>14 DEF Trees!InsertMember
<1> QED
  BY <1>15 DEF Seen, Trees!Operation

\* erase(): the member is gone for its users.
LEMMA EraseMemberSeen ==
    ASSUME IInv, IInv', NEW to \in Reachable, NEW n \in Names, EraseMember(to, n)
    PROVE  Seen
<1>1. /\ Contained /\ to \in Live /\ to \in Nodes /\ heap[to].kind = "struct" /\ n \in Key
  BY InvariantPlants, HasPlace DEF EraseMember, Key
<1>2. PICK kids : /\ heap[to] = [kind |-> "struct", kids |-> kids]
                  /\ kids \in [DOMAIN kids -> Heap] /\ DOMAIN kids \subseteq Names
  BY <1>1, ContentFacts DEF Contained
<1> DEFINE rest == Restrict(kids, DOMAIN kids \ {n})
<1>3. heap' = [heap EXCEPT ![to].kids = rest] /\ heap[to].kids = kids
  BY <1>2 DEF EraseMember
<1>4. DOMAIN rest = DOMAIN kids \ {n} /\ \A m \in DOMAIN rest : rest[m] = kids[m]
  BY DEF Restrict
<1> HIDE DEF rest
<1>5. heap'[to] = [kind |-> "struct", kids |-> rest]
  BY <1>1, <1>2, <1>3 DEF Contained
<1>6. \A m \in Nodes \ {to} : heap'[m] = heap[m]
  BY <1>1, <1>3 DEF Contained
<1>7. /\ heap'[to].kind = heap[to].kind
      /\ DOMAIN heap'[to].kids \ {n} = DOMAIN heap[to].kids \ {n}
      /\ n \notin DOMAIN heap'[to].kids
      /\ \A j \in DOMAIN heap[to].kids \ {n} : heap'[to].kids[j] = heap[to].kids[j]
  BY <1>1, <1>3, <1>4, <1>5
<1>8. PICK y \in Place : Child(to, n, y)
  <2>1. PICK D : D = {}
    OBVIOUS
  <2>2. \A m \in Live \ (D \cup {to}) : heap'[m] = heap[m]
    BY <1>6 DEF Live
  <2>3. \A m \in D : /\ n \in DOMAIN heap[to].kids
                     /\ m \in {heap[to].kids[n]} \cup Below({heap[to].kids[n]})
    BY <2>1
  <2> QED
    BY <1>1, <1>7, <2>2, <2>3, ChildSeen
<1>9. y \in Trees!Places(TreeOf(heap)) /\ <<y, "struct">> \in TreeOf(heap)
  BY <1>1, <1>8 DEF Child
<1>10. Trees!Becomes(TreeOf(heap), TreeOf(heap'), Append(y, n), {Trees!Nothing})
  BY <1>7, <1>8 DEF Trees!Becomes, Child
<1>11. Trees!EraseMember(TreeOf(heap), TreeOf(heap'))
  BY <1>9, <1>10 DEF Trees!EraseMember
<1> QED
  BY <1>11 DEF Seen, Trees!Operation

-----------------------------------------------------------------------------
(* Values are trees. *)

\* At the start the variables hold nothing, and so say the places.
LEMMA InitSeen == Init => Trees!Init
<1> SUFFICES ASSUME Init PROVE TreeOf(heap) = {<<<<v>>, "nil">> : v \in Variables}
  BY DEF Trees!Init
<1>1. IInv
  BY InitInvariant
<1>2. Sound(heap, Live, erased)
  BY <1>1, NowSound
<1>3. \A n \in Nodes : heap[n].kids = <<>>
  BY DEF Init, Scalar, Free
<1>4. \A v \in Variables : v \in Nodes /\ heap[v].kind = "nil"
  BY DEF Init, Scalar, Nodes
<1>5. PathsIn(heap) = Start
  <2>1. Start \subseteq PathsIn(heap)
    BY StartFacts, PathsRoots DEF PathsIn
  <2>2. ASSUME NEW q \in Place, NEW o \in Nodes, NEW k \in Key, NEW m \in Nodes,
               <<q, o>> \in Start, <<o, k, m>> \in Arcs(heap)
        PROVE  <<Deeper(q, k), m>> \in Start
    BY <1>3, <2>2, ArcFacts, EmptyFacts
  <2>3. PathsIn(heap) \subseteq Start
    BY <2>2, StartFacts, PathsLeast DEF PathsIn
  <2> QED
    BY <2>1, <2>3
<1>6. TreeOf(heap) = {<<w[1], heap[w[2]].kind>> : w \in Start}
  BY <1>2, <1>5, TreeOfFacts
<1>7. ASSUME NEW v \in Variables PROVE <<<<v>>, "nil">> \in TreeOf(heap)
  <2>1. PICK w : w = <<<<v>>, v>>
    OBVIOUS
  <2>2. w \in Start /\ w[1] = <<v>> /\ w[2] = v
    BY <2>1 DEF Start
  <2>3. <<w[1], heap[w[2]].kind>> \in TreeOf(heap)
    BY <1>6, <2>2
  <2> QED
    BY <1>4, <2>2, <2>3
<1>8. ASSUME NEW t \in TreeOf(heap) PROVE \E v \in Variables : t = <<<<v>>, "nil">>
  <2>1. PICK w \in Start : t = <<w[1], heap[w[2]].kind>>
    BY <1>6
  <2>2. PICK v \in Variables : w = <<<<v>>, v>>
    BY DEF Start
  <2>3. w[1] = <<v>> /\ w[2] = v
    BY <2>2
  <2> QED
    BY <1>4, <2>1, <2>3
<1> QED
  BY <1>7, <1>8

\* Every step of the heap is an operation on the trees, or none.
LEMMA StepSeen == IInv /\ IInv' /\ [Next]_vars => [Trees!Next]_(TreeOf(heap))
<1> SUFFICES ASSUME IInv, IInv', [Next]_vars PROVE Seen \/ TreeOf(heap') = TreeOf(heap)
  BY DEF Seen, Trees!Next
<1>1. ASSUME NEW to \in Reachable, NEW n \in Names, EraseMember(to, n) PROVE Seen
  BY <1>1, EraseMemberSeen
<1>2. ASSUME NEW to \in Reachable, AssignFresh(to) PROVE Seen
  BY <1>2, AssignFreshSeen
<1>3. ASSUME NEW to \in Reachable, Clear(to) PROVE Seen
  BY <1>3, ClearSeen
<1>4. ASSUME NEW to \in Reachable, NEW from \in Reachable,
             AssignValue(to, from) \/ AssignRange(to, from) \/ PushBack(to, from) \/ Swap(to, from)
      PROVE  Seen
  BY <1>4, AssignValueSeen, AssignRangeSeen, PushBackSeen, SwapSeen
<1>5. ASSUME NEW to \in Reachable, NEW from \in Reachable, AssignContainer(to, from)
      PROVE  Seen \/ TreeOf(heap') = TreeOf(heap)
  BY <1>5, AssignContainerSeen
<1>6. ASSUME NEW to \in Reachable, NEW from \in Reachable, NEW n \in Names, InsertMember(to, n, from)
      PROVE  Seen
  BY <1>6, InsertMemberSeen
<1>7. CASE UNCHANGED vars
  BY <1>7 DEF vars
<1> QED
  BY <1>1, <1>2, <1>3, <1>4, <1>5, <1>6, <1>7 DEF Next

\* Whatever its operations do to the heap, a user of Values sees trees of his own.
THEOREM ValuesAreTrees == Spec => ImplementsTrees
<1>1. Init => Trees!Init
  BY InitSeen
<1>2. IInv /\ IInv' /\ [Next]_vars => [Trees!Next]_(TreeOf(heap))
  BY StepSeen
<1> QED
  BY <1>1, <1>2, InvariantHolds, PTL DEF Spec, ImplementsTrees, Trees!Spec

=============================================================================
