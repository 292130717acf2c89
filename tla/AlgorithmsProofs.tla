-------------------------- MODULE AlgorithmsProofs --------------------------
(***************************************************************************)
(* Theorems about the pure parts of Kastor, for inputs of any size.        *)
(*                                                                         *)
(* Induction and recursion are stated for sets and functions, not for      *)
(* operators, so that each use of them is a first-order one.               *)
(***************************************************************************)
EXTENDS MCAlgorithms, SequenceTheorems, FiniteSetTheorems, TLAPS

(* A set of numbers that is not empty has a least element. *)
LEMMA SmallestOf ==
    ASSUME NEW T \in SUBSET Nat, T # {}
    PROVE  \E x \in T : \A y \in T : x <= y
<1> DEFINE R == {ss \in Nat \X Nat : ss[1] < ss[2]}
<1>1. IsWellFoundedOn(R, Nat)
    BY NatLessThanWellFounded DEF OpToRel
<1>2. PICK x \in T : \A y \in T : ~ (<<y, x>> \in R)
    <2> HIDE DEF R
    <2> QED
        BY <1>1, WFMin
<1>3. \A y \in T : ~ (y < x)
    BY <1>2
<1>4. QED
    BY <1>3

(* What holds of 0, and of n + 1 when it holds of n, holds of every number. *)
LEMMA Induction ==
    ASSUME NEW T \in SUBSET Nat, 0 \in T, \A n \in T : n + 1 \in T
    PROVE  T = Nat
<1>1. SUFFICES ASSUME Nat \ T # {}
               PROVE  FALSE
    OBVIOUS
<1>2. PICK x \in Nat \ T : \A y \in Nat \ T : x <= y
    BY <1>1, SmallestOf
<1>3. x # 0 /\ x - 1 \in Nat /\ x - 1 \in T
    BY <1>2
<1>4. QED
    BY <1>2, <1>3

(* Any step from A to A can be repeated for ever. *)
Iterates(A, a0, next, f) ==
    /\ f \in [Nat -> A] /\ f[0] = a0
    /\ \A n \in Nat : f[n + 1] = next[f[n]]

(* A function can be iterated: there is the sequence of what it makes of a  *)
(* first value.                                                             *)
LEMMA Iteration ==
    ASSUME NEW A, NEW a0 \in A, NEW next \in [A -> A]
    PROVE  \E f : Iterates(A, a0, next, f)
<1> DEFINE Upto(n, g) == /\ g \in [0 .. n -> A] /\ g[0] = a0
                         /\ \A k \in 0 .. (n - 1) : g[k + 1] = next[g[k]]
           E == {n \in Nat : \E g : Upto(n, g)}
           c(n) == CHOOSE g : Upto(n, g)
           f == [n \in Nat |-> c(n)[n]]
<1>1. E = Nat
    <2>1. 0 \in E
        <3>1. Upto(0, [k \in 0 .. 0 |-> a0])
            OBVIOUS
        <3>2. QED
            BY <3>1
    <2>2. ASSUME NEW n \in E
          PROVE  n + 1 \in E
        <3>1. PICK g : Upto(n, g)
            OBVIOUS
        <3> DEFINE h == [k \in 0 .. (n + 1) |-> IF k = n + 1 THEN next[g[n]] ELSE g[k]]
        <3>2. Upto(n + 1, h) /\ n + 1 \in Nat
            BY <3>1
        <3>3. QED
            <4> HIDE DEF Upto, h
            <4> QED
                BY <3>2
    <2>3. QED
        <3> HIDE DEF E
        <3> QED
            BY <2>1, <2>2, Induction DEF E
<1>2. ASSUME NEW m \in Nat, NEW n \in Nat, m <= n, NEW g, Upto(m, g), NEW h, Upto(n, h)
      PROVE  g[m] = h[m]
    <2> DEFINE T == {k \in Nat : k <= m => g[k] = h[k]}
    <2>1. 0 \in T
        BY <1>2
    <2>2. ASSUME NEW k \in T
          PROVE  k + 1 \in T
        <3>1. SUFFICES ASSUME k + 1 <= m
                       PROVE  g[k + 1] = h[k + 1]
            OBVIOUS
        <3>2. k \in 0 .. (m - 1) /\ k \in 0 .. (n - 1)
            BY <3>1, <1>2
        <3>3. g[k] = h[k]
            BY <3>1
        <3>4. QED
            BY <3>2, <3>3, <1>2
    <2>3. T = Nat
        <3> HIDE DEF T
        <3> QED
            BY <2>1, <2>2, Induction DEF T
    <2>4. QED
        BY <2>3
<1>3. \A n \in Nat : Upto(n, c(n))
    <2> HIDE DEF Upto
    <2> QED
        BY <1>1
<1> HIDE DEF c
<1>4. f[0] = a0 /\ f \in [Nat -> A]
    BY <1>3
<1>5. ASSUME NEW n \in Nat
      PROVE  f[n + 1] = next[f[n]]
    <2>1. Upto(n, c(n)) /\ Upto(n + 1, c(n + 1))
        BY <1>3
    <2>2. c(n)[n] = c(n + 1)[n]
        <3> HIDE DEF Upto
        <3>1. n <= n + 1 /\ n + 1 \in Nat
            OBVIOUS
        <3>2. QED
            BY <2>1, <3>1, <1>2
    <2>3. c(n + 1)[n + 1] = next[c(n + 1)[n]]
        BY <2>1
    <2>4. QED
        BY <2>2, <2>3
<1>6. Iterates(A, a0, next, f)
    BY <1>4, <1>5 DEF Iterates
<1>7. QED
    BY <1>6, Zenon
-----------------------------------------------------------------------------
(* Folds.                                                                   *)

Greatest(s) == CHOOSE x \in s : \A y \in s : x >= y

(* What a fold of a sequence of length n computes for each set of indices.  *)
SetFold(n, A, a0, step, f) ==
    /\ f \in [SUBSET (1 .. n) -> A]
    /\ \A s \in SUBSET (1 .. n) :
          f[s] = IF s = {} THEN a0
                 ELSE step[<<f[s \ {Greatest(s)}], Greatest(s)>>]

(* A set of indices has a greatest one.                                     *)
LEMMA GreatestOf ==
    ASSUME NEW n \in Nat, NEW s \in SUBSET (1 .. n), s # {}
    PROVE  /\ Greatest(s) \in s
           /\ \A i \in s : Greatest(s) >= i
<1> DEFINE T == {k \in Nat : \A i \in s : k >= i}
<1>1. n \in T
    OBVIOUS
<1>2. PICK k \in T : \A j \in T : k <= j
    BY <1>1, SmallestOf
<1>3. k \in s
    <2>1. SUFFICES ASSUME k \notin s
                   PROVE  FALSE
        OBVIOUS
    <2>2. \A i \in s : k > i /\ i >= 1
        BY <2>1
    <2>3. k - 1 \in T
        <3>1. PICK x \in s : x \in 1 .. n
            OBVIOUS
        <3>2. k \in Nat /\ k > x
            BY <2>2
        <3>3. k - 1 \in Nat
            BY <3>1, <3>2
        <3>4. \A i \in s : k - 1 >= i
            <4> SUFFICES ASSUME NEW i \in s
                         PROVE  k - 1 >= i
                OBVIOUS
            <4>1. i \in Nat /\ k > i
                BY <2>2
            <4>2. QED
                BY <3>2, <4>1
        <3>5. QED
            BY <3>3, <3>4
    <2>4. QED
        BY <1>2, <2>3
<1>4. k \in s /\ \A i \in s : k >= i
    BY <1>2, <1>3
<1>5. QED
    BY <1>4 DEF Greatest

(* The values of a fold over 1 .. N exist, one for every set of positions.  *)
LEMMA SetFoldExists ==
    ASSUME NEW N \in Nat, NEW A, NEW a0 \in A, NEW step \in [A \X (1 .. N) -> A]
    PROVE  \E f : SetFold(N, A, a0, step, f)
<1> DEFINE E == {n \in Nat : n <= N => \E f : SetFold(n, A, a0, step, f)}
<1>1. 0 \in E
    <2>1. 1 .. 0 = {}
        OBVIOUS
    <2>2. SetFold(0, A, a0, step, [s \in SUBSET (1 .. 0) |-> a0])
        BY <2>1 DEF SetFold
    <2>3. QED
        BY <2>2
<1>2. ASSUME NEW n \in E
      PROVE  n + 1 \in E
    <2>1. SUFFICES ASSUME n + 1 <= N
                   PROVE  \E f : SetFold(n + 1, A, a0, step, f)
        OBVIOUS
    <2>2. PICK f : SetFold(n, A, a0, step, f)
        BY <2>1
    <2> DEFINE h == [s \in SUBSET (1 .. (n + 1)) |->
                        IF n + 1 \in s THEN step[<<f[s \ {n + 1}], n + 1>>] ELSE f[s]]
    <2>3. ASSUME NEW s \in SUBSET (1 .. (n + 1)), n + 1 \in s
          PROVE  h[s] \in A /\ s # {} /\ Greatest(s) = n + 1 /\ h[s \ {n + 1}] = f[s \ {n + 1}]
        <3>1. Greatest(s) \in s /\ Greatest(s) >= n + 1
            <4>1. n + 1 \in Nat /\ s # {}
                BY <2>3
            <4> HIDE DEF E
            <4>2. QED
                BY <2>3, <4>1, GreatestOf
        <3>2. Greatest(s) = n + 1
            <4>1. Greatest(s) \in 1 .. (n + 1)
                BY <3>1
            <4>2. n \in Nat
                OBVIOUS
            <4> HIDE DEF E
            <4>3. QED
                BY <3>1, <4>1, <4>2
        <3>3. s \ {n + 1} \in SUBSET (1 .. n) /\ s \ {n + 1} \in SUBSET (1 .. (n + 1))
            OBVIOUS
        <3>4. f[s \ {n + 1}] \in A /\ n + 1 \in 1 .. N
            BY <2>1, <2>2, <3>3 DEF SetFold
        <3>5. QED
            BY <2>3, <3>2, <3>3, <3>4
    <2>4. ASSUME NEW s \in SUBSET (1 .. (n + 1)), n + 1 \notin s
          PROVE  /\ s \in SUBSET (1 .. n) /\ h[s] = f[s] /\ h[s] \in A
                 /\ s # {} => h[s \ {Greatest(s)}] = f[s \ {Greatest(s)}]
        <3>1. s \in SUBSET (1 .. n) /\ s \ {Greatest(s)} \in SUBSET (1 .. (n + 1))
            <4>1. n \in Nat /\ 1 .. (n + 1) = (1 .. n) \cup {n + 1}
                OBVIOUS
            <4> HIDE DEF E
            <4>2. QED
                BY <2>4, <4>1
        <3>2. QED
            BY <2>2, <2>4, <3>1 DEF SetFold
    <2>5. ASSUME NEW s \in SUBSET (1 .. (n + 1))
          PROVE  h[s] = IF s = {} THEN a0 ELSE step[<<h[s \ {Greatest(s)}], Greatest(s)>>]
        <3>1. CASE n + 1 \in s
            <4>1. h[s] = step[<<f[s \ {n + 1}], n + 1>>]
                BY <3>1
            <4> HIDE DEF h
            <4>2. QED
                BY <3>1, <4>1, <2>3
        <3>2. CASE n + 1 \notin s
            <4> HIDE DEF h
            <4>1. s \in SUBSET (1 .. n) /\ h[s] = f[s]
                BY <3>2, <2>4
            <4>2. f[s] = IF s = {} THEN a0 ELSE step[<<f[s \ {Greatest(s)}], Greatest(s)>>]
                BY <2>2, <4>1 DEF SetFold
            <4>3. QED
                BY <3>2, <2>4, <4>1, <4>2
        <3>3. QED
            BY <3>1, <3>2
    <2>6. h \in [SUBSET (1 .. (n + 1)) -> A]
        <3>1. \A s \in SUBSET (1 .. (n + 1)) : h[s] \in A
            <4> HIDE DEF h
            <4> QED
                BY <2>3, <2>4
        <3>2. QED
            BY <3>1
    <2> HIDE DEF h
    <2>7. SetFold(n + 1, A, a0, step, h)
        BY <2>5, <2>6 DEF SetFold
    <2>8. QED
        BY <2>7
<1>3. E = Nat
    <2> HIDE DEF E
    <2> QED
        BY <1>1, <1>2, Induction DEF E
<1>4. QED
    BY <1>3

(* A fold over 1 .. k + 1 takes position k + 1 off last.                    *)
LEMMA FoldPrefix ==
    ASSUME NEW n \in Nat, NEW k \in 0 .. (n - 1)
    PROVE  /\ 1 .. (k + 1) \in SUBSET (1 .. n) /\ 1 .. (k + 1) # {}
           /\ Greatest(1 .. (k + 1)) = k + 1
           /\ (1 .. (k + 1)) \ {k + 1} = 1 .. k
<1>1. 1 .. (k + 1) \in SUBSET (1 .. n) /\ k + 1 \in 1 .. (k + 1)
    OBVIOUS
<1>2. Greatest(1 .. (k + 1)) \in 1 .. (k + 1) /\ Greatest(1 .. (k + 1)) >= k + 1
    BY <1>1, GreatestOf
<1>3. Greatest(1 .. (k + 1)) = k + 1
    BY <1>2
<1>4. (1 .. (k + 1)) \ {k + 1} = 1 .. k
    OBVIOUS
<1>5. QED
    BY <1>1, <1>3, <1>4
-----------------------------------------------------------------------------
(* Dependency order.                                                        *)
Walks(S) == [visited : SUBSET S, stack : Seq(S), order : Seq(S)]

IsWalk(S, D, walk) ==
    /\ walk \in [Nat -> Walks(S)]
    /\ walk[0] = Graph!WalkStart
    /\ \A n \in Nat : walk[n + 1] = Graph!WalkStep(S, D, walk[n])

(* The least of some numbers is one of them.                                *)
LEMMA LeastIsIn ==
    ASSUME NEW T \in SUBSET Nat, T # {}
    PROVE  Graph!Least(T) \in T
BY SmallestOf DEF Graph!Least

(* The two instances of FiniteSets count alike.                             *)
LEMMA SameCardinality ==
    ASSUME NEW S
    PROVE  Graph!Cardinality(S) = Cardinality(S)
BY DEF Graph!Cardinality, Cardinality

(* Entering adds to the visited and to the stack, leaving moves from the    *)
(* stack to the order.                                                      *)
LEMMA EnterIs ==
    ASSUME NEW S, NEW w \in Walks(S), NEW x \in S
    PROVE  /\ Graph!WalkEnter(w, x) =
                 [visited |-> w.visited \cup {x}, stack |-> Append(w.stack, x), order |-> w.order]
           /\ Graph!WalkEnter(w, x) \in Walks(S)
<1>1. Graph!WalkEnter(w, x) =
        [visited |-> w.visited \cup {x}, stack |-> Append(w.stack, x), order |-> w.order]
    BY DEF Graph!WalkEnter
<1>2. w.visited \cup {x} \in SUBSET S /\ Append(w.stack, x) \in Seq(S) /\ w.order \in Seq(S)
    BY AppendProperties DEF Walks
<1>3. QED
    BY <1>1, <1>2 DEF Walks

(* Leaving moves the top of the stack to the order.                         *)
LEMMA LeaveIs ==
    ASSUME NEW S, NEW w \in Walks(S), w.stack # <<>>
    PROVE  /\ Graph!WalkLeave(w) \in Walks(S)
           /\ Graph!WalkLeave(w).visited = w.visited
           /\ Graph!WalkLeave(w).order = Append(w.order, w.stack[Len(w.stack)])
           /\ Len(w.stack) \in Nat /\ Len(w.stack) > 0 /\ w.stack[Len(w.stack)] \in S
           /\ Len(Graph!WalkLeave(w).stack) = Len(w.stack) - 1
           /\ \A i \in 1 .. (Len(w.stack) - 1) : Graph!WalkLeave(w).stack[i] = w.stack[i]
<1> DEFINE n == Len(w.stack)
<1>1. w.stack \in Seq(S) /\ n \in Nat /\ n > 0 /\ w.stack[n] \in S
    BY DEF Walks
<1>2. Graph!WalkLeave(w) =
        [visited |-> w.visited, stack |-> SubSeq(w.stack, 1, n - 1),
         order |-> Append(w.order, w.stack[n])]
    BY DEF Graph!WalkLeave, Graph!Front, Graph!Last
<1>3. /\ SubSeq(w.stack, 1, n - 1) \in Seq(S)
      /\ Len(SubSeq(w.stack, 1, n - 1)) = n - 1
      /\ \A i \in 1 .. (n - 1) : SubSeq(w.stack, 1, n - 1)[i] = w.stack[i]
    BY <1>1
<1>4. Append(w.order, w.stack[n]) \in Seq(S) /\ w.visited \in SUBSET S
    BY <1>1, AppendProperties DEF Walks
<1>5. Graph!WalkLeave(w) \in Walks(S)
    BY <1>2, <1>3, <1>4 DEF Walks
<1>6. QED
    BY <1>1, <1>2, <1>3, <1>5

(* A step of the walk keeps the shape of its state.                         *)
LEMMA StepType ==
    ASSUME NEW S \in SUBSET Nat, NEW D, NEW w \in Walks(S)
    PROVE  Graph!WalkStep(S, D, w) \in Walks(S)
<1> DEFINE below == (D[Graph!Last(w.stack)] \cap S) \ w.visited
           roots == S \ w.visited
<1>1. below # {} => Graph!Least(below) \in S
    BY LeastIsIn
<1>2. roots # {} => Graph!Least(roots) \in S
    BY LeastIsIn
<1>3. QED
    BY <1>1, <1>2, EnterIs, LeaveIs DEF Graph!WalkStep

(* The walk that an order is read from is the iteration of its step. *)
LEMMA WalkExists ==
    ASSUME NEW S \in SUBSET Nat, NEW D, Cardinality(S) \in Nat
    PROVE  \E walk : /\ IsWalk(S, D, walk)
                     /\ Graph!PostOrder(S, D) = walk[2 * Cardinality(S)].order
                     /\ Graph!Cycles(S, D) =
                           UNION {Graph!CyclesClosed(D, walk[n].stack) :
                                     n \in 0 .. (2 * Cardinality(S))}
<1> DEFINE Unfolds(walk) ==
               walk = [n \in Nat |-> IF n = 0 THEN Graph!WalkStart
                                     ELSE Graph!WalkStep(S, D, walk[n - 1])]
           walk == CHOOSE f : Unfolds(f)
           next == [w \in Walks(S) |-> Graph!WalkStep(S, D, w)]
<1>1. Graph!WalkStart \in Walks(S)
    BY DEF Graph!WalkStart, Walks
<1>2. next \in [Walks(S) -> Walks(S)]
    BY StepType
<1>3. PICK f : Iterates(Walks(S), Graph!WalkStart, next, f)
    <2> HIDE DEF next
    <2> QED
        BY <1>1, <1>2, Iteration, Zenon
<1>4. Unfolds(f)
    <2>1. ASSUME NEW n \in Nat, n # 0
          PROVE  f[n] = Graph!WalkStep(S, D, f[n - 1])
        <3>1. n - 1 \in Nat /\ (n - 1) + 1 = n
            BY <2>1
        <3>2. f[n] = next[f[n - 1]] /\ f[n - 1] \in Walks(S)
            BY <1>3, <3>1 DEF Iterates
        <3>3. QED
            BY <3>2
    <2>2. QED
        BY <1>3, <2>1 DEF Iterates
<1>5. Unfolds(walk)
    <2> HIDE DEF Unfolds
    <2> QED
        BY <1>4
<1>6. /\ Graph!PostOrder(S, D) = walk[2 * Cardinality(S)].order
      /\ Graph!Cycles(S, D) = UNION {Graph!CyclesClosed(D, walk[n].stack) :
                                        n \in 0 .. (2 * Cardinality(S))}
    BY SameCardinality DEF Graph!PostOrder, Graph!Cycles
<1> HIDE DEF walk
<1>7. walk[0] = Graph!WalkStart
    BY <1>5
<1>8. \A n \in Nat : walk[n + 1] = Graph!WalkStep(S, D, walk[n])
    <2> SUFFICES ASSUME NEW n \in Nat
                 PROVE  walk[n + 1] = Graph!WalkStep(S, D, walk[n])
        OBVIOUS
    <2>1. n + 1 \in Nat /\ n + 1 # 0 /\ (n + 1) - 1 = n
        OBVIOUS
    <2>2. QED
        BY <1>5, <2>1
<1>9. walk \in [Nat -> Walks(S)]
    <2> DEFINE T == {n \in Nat : walk[n] \in Walks(S)}
    <2>1. 0 \in T
        BY <1>1, <1>7
    <2>2. \A n \in T : n + 1 \in T
        BY <1>8, StepType
    <2>3. T = Nat
        <3> HIDE DEF T
        <3> QED
            BY <2>1, <2>2, Induction DEF T
    <2>4. walk = [n \in Nat |-> walk[n]]
        BY <1>5
    <2>5. QED
        BY <2>3, <2>4
<1>10. QED
    BY <1>6, <1>7, <1>8, <1>9 DEF IsWalk

Image(f, I) == {f[i] : i \in I}

(* What is on the stack or listed was entered once, and nothing else was. *)
WalkVisits(w) ==
    /\ \A i, j \in 1 .. Len(w.stack) : w.stack[i] = w.stack[j] => i = j
    /\ \A i, j \in 1 .. Len(w.order) : w.order[i] = w.order[j] => i = j
    /\ \A i \in 1 .. Len(w.stack), j \in 1 .. Len(w.order) : w.stack[i] # w.order[j]
    /\ w.visited = Image(w.stack, 1 .. Len(w.stack)) \cup Image(w.order, 1 .. Len(w.order))

(* Each address on the stack depends on the one above it. *)
WalkPath(D, w) == \A i \in 1 .. (Len(w.stack) - 1) : w.stack[i + 1] \in D[w.stack[i]]

(* A listed address depends on nothing that was not entered. *)
WalkBelow(S, D, w) == \A i \in 1 .. Len(w.order) : D[w.order[i]] \cap S \subseteq w.visited

Since(s, i) == Image(s, i .. Len(s))

(* An address that is listed and depends on one still on the stack is in a  *)
(* circle with all that is, or will be, listed between the two.             *)
WalkCircles(D, w) ==
    \A i \in 1 .. Len(w.order), p \in 1 .. Len(w.stack) :
        w.stack[p] \in D[w.order[i]] => ~ Acyclic(Since(w.order, i) \cup Since(w.stack, p), D)

WalkInv(S, D, w) ==
    /\ w \in Walks(S)
    /\ WalkVisits(w)
    /\ WalkPath(D, w)
    /\ WalkBelow(S, D, w)
    /\ WalkCircles(D, w)
    /\ DependenciesFirst(D, w.order)

(* Functions that agree on a set have the same image of it.                 *)
LEMMA SameImage ==
    ASSUME NEW f, NEW g, NEW I, \A k \in I : f[k] = g[k]
    PROVE  Image(f, I) = Image(g, I)
BY DEF Image

(* A part of a set without a cycle has none.                                *)
LEMMA AcyclicSubset ==
    ASSUME NEW T, NEW D, NEW U \in SUBSET T, ~ Acyclic(U, D)
    PROVE  ~ Acyclic(T, D)
BY DEF Acyclic

(* Entering a dependency of the top of the stack keeps the invariant.       *)
LEMMA EnterKeeps ==
    ASSUME NEW S, NEW D, NEW w, WalkInv(S, D, w), NEW x \in S \ w.visited,
           w.stack # <<>> => x \in D[w.stack[Len(w.stack)]]
    PROVE  WalkInv(S, D, Graph!WalkEnter(w, x))
<1> DEFINE n == Len(w.stack)
           m == Len(w.order)
           v == Graph!WalkEnter(w, x)
<1>1. w \in Walks(S) /\ w.stack \in Seq(S) /\ w.order \in Seq(S) /\ n \in Nat /\ m \in Nat
    BY DEF WalkInv, Walks
<1>2. /\ v \in Walks(S) /\ v.visited = w.visited \cup {x}
      /\ v.stack = Append(w.stack, x) /\ v.order = w.order
    BY <1>1, EnterIs
<1>3. /\ Len(v.stack) = n + 1 /\ v.stack[n + 1] = x
      /\ \A i \in 1 .. n : v.stack[i] = w.stack[i]
      /\ 1 .. (n + 1) = (1 .. n) \cup {n + 1}
    BY <1>1, <1>2
<1> HIDE DEF v
<1>4. WalkVisits(v)
    <2>1. /\ \A i \in 1 .. n : w.stack[i] # x
          /\ \A i \in 1 .. m : w.order[i] # x
        BY DEF WalkInv, WalkVisits, Image
    <2>2. v.visited = Image(v.stack, 1 .. (n + 1)) \cup Image(v.order, 1 .. m)
        <3>1. w.visited = Image(w.stack, 1 .. n) \cup Image(w.order, 1 .. m)
            BY DEF WalkInv, WalkVisits
        <3>2. Image(v.stack, 1 .. (n + 1)) = Image(w.stack, 1 .. n) \cup {x}
            BY <1>3 DEF Image
        <3>3. QED
            BY <3>1, <3>2, <1>2
    <2>3. \A i, j \in 1 .. (n + 1) : v.stack[i] = v.stack[j] => i = j
        BY <1>3, <2>1 DEF WalkInv, WalkVisits
    <2>4. \A i \in 1 .. (n + 1), j \in 1 .. m : v.stack[i] # v.order[j]
        BY <1>2, <1>3, <2>1 DEF WalkInv, WalkVisits
    <2>5. \A i, j \in 1 .. m : v.order[i] = v.order[j] => i = j
        BY <1>2 DEF WalkInv, WalkVisits
    <2>6. QED
        BY <1>2, <1>3, <2>2, <2>3, <2>4, <2>5 DEF WalkVisits
<1>5. WalkPath(D, v)
    <2>1. SUFFICES ASSUME NEW i \in 1 .. n
                   PROVE  v.stack[i + 1] \in D[v.stack[i]]
        BY <1>1, <1>3 DEF WalkPath
    <2>2. CASE i < n
        <3>1. i \in 1 .. (n - 1) /\ i + 1 \in 1 .. n
            BY <2>2, <1>1
        <3>2. w.stack[i + 1] \in D[w.stack[i]]
            BY <3>1 DEF WalkInv, WalkPath
        <3>3. QED
            BY <3>1, <3>2, <1>3
    <2>3. CASE i = n
        BY <2>3, <1>1, <1>3
    <2>4. QED
        BY <2>2, <2>3, <1>1
<1>6. WalkBelow(S, D, v)
    BY <1>2 DEF WalkInv, WalkBelow
<1>7. WalkCircles(D, v)
    <2>1. SUFFICES ASSUME NEW i \in 1 .. m, NEW p \in 1 .. (n + 1), v.stack[p] \in D[w.order[i]]
                   PROVE  ~ Acyclic(Since(w.order, i) \cup Since(v.stack, p), D)
        BY <1>2, <1>3 DEF WalkCircles
    <2>2. p # n + 1
        BY <2>1, <1>3 DEF WalkInv, WalkBelow
    <2>3. p \in 1 .. n /\ v.stack[p] = w.stack[p]
        BY <2>2, <1>1, <1>3
    <2>4. ~ Acyclic(Since(w.order, i) \cup Since(w.stack, p), D)
        BY <2>1, <2>3 DEF WalkInv, WalkCircles
    <2>5. Since(w.stack, p) \subseteq Since(v.stack, p)
        BY <1>1, <1>3, <2>3 DEF Since, Image
    <2>6. QED
        BY <2>4, <2>5, AcyclicSubset
<1>8. DependenciesFirst(D, v.order)
    BY <1>2 DEF WalkInv
<1>9. QED
    BY <1>2, <1>4, <1>5, <1>6, <1>7, <1>8 DEF WalkInv, v

(* So does leaving a node whose dependencies have all been visited.         *)
LEMMA LeaveKeeps ==
    ASSUME NEW S, NEW D, NEW w, WalkInv(S, D, w), w.stack # <<>>,
           D[w.stack[Len(w.stack)]] \cap S \subseteq w.visited
    PROVE  WalkInv(S, D, Graph!WalkLeave(w))
<1> DEFINE n == Len(w.stack)
           m == Len(w.order)
           z == w.stack[n]
           v == Graph!WalkLeave(w)
<1>1. w \in Walks(S) /\ w.stack \in Seq(S) /\ w.order \in Seq(S) /\ m \in Nat
    BY DEF WalkInv, Walks
<1>2. /\ v \in Walks(S) /\ v.visited = w.visited
      /\ v.order = Append(w.order, z)
      /\ n \in Nat /\ n > 0 /\ z \in S
      /\ Len(v.stack) = n - 1
      /\ \A i \in 1 .. (n - 1) : v.stack[i] = w.stack[i]
    BY <1>1, LeaveIs
<1>3. /\ Len(v.order) = m + 1 /\ v.order[m + 1] = z
      /\ \A i \in 1 .. m : v.order[i] = w.order[i]
      /\ 1 .. (m + 1) = (1 .. m) \cup {m + 1}
      /\ 1 .. n = (1 .. (n - 1)) \cup {n} /\ n \notin 1 .. (n - 1) /\ m + 1 \notin 1 .. m
    BY <1>1, <1>2
<1> HIDE DEF v
<1>4. WalkVisits(v)
    <2>1. /\ \A i \in 1 .. (n - 1) : w.stack[i] # z
          /\ \A i \in 1 .. m : w.order[i] # z
        BY <1>2, <1>3 DEF WalkInv, WalkVisits
    <2>2. v.visited = Image(v.stack, 1 .. (n - 1)) \cup Image(v.order, 1 .. (m + 1))
        <3>1. w.visited = Image(w.stack, 1 .. n) \cup Image(w.order, 1 .. m)
            BY DEF WalkInv, WalkVisits
        <3>2. Image(w.stack, 1 .. n) = Image(v.stack, 1 .. (n - 1)) \cup {z}
            <4>1. /\ 1 .. n = (1 .. (n - 1)) \cup {n}
                  /\ \A i \in 1 .. (n - 1) : v.stack[i] = w.stack[i]
                BY <1>2, <1>3
            <4>2. QED
                BY <4>1 DEF Image
        <3>3. Image(v.order, 1 .. (m + 1)) = Image(w.order, 1 .. m) \cup {z}
            <4>1. /\ v.order[m + 1] = z /\ 1 .. (m + 1) = (1 .. m) \cup {m + 1}
                  /\ \A i \in 1 .. m : v.order[i] = w.order[i]
                BY <1>3
            <4>2. QED
                BY <4>1 DEF Image
        <3>4. QED
            BY <3>1, <3>2, <3>3, <1>2
    <2>3. \A i, j \in 1 .. (n - 1) : v.stack[i] = v.stack[j] => i = j
        BY <1>2, <1>3 DEF WalkInv, WalkVisits
    <2>4. \A i \in 1 .. (n - 1), j \in 1 .. (m + 1) : v.stack[i] # v.order[j]
        <3> SUFFICES ASSUME NEW i \in 1 .. (n - 1), NEW j \in 1 .. (m + 1)
                     PROVE  v.stack[i] # v.order[j]
            OBVIOUS
        <3>1. v.stack[i] = w.stack[i] /\ i \in 1 .. n
            BY <1>2, <1>3
        <3>2. CASE j \in 1 .. m
            BY <3>1, <3>2, <1>3 DEF WalkInv, WalkVisits
        <3>3. CASE j = m + 1
            BY <3>1, <3>3, <1>3, <2>1
        <3>4. QED
            BY <3>2, <3>3, <1>3
    <2>5. \A i, j \in 1 .. (m + 1) : v.order[i] = v.order[j] => i = j
        BY <1>3, <2>1 DEF WalkInv, WalkVisits
    <2>6. QED
        BY <1>2, <1>3, <2>2, <2>3, <2>4, <2>5 DEF WalkVisits
<1>5. WalkPath(D, v)
    <2>1. SUFFICES ASSUME NEW i \in 1 .. (n - 2)
                   PROVE  v.stack[i + 1] \in D[v.stack[i]]
        BY <1>1, <1>2 DEF WalkPath
    <2>2. i \in 1 .. (n - 1) /\ i + 1 \in 1 .. (n - 1)
        BY <1>2
    <2>3. w.stack[i + 1] \in D[w.stack[i]]
        BY <2>2 DEF WalkInv, WalkPath
    <2>4. QED
        BY <2>2, <2>3, <1>2
<1>6. WalkBelow(S, D, v)
    BY <1>2, <1>3 DEF WalkInv, WalkBelow
<1>7. ASSUME NEW i \in 1 .. m
      PROVE  Since(v.order, i) = Since(w.order, i) \cup {z}
    <2>1. \A k \in i .. m : v.order[k] = w.order[k]
        BY <1>3
    <2>2. i .. (m + 1) = (i .. m) \cup {m + 1}
        BY <1>1
    <2>3. Image(v.order, i .. (m + 1)) = Image(w.order, i .. m) \cup {z}
        <3>1. v.order[m + 1] = z
            BY <1>3
        <3>2. QED
            BY <2>1, <2>2, <3>1 DEF Image
    <2>4. QED
        BY <2>3, <1>3 DEF Since
<1>8. Since(v.order, m + 1) = {z}
    BY <1>1, <1>3 DEF Since, Image
<1>9. ASSUME NEW p \in 1 .. (n - 1)
      PROVE  Since(w.stack, p) = Since(v.stack, p) \cup {z}
    <2>1. \A k \in p .. (n - 1) : w.stack[k] = v.stack[k]
        BY <1>2
    <2>2. p .. n = (p .. (n - 1)) \cup {n}
        BY <1>2
    <2>3. Image(w.stack, p .. n) = Image(v.stack, p .. (n - 1)) \cup {z}
        BY <2>1, <2>2 DEF Image
    <2>4. QED
        BY <2>3, <1>2 DEF Since
<1>10. ASSUME NEW p \in 1 .. n, w.stack[p] \in D[z]
       PROVE  ~ Acyclic(Since(w.stack, p), D)
    <2> SUFFICES ASSUME NEW x \in Since(w.stack, p)
                 PROVE  D[x] \cap Since(w.stack, p) # {}
        <3>1. w.stack[p] \in Since(w.stack, p)
            BY <1>2 DEF Since, Image
        <3>2. QED
            BY <3>1 DEF Acyclic
    <2> PICK k \in p .. n : x = w.stack[k]
        BY DEF Since, Image
    <2> SUFFICES \E j \in p .. n : w.stack[j] \in D[w.stack[k]]
        BY DEF Since, Image
    <2>1. CASE k = n
        BY <2>1, <1>2, <1>10
    <2>2. CASE k < n
        <3>1. k \in 1 .. (n - 1) /\ k + 1 \in p .. n
            BY <2>2, <1>2
        <3>2. w.stack[k + 1] \in D[w.stack[k]]
            BY <3>1 DEF WalkInv, WalkPath
        <3>3. QED
            BY <3>1, <3>2
    <2>3. QED
        BY <2>1, <2>2, <1>2
<1>11. WalkCircles(D, v)
    <2>1. SUFFICES ASSUME NEW i \in 1 .. (m + 1), NEW p \in 1 .. (n - 1),
                          v.stack[p] \in D[v.order[i]]
                   PROVE  ~ Acyclic(Since(v.order, i) \cup Since(v.stack, p), D)
        BY <1>2, <1>3 DEF WalkCircles
    <2>2. p \in 1 .. n /\ w.stack[p] = v.stack[p]
        BY <1>2
    <2>3. CASE i \in 1 .. m
        <3>1. ~ Acyclic(Since(w.order, i) \cup Since(w.stack, p), D)
            BY <2>1, <2>2, <2>3, <1>3 DEF WalkInv, WalkCircles
        <3>2. Since(v.order, i) \cup Since(v.stack, p) = Since(w.order, i) \cup Since(w.stack, p)
            BY <2>3, <1>7, <1>9
        <3>3. QED
            BY <3>1, <3>2
    <2>4. CASE i = m + 1
        <3>1. ~ Acyclic(Since(w.stack, p), D)
            BY <2>1, <2>2, <2>4, <1>3, <1>10
        <3>2. Since(v.order, i) \cup Since(v.stack, p) = Since(w.stack, p)
            BY <2>4, <1>8, <1>9
        <3>3. QED
            BY <3>1, <3>2
    <2>5. QED
        BY <2>3, <2>4, <1>3
<1>12. DependenciesFirst(D, v.order)
    <2>1. SUFFICES ASSUME NEW i \in 1 .. (m + 1), NEW j \in 1 .. (m + 1),
                          i <= j, v.order[j] \in D[v.order[i]]
                   PROVE  ~ Acyclic(Image(v.order, i .. j), D)
        BY <1>3 DEF DependenciesFirst, Image
    <2>2. CASE j \in 1 .. m
        <3>1. i \in 1 .. m /\ \A k \in i .. j : v.order[k] = w.order[k]
            BY <2>1, <2>2, <1>1, <1>3
        <3>2. ~ Acyclic(Image(w.order, i .. j), D)
            BY <3>1, <2>1, <2>2, <1>3 DEF WalkInv, DependenciesFirst, Image
        <3>3. QED
            BY <3>1, <3>2, SameImage
    <2>3. CASE j = m + 1
        <3>1. Image(v.order, i .. j) = Since(v.order, i)
            BY <2>3, <1>3 DEF Since
        <3>2. w.stack[n] = v.order[j] /\ n \in 1 .. n /\ Since(w.stack, n) = {z}
            BY <2>3, <1>2, <1>3 DEF Since, Image
        <3>3. CASE i \in 1 .. m
            <4>1. ~ Acyclic(Since(w.order, i) \cup Since(w.stack, n), D)
                BY <2>1, <3>2, <3>3, <1>3 DEF WalkInv, WalkCircles
            <4>2. QED
                BY <4>1, <3>1, <3>2, <3>3, <1>7
        <3>4. CASE i = m + 1
            <4>1. w.stack[n] \in D[z]
                BY <2>1, <2>3, <3>4, <1>3
            <4>2. ~ Acyclic(Since(w.stack, n), D)
                BY <4>1, <3>2, <1>10
            <4>3. QED
                BY <4>2, <3>1, <3>2, <3>4, <1>8
        <3>5. QED
            BY <3>3, <3>4, <1>3
    <2>4. QED
        BY <2>2, <2>3, <1>3
<1>13. QED
    BY <1>2, <1>4, <1>5, <1>6, <1>11, <1>12 DEF WalkInv, v

(* One step does one of the three: enter, leave, or nothing more to do.     *)
LEMMA StepIs ==
    ASSUME NEW S \in SUBSET Nat, NEW D, NEW w \in Walks(S)
    PROVE  \/ \E x \in S \ w.visited :
                 /\ Graph!WalkStep(S, D, w) = Graph!WalkEnter(w, x)
                 /\ w.stack # <<>> => x \in D[w.stack[Len(w.stack)]]
           \/ /\ Graph!WalkStep(S, D, w) = Graph!WalkLeave(w)
              /\ w.stack # <<>>
              /\ D[w.stack[Len(w.stack)]] \cap S \subseteq w.visited
           \/ /\ Graph!WalkStep(S, D, w) = w
              /\ w.stack = <<>> /\ w.visited = S
<1> DEFINE below == (D[w.stack[Len(w.stack)]] \cap S) \ w.visited
           roots == S \ w.visited
<1>1. Graph!WalkStep(S, D, w) =
        IF w.stack # <<>>
        THEN IF below # {} THEN Graph!WalkEnter(w, Graph!Least(below)) ELSE Graph!WalkLeave(w)
        ELSE IF roots # {} THEN Graph!WalkEnter(w, Graph!Least(roots)) ELSE w
    BY DEF Graph!WalkStep, Graph!Last
<1>2. w.visited \in SUBSET S
    BY DEF Walks
<1>3. CASE w.stack # <<>> /\ below # {}
    <2>1. Graph!Least(below) \in below
        BY <1>3, LeastIsIn
    <2>2. Graph!WalkStep(S, D, w) = Graph!WalkEnter(w, Graph!Least(below))
        BY <1>1, <1>3
    <2>3. QED
        BY <2>1, <2>2
<1>4. CASE w.stack # <<>> /\ below = {}
    <2>1. Graph!WalkStep(S, D, w) = Graph!WalkLeave(w)
        BY <1>1, <1>4
    <2>2. QED
        BY <1>4, <2>1
<1>5. CASE w.stack = <<>> /\ roots # {}
    <2>1. Graph!Least(roots) \in roots
        BY <1>5, LeastIsIn
    <2>2. Graph!WalkStep(S, D, w) = Graph!WalkEnter(w, Graph!Least(roots))
        BY <1>1, <1>5
    <2>3. QED
        BY <1>5, <2>1, <2>2
<1>6. CASE w.stack = <<>> /\ roots = {}
    <2>1. Graph!WalkStep(S, D, w) = w
        BY <1>1, <1>6
    <2>2. QED
        BY <1>2, <1>6, <2>1
<1>7. QED
    BY <1>3, <1>4, <1>5, <1>6

(* Every step of the walk keeps its invariant.                              *)
LEMMA StepKeeps ==
    ASSUME NEW S \in SUBSET Nat, NEW D, NEW w, WalkInv(S, D, w)
    PROVE  WalkInv(S, D, Graph!WalkStep(S, D, w))
<1>1. w \in Walks(S)
    BY DEF WalkInv
<1>2. QED
    BY <1>1, StepIs, EnterKeeps, LeaveKeeps

(* The walk starts with its invariant.                                      *)
LEMMA StartKeeps ==
    ASSUME NEW S, NEW D
    PROVE  WalkInv(S, D, Graph!WalkStart)
<1> DEFINE w == Graph!WalkStart
<1>1. w.stack = <<>> /\ w.order = <<>> /\ w.visited = {} /\ w \in Walks(S)
    BY DEF Graph!WalkStart, Walks
<1>2. Len(w.stack) = 0 /\ Len(w.order) = 0 /\ 1 .. 0 = {}
    BY <1>1
<1>3. 1 .. (Len(w.stack) - 1) = {}
    BY <1>2
<1> HIDE DEF w
<1>4. WalkVisits(w)
    BY <1>1, <1>2 DEF WalkVisits, Image
<1>5. WalkPath(D, w)
    BY <1>3 DEF WalkPath
<1>6. WalkBelow(S, D, w) /\ WalkCircles(D, w)
    BY <1>2 DEF WalkBelow, WalkCircles
<1>7. DependenciesFirst(D, w.order)
    BY <1>2 DEF DependenciesFirst
<1>8. QED
    BY <1>1, <1>4, <1>5, <1>6, <1>7 DEF WalkInv, w

(* The invariant holds all along the walk.                                  *)
LEMMA WalkKeeps ==
    ASSUME NEW S \in SUBSET Nat, NEW D, NEW walk, IsWalk(S, D, walk)
    PROVE  \A n \in Nat : WalkInv(S, D, walk[n])
<1> DEFINE T == {n \in Nat : WalkInv(S, D, walk[n])}
<1>1. 0 \in T
    BY StartKeeps DEF IsWalk
<1>2. \A n \in T : n + 1 \in T
    BY StepKeeps DEF IsWalk
<1>3. T = Nat
    <2> HIDE DEF T
    <2> QED
        BY <1>1, <1>2, Induction DEF T
<1>4. QED
    BY <1>3

(* An address is entered and left by a step each; until all are, no step is *)
(* lost.                                                                    *)
WalkCounts(S, n, w) ==
    /\ Cardinality(w.visited) = Len(w.order) + Len(w.stack)
    /\ \/ n = Cardinality(w.visited) + Len(w.order)
       \/ w.stack = <<>> /\ w.visited = S

(* Every step enters or leaves a node, until all have been left.            *)
LEMMA StepCounts ==
    ASSUME NEW S \in SUBSET Nat, IsFiniteSet(S), NEW D, NEW w \in Walks(S),
           NEW n \in Nat, WalkCounts(S, n, w)
    PROVE  WalkCounts(S, n + 1, Graph!WalkStep(S, D, w))
<1> DEFINE v == Graph!WalkStep(S, D, w)
<1>1. /\ w.stack \in Seq(S) /\ w.order \in Seq(S) /\ w.visited \in SUBSET S
      /\ Len(w.stack) \in Nat /\ Len(w.order) \in Nat
    BY DEF Walks
<1>2. IsFiniteSet(w.visited) /\ Cardinality(w.visited) \in Nat
    BY <1>1, FS_Subset, FS_CardinalityType
<1>3. CASE \E x \in S \ w.visited :
               v = Graph!WalkEnter(w, x) /\ (w.stack # <<>> => x \in D[w.stack[Len(w.stack)]])
    <2> PICK x \in S \ w.visited : v = Graph!WalkEnter(w, x)
        BY <1>3
    <2>1. /\ v.visited = w.visited \cup {x} /\ v.order = w.order
          /\ v.stack = Append(w.stack, x)
        BY EnterIs
    <2>2. Cardinality(v.visited) = Cardinality(w.visited) + 1
        BY <1>2, <2>1, FS_AddElement
    <2>3. Len(v.stack) = Len(w.stack) + 1
        BY <1>1, <2>1
    <2>4. n = Cardinality(w.visited) + Len(w.order)
        BY DEF WalkCounts
    <2>5. Cardinality(w.visited) = Len(w.order) + Len(w.stack)
        BY DEF WalkCounts
    <2> HIDE DEF v
    <2>6. Cardinality(v.visited) = Len(v.order) + Len(v.stack)
        <3>1. Cardinality(v.visited) = (Len(w.order) + Len(w.stack)) + 1
            BY <2>2, <2>5
        <3>2. Len(v.order) = Len(w.order)
            BY <2>1
        <3>3. (Len(w.order) + Len(w.stack)) + 1 = Len(w.order) + (Len(w.stack) + 1)
            <4>1. \A a, b \in Nat : (a + b) + 1 = a + (b + 1)
                OBVIOUS
            <4>2. Len(w.order) \in Nat /\ Len(w.stack) \in Nat
                BY <1>1
            <4>3. QED
                BY <4>1, <4>2, Zenon
        <3>4. QED
            BY <2>3, <3>1, <3>2, <3>3
    <2>7. n + 1 = Cardinality(v.visited) + Len(v.order)
        <3>1. \A a, b \in Nat : (a + b) + 1 = (a + 1) + b
            OBVIOUS
        <3>2. n + 1 = (Cardinality(w.visited) + 1) + Len(w.order)
            BY <1>1, <1>2, <2>4, <3>1, Zenon
        <3>3. Len(v.order) = Len(w.order)
            BY <2>1
        <3>4. QED
            BY <2>2, <3>2, <3>3, Zenon
    <2>8. QED
        BY <2>6, <2>7 DEF WalkCounts, v
<1>4. CASE v = Graph!WalkLeave(w) /\ w.stack # <<>>
    <2>1. /\ v.visited = w.visited /\ Len(v.stack) = Len(w.stack) - 1
          /\ v.order = Append(w.order, w.stack[Len(w.stack)]) /\ Len(w.stack) > 0
          /\ w.stack[Len(w.stack)] \in S
        BY <1>4, LeaveIs
    <2>2. Len(v.order) = Len(w.order) + 1
        BY <1>1, <2>1
    <2>3. n = Cardinality(w.visited) + Len(w.order)
        BY <1>4 DEF WalkCounts
    <2>4. Cardinality(w.visited) = Len(w.order) + Len(w.stack)
        BY DEF WalkCounts
    <2> HIDE DEF v
    <2>5. Cardinality(v.visited) = Len(v.order) + Len(v.stack)
        <3>1. Cardinality(v.visited) = Len(w.order) + Len(w.stack)
            BY <2>1, <2>4
        <3>2. Len(v.stack) = Len(w.stack) - 1
            BY <2>1
        <3>3. Len(w.order) + Len(w.stack) = (Len(w.order) + 1) + (Len(w.stack) - 1)
            <4>1. \A a, b \in Nat : a + b = (a + 1) + (b - 1)
                OBVIOUS
            <4>2. Len(w.order) \in Nat /\ Len(w.stack) \in Nat
                BY <1>1
            <4>3. QED
                BY <4>1, <4>2, Zenon
        <3>4. QED
            BY <2>2, <3>1, <3>2, <3>3
    <2>6. n + 1 = Cardinality(v.visited) + Len(v.order)
        <3>1. \A a, b \in Nat : (a + b) + 1 = a + (b + 1)
            OBVIOUS
        <3>2. n + 1 = Cardinality(w.visited) + (Len(w.order) + 1)
            BY <1>1, <1>2, <2>3, <3>1, Zenon
        <3>3. v.visited = w.visited
            BY <2>1
        <3>4. QED
            BY <2>2, <3>2, <3>3, Zenon
    <2>7. QED
        BY <2>5, <2>6 DEF WalkCounts, v
<1>5. CASE v = w /\ w.stack = <<>> /\ w.visited = S
    BY <1>5 DEF WalkCounts
<1>6. QED
    BY <1>3, <1>4, <1>5, StepIs

(* After two steps for each address the walk is over.                       *)
LEMMA WalkEnds ==
    ASSUME NEW S \in SUBSET Nat, IsFiniteSet(S), NEW D, NEW walk, IsWalk(S, D, walk)
    PROVE  LET w == walk[2 * Cardinality(S)]
           IN  w.stack = <<>> /\ w.visited = S
<1> DEFINE T == {n \in Nat : WalkCounts(S, n, walk[n])}
           c == Cardinality(S)
           w == walk[2 * c]
<1>1. 0 \in T
    <2>1. walk[0].visited = {} /\ walk[0].stack = <<>> /\ walk[0].order = <<>>
        BY DEF IsWalk, Graph!WalkStart
    <2>2. Cardinality(walk[0].visited) = 0
        BY <2>1, FS_EmptySet
    <2>3. Len(walk[0].stack) = 0 /\ Len(walk[0].order) = 0
        BY <2>1
    <2>4. WalkCounts(S, 0, walk[0])
        BY <2>2, <2>3 DEF WalkCounts
    <2>5. QED
        BY <2>4
<1>2. \A n \in T : n + 1 \in T
    BY StepCounts DEF IsWalk
<1>3. T = Nat
    <2> HIDE DEF T
    <2> QED
        BY <1>1, <1>2, Induction DEF T
<1>4. c \in Nat /\ 2 * c \in Nat
    BY FS_CardinalityType
<1>5. WalkCounts(S, 2 * c, w) /\ w \in Walks(S)
    BY <1>3, <1>4 DEF IsWalk
<1>6. /\ w.visited \in SUBSET S /\ Len(w.order) \in Nat /\ Len(w.stack) \in Nat
      /\ w.stack \in Seq(S)
    BY <1>5 DEF Walks
<1>7. /\ Cardinality(w.visited) \in Nat /\ Cardinality(w.visited) <= c
      /\ Cardinality(w.visited) = c => w.visited = S
    <2>1. IsFiniteSet(w.visited)
        BY <1>6, FS_Subset
    <2>2. QED
        BY <1>6, <2>1, FS_Subset, FS_CardinalityType
<1> HIDE DEF w, c
<1>8. CASE 2 * c = Cardinality(w.visited) + Len(w.order)
    <2>1. Cardinality(w.visited) = Len(w.order) + Len(w.stack)
        BY <1>5 DEF WalkCounts
    <2>2. ASSUME NEW k \in Nat, NEW s \in Nat, NEW o \in Nat,
                 k = o + s, k <= c, 2 * c = k + o
          PROVE  k = c /\ s = 0
        BY <1>4, <2>2
    <2>3. Cardinality(w.visited) = c /\ Len(w.stack) = 0
        BY <1>6, <1>7, <1>8, <2>1, <2>2
    <2>4. QED
        BY <1>6, <1>7, <2>3 DEF w, c
<1>9. QED
    BY <1>5, <1>8 DEF WalkCounts, w, c

(* The order lists each address once, after all it depends on save for the  *)
(* circles that are listed in between: for any number of addresses and any  *)
(* dependencies, recorded or of a configuration, closed or not              *)
(* (graph.sortTopologically, provider.reverseDependencyOrder). This is what *)
(* the reconciliation proofs assume of the order that they are given.       *)
THEOREM OrderSound ==
    ASSUME NEW S \in SUBSET Nat, IsFiniteSet(S), NEW D
    PROVE  /\ Graph!PostOrder(S, D) \in Seq(S)
           /\ Lists(S, Graph!PostOrder(S, D))
           /\ DependenciesFirst(D, Graph!PostOrder(S, D))
<1>1. Cardinality(S) \in Nat
    BY FS_CardinalityType
<1>2. PICK walk : IsWalk(S, D, walk) /\ Graph!PostOrder(S, D) = walk[2 * Cardinality(S)].order
    BY <1>1, WalkExists
<1> DEFINE w == walk[2 * Cardinality(S)]
<1>3. WalkInv(S, D, w)
    <2>1. 2 * Cardinality(S) \in Nat
        BY <1>1
    <2>2. \A n \in Nat : WalkInv(S, D, walk[n])
        BY <1>2, WalkKeeps
    <2>3. QED
        BY <2>1, <2>2
<1>4. w.stack = <<>> /\ w.visited = S
    BY <1>2, WalkEnds
<1>5. w.order \in Seq(S) /\ DependenciesFirst(D, w.order) /\ WalkVisits(w)
    BY <1>3 DEF WalkInv, Walks
<1> HIDE DEF w
<1>6. Lists(S, w.order)
    <2>1. 1 .. Len(w.stack) = {}
        BY <1>4
    <2>2. Image(w.order, 1 .. Len(w.order)) = S
        BY <1>4, <1>5, <2>1 DEF WalkVisits, Image
    <2>3. QED
        BY <1>5, <2>2 DEF WalkVisits, Lists, Image
<1>7. QED
    BY <1>2, <1>5, <1>6 DEF w

(* A cycle that is reported is a path of the stack that its last address    *)
(* closes, each address depending on the next.                              *)
IsCycle(D, c) ==
    /\ Len(c) \in Nat \ {0} /\ DOMAIN c = 1 .. Len(c)
    /\ \A i \in DOMAIN c : c[IF i = Len(c) THEN 1 ELSE i + 1] \in D[c[i]]

(* A cycle that the stack closes is one of the graph.                       *)
LEMMA ClosedIsCycle ==
    ASSUME NEW S, NEW D, NEW w, WalkInv(S, D, w),
           NEW c \in Graph!CyclesClosed(D, w.stack)
    PROVE  /\ IsCycle(D, c)
           /\ \A i \in DOMAIN c : c[i] \in S
<1> DEFINE s == w.stack
           n == Len(s)
<1>1. s \in Seq(S) /\ n \in Nat
    BY DEF WalkInv, Walks
<1>2. PICK k \in 1 .. n : s[k] \in D[s[n]] /\ c = SubSeq(s, k, n)
    <2>1. PICK k \in DOMAIN s : s[k] \in D[Graph!Last(s)] /\ c = SubSeq(s, k, n)
        BY Zenon DEF Graph!CyclesClosed
    <2>2. k \in 1 .. n
        BY <1>1
    <2>3. QED
        BY <2>1, <2>2 DEF Graph!Last
<1>3. /\ Len(c) = n - k + 1 /\ c \in Seq(S)
      /\ \A i \in 1 .. (n - k + 1) : c[i] = s[i + k - 1]
    BY <1>1, <1>2
<1>4. ASSUME NEW i \in 1 .. (n - k + 1)
      PROVE  c[IF i = n - k + 1 THEN 1 ELSE i + 1] \in D[c[i]]
    <2>1. CASE i = n - k + 1
        <3>1. c[i] = s[n] /\ c[1] = s[k]
            BY <1>1, <1>2, <1>3, <2>1
        <3>2. QED
            BY <1>2, <2>1, <3>1
    <2>2. CASE i # n - k + 1
        <3>1. /\ i + 1 \in 1 .. (n - k + 1) /\ i + k - 1 \in 1 .. (n - 1)
              /\ (i + 1) + k - 1 = (i + k - 1) + 1
            BY <1>1, <2>2
        <3>2. s[(i + k - 1) + 1] \in D[s[i + k - 1]]
            BY <3>1 DEF WalkInv, WalkPath
        <3>3. c[i] = s[i + k - 1] /\ c[i + 1] = s[(i + k - 1) + 1]
            BY <1>3, <3>1
        <3>4. QED
            BY <2>2, <3>2, <3>3
    <2>3. QED
        BY <2>1, <2>2
<1>5. n - k + 1 \in Nat \ {0}
    BY <1>1
<1>6. DOMAIN c = 1 .. (n - k + 1)
    BY <1>3
<1> HIDE DEF s, n
<1>7. QED
    BY <1>3, <1>4, <1>5, <1>6 DEF IsCycle

(* While no cycle was found, each listed address follows all it depends on. *)
ListedAfter(S, D, w) ==
    \A i \in 1 .. Len(w.order) : D[w.order[i]] \cap S \subseteq Image(w.order, 1 .. (i - 1))

(* As long as no cycle closes, dependencies are listed first.               *)
LEMMA StepListsAfter ==
    ASSUME NEW S \in SUBSET Nat, NEW D, NEW w, WalkInv(S, D, w), ListedAfter(S, D, w),
           Graph!CyclesClosed(D, w.stack) = {}
    PROVE  ListedAfter(S, D, Graph!WalkStep(S, D, w))
<1> DEFINE n == Len(w.stack)
           m == Len(w.order)
           v == Graph!WalkStep(S, D, w)
<1>1. /\ w \in Walks(S) /\ w.stack \in Seq(S) /\ w.order \in Seq(S)
      /\ n \in Nat /\ m \in Nat
    BY DEF WalkInv, Walks
<1>2. CASE \E x \in S \ w.visited : v = Graph!WalkEnter(w, x)
    <2>1. v.order = w.order
        BY <1>1, <1>2, EnterIs
    <2> HIDE DEF v
    <2>2. QED
        BY <2>1 DEF ListedAfter, v
<1>3. CASE v = Graph!WalkLeave(w) /\ w.stack # <<>> /\ D[w.stack[n]] \cap S \subseteq w.visited
    <2> DEFINE z == w.stack[n]
    <2>1. v.order = Append(w.order, z) /\ z \in S /\ n > 0
        BY <1>1, <1>3, LeaveIs
    <2> HIDE DEF v
    <2>2. /\ Len(v.order) = m + 1 /\ v.order[m + 1] = z
          /\ \A i \in 1 .. m : v.order[i] = w.order[i]
        BY <1>1, <2>1
    <2>3. \A k \in 1 .. n : ~ (w.stack[k] \in D[z])
        <3>1. \A k \in DOMAIN w.stack : ~ (w.stack[k] \in D[Graph!Last(w.stack)])
            BY Zenon DEF Graph!CyclesClosed
        <3>2. QED
            BY <1>1, <3>1 DEF Graph!Last
    <2>4. D[z] \cap S \subseteq Image(w.order, 1 .. m)
        BY <1>3, <2>3 DEF WalkInv, WalkVisits, Image
    <2>5. ASSUME NEW i \in 1 .. (m + 1)
          PROVE  D[v.order[i]] \cap S \subseteq Image(v.order, 1 .. (i - 1))
        <3>1. Image(v.order, 1 .. (i - 1)) = Image(w.order, 1 .. (i - 1))
            <4>1. \A k \in 1 .. (i - 1) : v.order[k] = w.order[k]
                BY <1>1, <2>2
            <4>2. QED
                BY <4>1, SameImage
        <3>2. CASE i \in 1 .. m
            BY <2>2, <3>1, <3>2 DEF ListedAfter
        <3>3. CASE i = m + 1
            <4>1. i - 1 = m
                BY <1>1, <3>3
            <4>2. QED
                BY <2>2, <2>4, <3>1, <3>3, <4>1
        <3>4. QED
            BY <1>1, <3>2, <3>3
    <2>6. QED
        BY <2>2, <2>5 DEF ListedAfter, v
<1>4. CASE v = w
    BY <1>4
<1>5. QED
    BY <1>1, <1>2, <1>3, <1>4, StepIs

(* No circle is among addresses of which each follows all it depends on.    *)
LEMMA ListedHasNoKnot ==
    ASSUME NEW S \in SUBSET Nat, NEW D, NEW w \in Walks(S), ListedAfter(S, D, w),
           S = Image(w.order, 1 .. Len(w.order)),
           NEW T \in SUBSET S, T # {}
    PROVE  \E x \in T : D[x] \cap T = {}
<1> DEFINE I == {i \in 1 .. Len(w.order) : w.order[i] \in T}
<1>1. I \in SUBSET Nat /\ I # {}
    <2>1. I \in SUBSET Nat
        OBVIOUS
    <2>2. PICK x \in T : x \in S
        OBVIOUS
    <2>3. PICK i \in 1 .. Len(w.order) : x = w.order[i]
        BY <2>2 DEF Image
    <2>4. QED
        BY <2>1, <2>2, <2>3
<1>2. PICK i \in I : \A j \in I : i <= j
    BY <1>1, SmallestOf
<1>3. D[w.order[i]] \cap S \subseteq Image(w.order, 1 .. (i - 1))
    BY DEF ListedAfter
<1>4. ASSUME NEW y \in D[w.order[i]] \cap T
      PROVE  FALSE
    <2>1. PICK j \in 1 .. (i - 1) : y = w.order[j]
        BY <1>3 DEF Image
    <2>2. j \in I /\ j < i
        <3>1. Len(w.order) \in Nat
            BY DEF Walks
        <3>2. QED
            BY <2>1, <3>1
    <2>3. QED
        BY <1>2, <2>2
<1>5. QED
    BY <1>4

(* Every reported cycle is one, and none is reported exactly when there is  *)
(* no set of addresses of which each depends on one of the set: for any     *)
(* number of addresses (graph.sortTopologically).                           *)
THEOREM CyclesSound ==
    ASSUME NEW S \in SUBSET Nat, IsFiniteSet(S), NEW D
    PROVE  /\ Graph!Cycles(S, D) # {} <=>
                 \E T \in SUBSET S : T # {} /\ \A x \in T : D[x] \cap T # {}
           /\ \A c \in Graph!Cycles(S, D) : IsCycle(D, c)
<1>1. Cardinality(S) \in Nat
    BY FS_CardinalityType
<1> DEFINE N == 2 * Cardinality(S)
<1>2. PICK walk : /\ IsWalk(S, D, walk)
                  /\ Graph!Cycles(S, D) =
                        UNION {Graph!CyclesClosed(D, walk[n].stack) : n \in 0 .. N}
    BY <1>1, WalkExists
<1>3. \A n \in Nat : WalkInv(S, D, walk[n])
    BY <1>2, WalkKeeps
<1>4. N \in Nat
    BY <1>1
<1> HIDE DEF N
<1>5. ASSUME NEW c \in Graph!Cycles(S, D)
      PROVE  IsCycle(D, c) /\ \A i \in DOMAIN c : c[i] \in S
    <2>1. PICK n \in 0 .. N : c \in Graph!CyclesClosed(D, walk[n].stack)
        BY <1>2
    <2>2. WalkInv(S, D, walk[n])
        BY <1>3, <1>4
    <2>3. QED
        BY <2>1, <2>2, ClosedIsCycle
<1>6. ASSUME NEW c \in Graph!Cycles(S, D)
      PROVE  \E T \in SUBSET S : T # {} /\ \A x \in T : D[x] \cap T # {}
    <2> DEFINE T == Image(c, DOMAIN c)
    <2>1. IsCycle(D, c) /\ T \subseteq S
        BY <1>5 DEF Image
    <2>2. 1 \in DOMAIN c /\ T # {}
        BY <2>1 DEF IsCycle, Image
    <2>3. ASSUME NEW x \in T
          PROVE  D[x] \cap T # {}
        <3>1. PICK i \in DOMAIN c : x = c[i]
            BY DEF Image
        <3> DEFINE j == IF i = Len(c) THEN 1 ELSE i + 1
        <3>2. c[j] \in D[x]
            BY <2>1, <3>1 DEF IsCycle
        <3>3. j \in DOMAIN c
            BY <2>1, <2>2 DEF IsCycle
        <3>4. c[j] \in T
            BY <3>3 DEF Image
        <3>5. QED
            BY <3>2, <3>4
    <2>4. QED
        BY <2>1, <2>2, <2>3
<1>7. ASSUME Graph!Cycles(S, D) = {}, NEW T \in SUBSET S, T # {}
      PROVE  \E x \in T : D[x] \cap T = {}
    <2> DEFINE E == {n \in Nat : n <= N => ListedAfter(S, D, walk[n])}
    <2>1. 0 \in E
        <3>1. Len(walk[0].order) = 0
            BY <1>2 DEF IsWalk, Graph!WalkStart
        <3>2. QED
            BY <3>1 DEF ListedAfter
    <2>2. ASSUME NEW n \in E
          PROVE  n + 1 \in E
        <3>1. SUFFICES ASSUME n + 1 <= N
                       PROVE  ListedAfter(S, D, walk[n + 1])
            OBVIOUS
        <3>2. n \in 0 .. N /\ n <= N
            BY <1>4, <3>1
        <3>3. Graph!CyclesClosed(D, walk[n].stack) = {}
            BY <1>2, <1>7, <3>2
        <3>4. ListedAfter(S, D, walk[n]) /\ WalkInv(S, D, walk[n])
            BY <1>3, <3>2
        <3>5. walk[n + 1] = Graph!WalkStep(S, D, walk[n])
            BY <1>2 DEF IsWalk
        <3>6. QED
            BY <3>3, <3>4, <3>5, StepListsAfter
    <2>3. E = Nat
        <3> HIDE DEF E
        <3> QED
            BY <2>1, <2>2, Induction DEF E
    <2> DEFINE w == walk[N]
    <2>4. ListedAfter(S, D, w) /\ WalkInv(S, D, w)
        BY <1>3, <1>4, <2>3
    <2>5. w.stack = <<>> /\ w.visited = S
        BY <1>2, WalkEnds DEF N
    <2>6. S = Image(w.order, 1 .. Len(w.order))
        <3>1. 1 .. Len(w.stack) = {}
            BY <2>5
        <3>2. QED
            BY <2>4, <2>5, <3>1 DEF WalkInv, WalkVisits, Image
    <2>7. w \in Walks(S)
        BY <2>4 DEF WalkInv
    <2> HIDE DEF w
    <2>8. QED
        BY <1>7, <2>4, <2>6, <2>7, ListedHasNoKnot
<1>8. QED
    BY <1>5, <1>6, <1>7

(* For every graph that is put before the run: an order or a true cycle.    *)
LEMMA GraphSoundOf ==
    ASSUME case.kind = "graph" => case.nodes \in SUBSET Nat /\ IsFiniteSet(case.nodes)
    PROVE  GraphSound
<1> SUFFICES ASSUME case.kind = "graph"
             PROVE  GraphSound
    BY DEF GraphSound, OrderRespectsDependencies, CyclesReal
<1> DEFINE S == case.nodes
           D == case.deps
<1>1. S \in SUBSET Nat /\ IsFiniteSet(S)
    OBVIOUS
<1>2. /\ Lists(S, Graph!PostOrder(S, D))
      /\ DependenciesFirst(D, Graph!PostOrder(S, D))
    BY <1>1, OrderSound
<1>3. /\ Graph!Cycles(S, D) # {} <=>
            \E T \in SUBSET S : T # {} /\ \A x \in T : D[x] \cap T # {}
      /\ \A c \in Graph!Cycles(S, D) : IsCycle(D, c)
    BY <1>1, CyclesSound
<1>4. OrderRespectsDependencies
    BY <1>2 DEF OrderRespectsDependencies
<1>5. CyclesReal
    BY <1>3 DEF CyclesReal, IsCycle
<1>6. QED
    BY <1>4, <1>5 DEF GraphSound

(* Every graph of finitely many addresses, whatever they depend on, gets an *)
(* order, and is refused exactly when it has a cycle (GraphSound is what    *)
(* the run checks for the graphs of up to four addresses).                  *)
THEOREM AnyGraphIsSound ==
    ASSUME NEW S \in SUBSET Nat, IsFiniteSet(S), NEW D,
           case = [kind |-> "graph", nodes |-> S, deps |-> D]
    PROVE  GraphSound
BY GraphSoundOf
-----------------------------------------------------------------------------
(* Versions.                                                                *)

SomeVersion == Nat \X Nat \X Nat \X Nat

Before(v, w) ==
    \/ v[1] < w[1]
    \/ v[1] = w[1] /\ v[2] < w[2]
    \/ v[1] = w[1] /\ v[2] = w[2] /\ v[3] < w[3]
    \/ v[1] = w[1] /\ v[2] = w[2] /\ v[3] = w[3] /\ v[4] < w[4]

(* Comparing versions is comparing components from the left.                *)
LEMMA PrecedesIs ==
    ASSUME NEW v \in SomeVersion, NEW w \in SomeVersion
    PROVE  Plugin!Precedes(v, w) <=> Before(v, w)
<1> DEFINE At(i) == v[i] < w[i] /\ \A j \in 1 .. (i - 1) : v[j] = w[j]
<1>1. Plugin!Precedes(v, w) <=> \E i \in DOMAIN v : At(i)
    BY Zenon DEF Plugin!Precedes
<1>2. DOMAIN v = {1, 2, 3, 4}
    BY DEF SomeVersion
<1>3. /\ 1 .. (1 - 1) = {} /\ 1 .. (2 - 1) = {1}
      /\ 1 .. (3 - 1) = {1, 2} /\ 1 .. (4 - 1) = {1, 2, 3}
    OBVIOUS
<1>4. /\ At(1) <=> v[1] < w[1]
      /\ At(2) <=> v[1] = w[1] /\ v[2] < w[2]
      /\ At(3) <=> v[1] = w[1] /\ v[2] = w[2] /\ v[3] < w[3]
      /\ At(4) <=> v[1] = w[1] /\ v[2] = w[2] /\ v[3] = w[3] /\ v[4] < w[4]
    BY <1>3
<1> HIDE DEF At
<1>5. QED
    BY <1>1, <1>2, <1>4 DEF Before

(* A pessimistic constraint fixes all components but the last one written,  *)
(* and that one from below, for every version and every constraint          *)
(* (versionMatches).                                                        *)
LEMMA TildeIsRangeOf ==
    ASSUME case.kind = "version" =>
               /\ case.version \in SomeVersion
               /\ case.constraint.version \in SomeVersion
               /\ case.constraint.op \in {"~>", "="}
               /\ case.constraint.op = "~>" =>
                     /\ case.constraint.parts \in 1 .. 3
                     /\ WellFormed(case.constraint)
                     /\ case.constraint.version[4] = Plugin!Released
    PROVE  TildeIsRange
<1> DEFINE c == case.constraint
           v == case.version
<1> SUFFICES ASSUME case.kind = "version"
             PROVE  Plugin!VersionMatches(v, c) <=>
                      LET fixed == IF c.parts = 3 THEN 2 ELSE 1 IN
                      IF c.op = "=" THEN v = c.version
                      ELSE /\ \A k \in 1 .. fixed : v[k] = c.version[k]
                           /\ \/ v[fixed + 1] > c.version[fixed + 1]
                              \/ /\ v[fixed + 1] = c.version[fixed + 1]
                                 /\ fixed = 1 => v[3] >= c.version[3]
    BY DEF TildeIsRange
<1>1. PICK x \in Nat, y \in Nat, z \in Nat, p \in Nat : v = <<x, y, z, p>>
    BY DEF SomeVersion
<1>2. PICK l \in Nat, m \in Nat, n \in Nat, q \in Nat : c.version = <<l, m, n, q>>
    BY DEF SomeVersion
<1>3. CASE c.op = "="
    BY <1>3 DEF Plugin!VersionMatches
<1>4. CASE c.op = "~>"
    <2>1. Plugin!WithoutPrerelease(v) = <<x, y, z, 9>>
        BY <1>1 DEF Plugin!WithoutPrerelease, Plugin!Released
    <2>2. q = 9
        BY <1>2, <1>4 DEF Plugin!Released
    <2>3. ~ Plugin!Precedes(<<x, y, z, 9>>, c.version) <=>
             \/ x > l
             \/ x = l /\ y > m
             \/ x = l /\ y = m /\ z >= n
        <3>1. Plugin!Precedes(<<x, y, z, 9>>, c.version) <=> Before(<<x, y, z, 9>>, c.version)
            <4>1. <<x, y, z, 9>> \in SomeVersion /\ c.version \in SomeVersion
                BY DEF SomeVersion
            <4>2. QED
                BY <4>1, PrecedesIs
        <3>2. c.version = <<l, m, n, 9>>
            BY <1>2, <2>2
        <3>3. QED
            BY <3>1, <3>2 DEF Before
    <2>4. Plugin!VersionMatches(v, c) <=>
             /\ ~ Plugin!Precedes(<<x, y, z, 9>>, c.version)
             /\ Plugin!Precedes(<<x, y, z, 9>>, Plugin!Maximum(c))
        BY <1>4, <2>1 DEF Plugin!VersionMatches
    <2>5. CASE c.parts = 3
        <3>1. Plugin!Maximum(c) = <<l, m + 1, 0, 9>>
            BY <1>2, <2>5 DEF Plugin!Maximum, Plugin!Released
        <3>2. Plugin!Precedes(<<x, y, z, 9>>, <<l, m + 1, 0, 9>>) <=>
                 x < l \/ (x = l /\ y < m + 1)
            <4>1. <<x, y, z, 9>> \in SomeVersion /\ <<l, m + 1, 0, 9>> \in SomeVersion
                BY DEF SomeVersion
            <4>2. QED
                BY <4>1, PrecedesIs DEF Before
        <3>3. Plugin!VersionMatches(v, c) <=> x = l /\ ((y > m) \/ (y = m /\ z >= n)) /\ y < m + 1
            BY <2>3, <2>4, <3>1, <3>2
        <3>4. QED
            BY <3>3, <1>1, <1>2, <1>4, <2>5
    <2>6. CASE c.parts \in {1, 2}
        <3>1. Plugin!Maximum(c) = <<l + 1, 0, 0, 9>>
            BY <1>2, <2>6 DEF Plugin!Maximum, Plugin!Released
        <3>2. Plugin!Precedes(<<x, y, z, 9>>, <<l + 1, 0, 0, 9>>) <=> x < l + 1
            <4>1. <<x, y, z, 9>> \in SomeVersion /\ <<l + 1, 0, 0, 9>> \in SomeVersion
                BY DEF SomeVersion
            <4>2. QED
                BY <4>1, PrecedesIs DEF Before
        <3>3. n = 0 /\ (c.parts = 1 => m = 0)
            BY <1>2, <1>4, <2>6 DEF WellFormed
        <3>4. Plugin!VersionMatches(v, c) <=> x = l /\ y >= m
            BY <2>3, <2>4, <3>1, <3>2, <3>3
        <3>5. QED
            BY <3>3, <3>4, <1>1, <1>2, <1>4, <2>6
    <2>7. QED
        BY <1>4, <2>5, <2>6
<1>5. QED
    BY <1>3, <1>4

(* What one release of a list makes of the selection so far.                *)
Considered(c, selected, release) ==
    IF /\ Plugin!Candidate(release, c)
       /\ selected = None \/ Plugin!Higher(selected, release)
    THEN release ELSE selected

(* The selection, release by release.                                       *)
Selects(list, c, g) ==
    /\ g[0] = None
    /\ \A k \in 0 .. (Len(list) - 1) : g[k + 1] = Considered(c, g[k], list[k + 1])
    /\ Plugin!SelectRelease(list, c) = g[Len(list)]

(* selectRelease looks at the releases one after the other.                 *)
LEMMA SelectUnfolds ==
    ASSUME NEW R, NEW list \in Seq(R), NEW c
    PROVE  \E g : Selects(list, c, g)
<1> DEFINE n == Len(list)
           A == R \cup {None}
           step == [p \in A \X (1 .. n) |-> Considered(c, p[1], list[p[2]])]
           Unfolds(f) == f = [s \in SUBSET DOMAIN list |->
                                IF s = {} THEN None
                                ELSE Considered(c, f[s \ {Greatest(s)}], list[Greatest(s)])]
           iter == CHOOSE f : Unfolds(f)
           g == [k \in 0 .. n |-> iter[1 .. k]]
<1>1. n \in Nat /\ DOMAIN list = 1 .. n /\ \A k \in 1 .. n : list[k] \in R
    OBVIOUS
<1>2. PICK f : SetFold(n, A, None, step, f)
    <2>1. step \in [A \X (1 .. n) -> A]
        <3>1. ASSUME NEW p \in A \X (1 .. n)
              PROVE  Considered(c, p[1], list[p[2]]) \in A
            BY <1>1 DEF Considered
        <3>2. QED
            BY <3>1
    <2>2. None \in A
        OBVIOUS
    <2> HIDE DEF A, step, n
    <2>3. QED
        BY <1>1, <2>1, <2>2, SetFoldExists
<1>3. Unfolds(f)
    <2>1. f \in [SUBSET (1 .. n) -> A]
        BY <1>2 DEF SetFold
    <2>2. ASSUME NEW s \in SUBSET (1 .. n), s # {}
          PROVE  f[s] = Considered(c, f[s \ {Greatest(s)}], list[Greatest(s)])
        <3>1. Greatest(s) \in 1 .. n
            BY <1>1, <2>2, GreatestOf
        <3>2. s \ {Greatest(s)} \in SUBSET (1 .. n)
            OBVIOUS
        <3>3. f[s \ {Greatest(s)}] \in A
            BY <2>1, <3>2
        <3>4. f[s] = step[<<f[s \ {Greatest(s)}], Greatest(s)>>]
            BY <1>2, <2>2 DEF SetFold
        <3>5. <<f[s \ {Greatest(s)}], Greatest(s)>> \in A \X (1 .. n)
            BY <3>1, <3>3
        <3>6. QED
            BY <3>4, <3>5
    <2>3. ASSUME NEW s \in SUBSET (1 .. n), s = {}
          PROVE  f[s] = None
        BY <1>2, <2>3 DEF SetFold
    <2>4. \A s \in SUBSET (1 .. n) :
             f[s] = IF s = {} THEN None
                    ELSE Considered(c, f[s \ {Greatest(s)}], list[Greatest(s)])
        <3> HIDE DEF A, step, n
        <3> QED
            BY <2>2, <2>3
    <2>5. f = [s \in SUBSET (1 .. n) |-> f[s]]
        BY <2>1
    <2>6. QED
        BY <1>1, <2>4, <2>5
<1>4. Unfolds(iter)
    <2> HIDE DEF Unfolds
    <2> QED
        BY <1>3
<1>5. Plugin!SelectRelease(list, c) = iter[1 .. n]
    BY <1>1 DEF Plugin!SelectRelease, Plugin!FoldLeft, Plugin!MapThenFoldSet, Plugin!Max,
       Greatest, Considered
<1> HIDE DEF iter, step, A
<1>6. iter[1 .. 0] = None
    <2>1. 1 .. 0 = {} /\ 1 .. 0 \in SUBSET DOMAIN list
        OBVIOUS
    <2>2. QED
        BY <1>4, <2>1
<1>7. ASSUME NEW k \in 0 .. (n - 1)
      PROVE  iter[1 .. (k + 1)] = Considered(c, iter[1 .. k], list[k + 1])
    <2>1. /\ 1 .. (k + 1) \in SUBSET (1 .. n) /\ 1 .. (k + 1) # {}
          /\ Greatest(1 .. (k + 1)) = k + 1
          /\ (1 .. (k + 1)) \ {k + 1} = 1 .. k
        BY <1>1, FoldPrefix
    <2>2. QED
        BY <1>1, <1>4, <2>1
<1>8. Selects(list, c, g)
    <2>1. 0 \in 0 .. n /\ n \in 0 .. n
        BY <1>1
    <2>2. ASSUME NEW k \in 0 .. (n - 1)
          PROVE  g[k + 1] = Considered(c, g[k], list[k + 1])
        <3>1. k \in 0 .. n /\ k + 1 \in 0 .. n
            BY <1>1
        <3>2. QED
            BY <1>7, <3>1
    <2>3. QED
        BY <1>5, <1>6, <2>1, <2>2 DEF Selects
<1> HIDE DEF g
<1>9. QED
    BY <1>8

(* Of what was considered, the selection is a candidate and none is higher. *)
SelectedOf(list, c, k, r) ==
    /\ r = None => \A i \in 1 .. k : ~ Plugin!Candidate(list[i], c)
    /\ r # None =>
          /\ \E i \in 1 .. k : r = list[i] /\ Plugin!Candidate(list[i], c)
          /\ \A i \in 1 .. k :
                Plugin!Candidate(list[i], c) => ~ Plugin!Precedes(r.version, list[i].version)

(* The order of versions is a strict one.                                   *)
LEMMA PrecedesOrders ==
    ASSUME NEW u \in SomeVersion, NEW v \in SomeVersion, NEW w \in SomeVersion
    PROVE  /\ ~ Plugin!Precedes(v, v)
           /\ Plugin!Precedes(u, v) /\ ~ Plugin!Precedes(u, w) => ~ Plugin!Precedes(v, w)
<1>1. /\ u[1] \in Nat /\ u[2] \in Nat /\ u[3] \in Nat /\ u[4] \in Nat
      /\ v[1] \in Nat /\ v[2] \in Nat /\ v[3] \in Nat /\ v[4] \in Nat
      /\ w[1] \in Nat /\ w[2] \in Nat /\ w[3] \in Nat /\ w[4] \in Nat
    BY DEF SomeVersion
<1>2. ~ Before(v, v)
    BY <1>1 DEF Before
<1>3. Before(u, v) /\ ~ Before(u, w) => ~ Before(v, w)
    BY <1>1 DEF Before
<1>4. QED
    BY <1>2, <1>3, PrecedesIs

(* Looking at one more release keeps the highest one so far.                *)
LEMMA ConsiderKeeps ==
    ASSUME NEW R, None \notin R, \A r \in R : r.version \in SomeVersion,
           NEW list \in Seq(R), NEW c, NEW k \in 0 .. (Len(list) - 1),
           NEW r, SelectedOf(list, c, k, r)
    PROVE  SelectedOf(list, c, k + 1, Considered(c, r, list[k + 1]))
<1> DEFINE z == list[k + 1]
<1>1. /\ 1 .. (k + 1) = (1 .. k) \cup {k + 1}
      /\ \A i \in 1 .. (k + 1) : list[i] \in R /\ list[i] # None /\ list[i].version \in SomeVersion
    <2>1. Len(list) \in Nat
        OBVIOUS
    <2>2. 1 .. (k + 1) = (1 .. k) \cup {k + 1} /\ 1 .. (k + 1) \subseteq 1 .. Len(list)
        BY <2>1
    <2>3. \A i \in 1 .. Len(list) : list[i] \in R
        OBVIOUS
    <2>4. QED
        BY <2>2, <2>3
<1>2. k + 1 \in 1 .. (k + 1)
    BY <1>1
<1>3. CASE ~ Plugin!Candidate(z, c)
    <2>1. Considered(c, r, z) = r
        BY <1>3 DEF Considered
    <2>2. QED
        BY <1>1, <1>3, <2>1 DEF SelectedOf
<1>4. CASE Plugin!Candidate(z, c) /\ r = None
    <2>1. Considered(c, r, z) = z
        BY <1>4 DEF Considered
    <2>2. ~ Plugin!Precedes(z.version, z.version)
        BY <1>1, <1>2, PrecedesOrders
    <2>3. QED
        BY <1>1, <1>2, <1>4, <2>1, <2>2 DEF SelectedOf
<1>5. CASE Plugin!Candidate(z, c) /\ r # None /\ Plugin!Higher(r, z)
    <2>1. Considered(c, r, z) = z
        BY <1>5 DEF Considered
    <2>2. PICK j \in 1 .. k : r = list[j]
        BY <1>5 DEF SelectedOf
    <2>3. r.version \in SomeVersion /\ z.version \in SomeVersion
        BY <1>1, <1>2, <2>2
    <2>4. ASSUME NEW i \in 1 .. (k + 1), Plugin!Candidate(list[i], c)
          PROVE  ~ Plugin!Precedes(z.version, list[i].version)
        <3>1. CASE i = k + 1
            BY <2>3, <3>1, PrecedesOrders
        <3>2. CASE i \in 1 .. k
            <4>1. ~ Plugin!Precedes(r.version, list[i].version)
                BY <1>5, <2>4, <3>2 DEF SelectedOf
            <4>2. list[i].version \in SomeVersion
                BY <1>1
            <4>3. QED
                BY <1>5, <2>3, <4>1, <4>2, PrecedesOrders DEF Plugin!Higher
        <3>3. QED
            BY <1>1, <3>1, <3>2
    <2>5. QED
        BY <1>1, <1>2, <1>5, <2>1, <2>4 DEF SelectedOf
<1>6. CASE Plugin!Candidate(z, c) /\ r # None /\ ~ Plugin!Higher(r, z)
    <2>1. Considered(c, r, z) = r
        BY <1>6 DEF Considered
    <2>2. QED
        BY <1>1, <1>6, <2>1 DEF SelectedOf, Plugin!Higher
<1>7. QED
    BY <1>3, <1>4, <1>5, <1>6

(* The release of an install is a published one of the range, and none is   *)
(* higher, for every list of releases (resolveRelease).                     *)
LEMMA SelectionIsHighestOf ==
    ASSUME NEW R, None \notin R, \A r \in R : r.version \in SomeVersion,
           case.kind = "release" => case.releases \in Seq(R)
    PROVE  SelectionIsHighest
<1> DEFINE c == case.constraint
           list == case.releases
           selected == Plugin!SelectRelease(list, c)
           n == Len(list)
<1> SUFFICES ASSUME case.kind = "release"
             PROVE  LET fits == {r \in Range(list) : Plugin!Candidate(r, c)}
                    IN  /\ selected = None <=> fits = {}
                        /\ selected # None =>
                            /\ selected \in fits
                            /\ \A r \in fits : ~ Plugin!Precedes(selected.version, r.version)
    BY DEF SelectionIsHighest
<1>1. list \in Seq(R) /\ n \in Nat /\ DOMAIN list = 1 .. n
    OBVIOUS
<1>2. PICK g : Selects(list, c, g)
    BY <1>1, SelectUnfolds
<1> DEFINE T == {k \in Nat : k <= n => SelectedOf(list, c, k, g[k])}
<1> HIDE DEF list, c, selected, n
<1>3. 0 \in T
    <2>1. 1 .. 0 = {}
        OBVIOUS
    <2>2. QED
        BY <1>2, <2>1 DEF Selects, SelectedOf
<1>4. ASSUME NEW k \in T
      PROVE  k + 1 \in T
    <2>1. SUFFICES ASSUME k + 1 <= n
                   PROVE  SelectedOf(list, c, k + 1, g[k + 1])
        OBVIOUS
    <2>2. k \in 0 .. (n - 1) /\ k <= n
        BY <1>1, <2>1
    <2>3. g[k + 1] = Considered(c, g[k], list[k + 1])
        BY <1>2, <2>2 DEF Selects, n
    <2>4. SelectedOf(list, c, k, g[k])
        BY <2>2
    <2>5. QED
        BY <1>1, <2>2, <2>3, <2>4, ConsiderKeeps DEF n
<1>5. T = Nat
    <2> HIDE DEF T
    <2> QED
        BY <1>3, <1>4, Induction DEF T
<1>6. SelectedOf(list, c, n, selected)
    <2>1. SelectedOf(list, c, n, g[n])
        BY <1>1, <1>5
    <2>2. QED
        BY <1>2, <2>1 DEF Selects, n, selected
<1>7. Range(list) = {list[i] : i \in 1 .. n}
    BY <1>1 DEF Range
<1>8. QED
    BY <1>6, <1>7 DEF SelectedOf

(* A requirement selects what its author meant: for all versions, all well  *)
(* formed constraints and all lists of releases (versionMatches,            *)
(* resolveRelease).                                                         *)
THEOREM AnyReleaseIsMeant ==
    ASSUME NEW R, None \notin R, \A r \in R : r.version \in SomeVersion,
           case.kind = "release" => case.releases \in Seq(R),
           case.kind = "version" =>
               /\ case.version \in SomeVersion
               /\ case.constraint.version \in SomeVersion
               /\ case.constraint.op \in {"~>", "="}
               /\ case.constraint.op = "~>" =>
                     /\ case.constraint.parts \in 1 .. 3
                     /\ WellFormed(case.constraint)
                     /\ case.constraint.version[4] = Plugin!Released
    PROVE  ReleaseIsMeant
<1>1. TildeIsRange
    BY TildeIsRangeOf
<1>2. SelectionIsHighest
    BY SelectionIsHighestOf
<1>3. QED
    BY <1>1, <1>2 DEF ReleaseIsMeant
-----------------------------------------------------------------------------
(* Modules.                                                                 *)

(* The symbol table, file by file.                                          *)
Defines(files, g) ==
    /\ g[0] = <<>>
    /\ \A k \in 0 .. (Len(files) - 1) : g[k + 1] = Load!Define(g[k], files[k + 1])
    /\ Load!Symbols(files) = g[Len(files)]

Tables(F) ==
    LET blocks == UNION {Load!Range(f) : f \in F}
    IN  UNION {[d -> blocks] : d \in SUBSET {Load!Addr(b) : b \in blocks}}

(* Defining a file in a table makes a table.                                *)
LEMMA DefineType ==
    ASSUME NEW F, NEW f \in F, NEW x \in Tables(F)
    PROVE  Load!Define(x, f) \in Tables(F)
<1> DEFINE blocks == UNION {Load!Range(h) : h \in F}
           addrs == {Load!Addr(b) : b \in Load!Range(f)}
           new(a) == CHOOSE b \in Load!Range(f) : Load!Addr(b) = a
           z == [a \in (DOMAIN x) \cup addrs |-> IF a \in DOMAIN x THEN x[a] ELSE new(a)]
<1>1. PICK d \in SUBSET {Load!Addr(b) : b \in blocks} : x \in [d -> blocks]
    BY DEF Tables
<1>2. ASSUME NEW a \in addrs
      PROVE  new(a) \in Load!Range(f)
    BY <1>2
<1>3. addrs \subseteq {Load!Addr(b) : b \in blocks} /\ Load!Range(f) \subseteq blocks
    OBVIOUS
<1> HIDE DEF blocks, new, addrs
<1>4. z \in [d \cup addrs -> blocks] /\ d \cup addrs \in SUBSET {Load!Addr(b) : b \in blocks}
    BY <1>1, <1>2, <1>3
<1>5. z \in Tables(F)
    BY <1>4 DEF Tables, blocks
<1>6. Load!Define(x, f) = IF Load!Parses(f) THEN z ELSE x
    BY DEF Load!Define, addrs, new
<1>7. QED
    BY <1>5, <1>6

(* The symbol table takes in the files one after the other.                 *)
LEMMA SymbolsUnfold ==
    ASSUME NEW F, NEW files \in Seq(F)
    PROVE  \E g : Defines(files, g)
<1> DEFINE n == Len(files)
           A == Tables(F)
           step == [p \in A \X (1 .. n) |-> Load!Define(p[1], files[p[2]])]
           Unfolds(f) == f = [s \in SUBSET DOMAIN files |->
                                IF s = {} THEN <<>>
                                ELSE Load!Define(f[s \ {Greatest(s)}], files[Greatest(s)])]
           iter == CHOOSE f : Unfolds(f)
           g == [k \in 0 .. n |-> iter[1 .. k]]
<1>1. n \in Nat /\ DOMAIN files = 1 .. n /\ \A k \in 1 .. n : files[k] \in F
    OBVIOUS
<1>2. PICK f : SetFold(n, A, <<>>, step, f)
    <2>1. step \in [A \X (1 .. n) -> A]
        <3>1. ASSUME NEW p \in A \X (1 .. n)
              PROVE  Load!Define(p[1], files[p[2]]) \in A
            BY <1>1, DefineType
        <3>2. QED
            BY <3>1
    <2>2. <<>> \in A
        <3> DEFINE blocks == UNION {Load!Range(h) : h \in F}
        <3>1. <<>> \in [{} -> blocks]
            OBVIOUS
        <3>2. {} \in SUBSET {Load!Addr(b) : b \in blocks}
            OBVIOUS
        <3> HIDE DEF blocks
        <3>3. QED
            BY <3>1, <3>2 DEF Tables, blocks
    <2> HIDE DEF A, step, n
    <2>3. QED
        BY <1>1, <2>1, <2>2, SetFoldExists
<1>3. Unfolds(f)
    <2>1. f \in [SUBSET (1 .. n) -> A]
        BY <1>2 DEF SetFold
    <2>2. ASSUME NEW s \in SUBSET (1 .. n), s # {}
          PROVE  f[s] = Load!Define(f[s \ {Greatest(s)}], files[Greatest(s)])
        <3>1. Greatest(s) \in 1 .. n
            BY <1>1, <2>2, GreatestOf
        <3>2. s \ {Greatest(s)} \in SUBSET (1 .. n)
            OBVIOUS
        <3>3. f[s \ {Greatest(s)}] \in A
            BY <2>1, <3>2
        <3>4. f[s] = step[<<f[s \ {Greatest(s)}], Greatest(s)>>]
            BY <1>2, <2>2 DEF SetFold
        <3>5. <<f[s \ {Greatest(s)}], Greatest(s)>> \in A \X (1 .. n)
            BY <3>1, <3>3
        <3>6. QED
            BY <3>4, <3>5
    <2>3. ASSUME NEW s \in SUBSET (1 .. n), s = {}
          PROVE  f[s] = <<>>
        BY <1>2, <2>3 DEF SetFold
    <2>4. \A s \in SUBSET (1 .. n) :
             f[s] = IF s = {} THEN <<>>
                    ELSE Load!Define(f[s \ {Greatest(s)}], files[Greatest(s)])
        <3> HIDE DEF A, step, n
        <3> QED
            BY <2>2, <2>3
    <2>5. f = [s \in SUBSET (1 .. n) |-> f[s]]
        BY <2>1
    <2>6. QED
        BY <1>1, <2>4, <2>5
<1>4. Unfolds(iter)
    <2> HIDE DEF Unfolds
    <2> QED
        BY <1>3
<1>5. Load!Symbols(files) = iter[1 .. n]
    BY <1>1 DEF Load!Symbols, Load!FoldLeft, Load!MapThenFoldSet, Load!Max, Greatest
<1> HIDE DEF iter, step, A
<1>6. iter[1 .. 0] = <<>>
    <2>1. 1 .. 0 = {} /\ 1 .. 0 \in SUBSET DOMAIN files
        OBVIOUS
    <2>2. QED
        BY <1>4, <2>1
<1>7. ASSUME NEW k \in 0 .. (n - 1)
      PROVE  iter[1 .. (k + 1)] = Load!Define(iter[1 .. k], files[k + 1])
    <2>1. /\ 1 .. (k + 1) \in SUBSET (1 .. n) /\ 1 .. (k + 1) # {}
          /\ Greatest(1 .. (k + 1)) = k + 1
          /\ (1 .. (k + 1)) \ {k + 1} = 1 .. k
        BY <1>1, FoldPrefix
    <2>2. QED
        BY <1>1, <1>4, <2>1
<1>8. Defines(files, g)
    <2>1. 0 \in 0 .. n /\ n \in 0 .. n
        BY <1>1
    <2>2. ASSUME NEW k \in 0 .. (n - 1)
          PROVE  g[k + 1] = Load!Define(g[k], files[k + 1])
        <3>1. k \in 0 .. n /\ k + 1 \in 0 .. n
            BY <1>1
        <3>2. QED
            BY <1>7, <3>1
    <2>3. QED
        BY <1>5, <1>6, <2>1, <2>2 DEF Defines
<1> HIDE DEF g
<1>9. QED
    BY <1>8

Declared(files, k) == UNION {Load!Range(files[i]) : i \in 1 .. k}

(* Of files that parse and declare no address twice, the symbol table has   *)
(* every block at its address, and nothing else.                            *)
IsTable(mod, blocks) ==
    /\ DOMAIN mod = {Load!Addr(b) : b \in blocks}
    /\ \A b \in blocks : mod[Load!Addr(b)] = b

(* A file of new addresses adds its blocks to the table.                    *)
LEMMA DefineAdds ==
    ASSUME NEW x, NEW blocks, IsTable(x, blocks), NEW file, Load!Parses(file),
           \A b \in blocks, c \in Load!Range(file) : Load!Addr(b) # Load!Addr(c)
    PROVE  IsTable(Load!Define(x, file), blocks \cup Load!Range(file))
<1> DEFINE new(a) == CHOOSE c \in Load!Range(file) : Load!Addr(c) = a
           z == [a \in (DOMAIN x) \cup {Load!Addr(b) : b \in Load!Range(file)} |->
                   IF a \in DOMAIN x THEN x[a] ELSE new(a)]
<1>1. Load!Define(x, file) = z
    BY DEF Load!Define
<1>2. ASSUME NEW c \in Load!Range(file)
      PROVE  new(Load!Addr(c)) = c
    <2> DEFINE d == new(Load!Addr(c))
    <2>1. d \in Load!Range(file) /\ Load!Addr(d) = Load!Addr(c)
        OBVIOUS
    <2> HIDE DEF d
    <2>2. QED
        BY <2>1 DEF Load!Parses, Load!Range, d
<1> HIDE DEF new
<1>3. DOMAIN z = {Load!Addr(b) : b \in blocks \cup Load!Range(file)}
    BY DEF IsTable
<1>4. ASSUME NEW b \in blocks
      PROVE  z[Load!Addr(b)] = b
    <2>1. Load!Addr(b) \in DOMAIN x /\ x[Load!Addr(b)] = b
        BY DEF IsTable
    <2>2. QED
        BY <2>1
<1>5. ASSUME NEW c \in Load!Range(file)
      PROVE  z[Load!Addr(c)] = c
    <2>1. Load!Addr(c) \notin DOMAIN x
        BY DEF IsTable
    <2>2. QED
        BY <2>1, <1>2
<1> HIDE DEF z
<1>6. QED
    BY <1>1, <1>3, <1>4, <1>5 DEF IsTable

(* The table of files that declare nothing twice has all their blocks.      *)
LEMMA SymbolsAre ==
    ASSUME NEW F, NEW files \in Seq(F),
           \A i \in DOMAIN files : Load!Parses(files[i]), ~ Load!DeclaredTwice(files)
    PROVE  IsTable(Load!Symbols(files), UNION {Load!Range(files[i]) : i \in DOMAIN files})
<1> DEFINE n == Len(files)
<1>1. n \in Nat /\ DOMAIN files = 1 .. n
    OBVIOUS
<1>2. PICK g : Defines(files, g)
    BY SymbolsUnfold
<1> DEFINE T == {k \in Nat : k <= n => IsTable(g[k], Declared(files, k))}
<1> HIDE DEF n
<1>3. 0 \in T
    <2>1. 1 .. 0 = {}
        OBVIOUS
    <2>2. Declared(files, 0) = {}
        BY <2>1 DEF Declared
    <2>3. g[0] = <<>> /\ DOMAIN <<>> = {}
        BY <1>2 DEF Defines
    <2>4. QED
        BY <2>2, <2>3 DEF IsTable
<1>4. ASSUME NEW k \in T
      PROVE  k + 1 \in T
    <2>1. SUFFICES ASSUME k + 1 <= n
                   PROVE  IsTable(g[k + 1], Declared(files, k + 1))
        OBVIOUS
    <2>2. k \in 0 .. (n - 1) /\ k <= n /\ k + 1 \in 1 .. n
        BY <1>1, <2>1
    <2>3. g[k + 1] = Load!Define(g[k], files[k + 1])
        BY <1>2, <2>2 DEF Defines, n
    <2>4. IsTable(g[k], Declared(files, k))
        BY <2>2
    <2>5. Declared(files, k + 1) = Declared(files, k) \cup Load!Range(files[k + 1])
        <3>1. 1 .. (k + 1) = (1 .. k) \cup {k + 1}
            BY <2>2
        <3>2. QED
            BY <3>1 DEF Declared
    <2>6. \A b \in Declared(files, k), c \in Load!Range(files[k + 1]) : Load!Addr(b) # Load!Addr(c)
        <3> SUFFICES ASSUME NEW b \in Declared(files, k), NEW c \in Load!Range(files[k + 1]),
                            Load!Addr(b) = Load!Addr(c)
                     PROVE  FALSE
            OBVIOUS
        <3>1. PICK i \in 1 .. k : b \in Load!Range(files[i])
            BY DEF Declared
        <3>2. i \in DOMAIN files /\ k + 1 \in DOMAIN files /\ i # k + 1
            BY <1>1, <2>2, <3>1
        <3>3. {Load!Addr(u) : u \in Load!Range(files[i])}
                \cap {Load!Addr(u) : u \in Load!Range(files[k + 1])} # {}
            BY <3>1
        <3>4. Load!DeclaredTwice(files)
            BY <3>2, <3>3 DEF Load!DeclaredTwice
        <3>5. QED
            BY <3>4
    <2>7. Load!Parses(files[k + 1])
        BY <1>1, <2>2
    <2> HIDE DEF T
    <2>8. QED
        BY <2>3, <2>4, <2>5, <2>6, <2>7, DefineAdds
<1>5. T = Nat
    <2> HIDE DEF T
    <2> QED
        BY <1>3, <1>4, Induction DEF T
<1>6. IsTable(g[n], Declared(files, n))
    BY <1>1, <1>5
<1>7. QED
    BY <1>1, <1>2, <1>6 DEF Defines, Declared, n

(* What the types of the parser say of a block: lists are lists.            *)
Auths(X) == [scheme : X, targets : SUBSET X]

BlockTyped(X, b) ==
    /\ b.kind = "agent" =>
        b.tools \in Seq(X) /\ b.gated \in Seq(X) /\ b.outputs \in Seq(X)
    /\ b.kind = "mcp_server" => b.auth \in Seq(Auths(X)) /\ "auth" \in DOMAIN b

AllDeclared(files) == UNION {Load!Range(files[i]) : i \in DOMAIN files}

(* A table resolves, and has only blocks that parse.                        *)
Usable(mod) ==
    /\ IsTable(mod, Load!Range(mod))
    /\ \A b \in Load!Range(mod) : Load!Decodes(b)
    /\ Load!Resolves(mod)

(* What a table has is what it was made of.                                 *)
LEMMA TableRange ==
    ASSUME NEW mod, NEW blocks, IsTable(mod, blocks)
    PROVE  Load!Range(mod) = blocks
BY DEF IsTable, Load!Range

(* What loads is usable, and is all that was declared.                      *)
LEMMA LoadedUsable ==
    ASSUME NEW F, NEW files \in Seq(F), Load!Loads(files)
    PROVE  LET mod == Load!Symbols(files)
           IN  Usable(mod) /\ Load!Range(mod) = AllDeclared(files)
<1> DEFINE mod == Load!Symbols(files)
<1>1. /\ \A i \in DOMAIN files : Load!Parses(files[i])
      /\ ~ Load!DeclaredTwice(files) /\ Load!Resolves(mod)
    BY DEF Load!Loads
<1>2. IsTable(mod, AllDeclared(files))
    BY <1>1, SymbolsAre DEF AllDeclared
<1>3. Load!Range(mod) = AllDeclared(files)
    BY <1>2, TableRange
<1>4. \A b \in AllDeclared(files) : Load!Decodes(b)
    BY <1>1 DEF AllDeclared, Load!Parses, Load!Range
<1> HIDE DEF mod
<1>5. QED
    BY <1>1, <1>2, <1>3, <1>4 DEF Usable, mod

(* What has an address is the block with that kind and name.                *)
LEMMA HasBlock ==
    ASSUME NEW mod, Usable(mod), NEW kind, NEW name, Load!Has(mod, kind, name)
    PROVE  LET b == mod[<<kind, name>>]
           IN  b \in Load!Blocks(mod, kind) /\ b.kind = kind /\ b.name = name
<1>1. PICK b \in Load!Range(mod) : <<kind, name>> = Load!Addr(b)
    BY DEF Load!Has, Usable, IsTable
<1>2. mod[<<kind, name>>] = b
    BY <1>1 DEF Usable, IsTable
<1>3. b.kind = kind /\ b.name = name
    BY <1>1 DEF Load!Addr
<1>4. QED
    BY <1>2, <1>3 DEF Load!Blocks

(* An agent of a usable module decodes and resolves.                        *)
LEMMA AgentIs ==
    ASSUME NEW mod, Usable(mod), NEW a \in Load!Blocks(mod, "agent")
    PROVE  Load!DecodesAgent(a) /\ Load!ResolvesAgent(mod, a)
<1>1. a \in Load!Range(mod) /\ a.kind = "agent"
    BY DEF Load!Blocks
<1>2. Load!Decodes(a)
    BY <1>1 DEF Usable
<1>3. QED
    BY <1>1, <1>2 DEF Usable, Load!Decodes, Load!Resolves

(* A server of a usable module decodes.                                     *)
LEMMA ServerIs ==
    ASSUME NEW mod, Usable(mod), NEW s \in Load!Blocks(mod, "mcp_server")
    PROVE  Load!DecodesMCPServer(s)
<1>1. s \in Load!Range(mod) /\ s.kind = "mcp_server"
    BY DEF Load!Blocks
<1>2. Load!Decodes(s)
    BY <1>1 DEF Usable
<1>3. QED
    BY <1>1, <1>2 DEF Load!Decodes

(* The server of an MCP tool is declared, and counts as referenced.         *)
LEMMA ToolServer ==
    ASSUME NEW mod, Usable(mod), NEW name, Load!Has(mod, "tool", name),
           mod[<<"tool", name>>].source.kind = "mcp"
    PROVE  LET t == mod[<<"tool", name>>]
           IN  /\ t \in Load!Blocks(mod, "tool")
               /\ t.source.uri.server \in Load!ReferencedServers(mod)
               /\ Load!Has(mod, "mcp_server", t.source.uri.server)
<1> DEFINE t == mod[<<"tool", name>>]
<1>1. t \in Load!Blocks(mod, "tool")
    BY HasBlock
<1>2. Load!ResolvesToolSource(mod, t)
    BY <1>1 DEF Usable, Load!Resolves
<1>3. t.source.uri.server \in Load!ReferencedServers(mod)
    BY <1>1 DEF Load!ReferencedServers
<1>4. QED
    BY <1>1, <1>2, <1>3 DEF Load!ResolvesToolSource

(* Every lookup of an agent that loads succeeds, and its edges end in nodes. *)
LEMMA AgentRenders ==
    ASSUME NEW mod, Usable(mod), NEW a \in Load!Blocks(mod, "agent")
    PROVE  Load!LookupsSucceed(mod, a) /\ Load!GraphDependencies(a) \subseteq Load!Nodes(mod)
<1>1. Load!DecodesAgent(a) /\ Load!ResolvesAgent(mod, a)
    BY AgentIs
<1>2. Load!LookupBlocks(a) \subseteq DOMAIN mod
    BY <1>1 DEF Load!ResolvesAgent, Load!Has, Load!LookupBlocks
<1>3. ASSUME NEW t \in Load!Range(a.tools)
      PROVE  Load!MCPServerFor(mod, mod[<<"tool", t>>]) \subseteq DOMAIN mod
    <2>1. Load!Has(mod, "tool", t)
        BY <1>1 DEF Load!ResolvesAgent
    <2>2. CASE mod[<<"tool", t>>].source.kind = "mcp"
        BY <2>1, <2>2, ToolServer DEF Load!Has, Load!MCPServerFor
    <2>3. CASE mod[<<"tool", t>>].source.kind # "mcp"
        BY <2>3 DEF Load!MCPServerFor
    <2>4. QED
        BY <2>2, <2>3
<1>4. Load!LookupsSucceed(mod, a)
    BY <1>2, <1>3 DEF Load!LookupsSucceed
<1>5. Load!LookupBlocks(a) \subseteq Load!Nodes(mod)
    BY <1>2 DEF Load!LookupBlocks, Load!Nodes
<1>6. ASSUME NEW t \in Load!Range(a.gated)
      PROVE  <<"tool", t>> \in Load!Nodes(mod)
    <2>1. t \in Load!Range(a.tools)
        BY <1>1 DEF Load!DecodesAgent
    <2>2. Load!Has(mod, "tool", t)
        BY <1>1, <2>1 DEF Load!ResolvesAgent
    <2>3. QED
        BY <2>2 DEF Load!Has, Load!Nodes
<1>7. ASSUME NEW d \in Load!Range(a.after)
      PROVE  <<"agent", d>> \in Load!Nodes(mod)
    <2>1. Load!Has(mod, "agent", d)
        BY <1>1 DEF Load!ResolvesAgent
    <2>2. QED
        BY <2>1 DEF Load!Has, Load!Nodes
<1>8. Load!OwnerEdges(a) \subseteq Load!Nodes(mod)
    <2> SUFFICES ASSUME NEW i \in DOMAIN a.inputs, a.inputs[i].ref # None
                 PROVE  <<"agent", a.inputs[i].ref.agent>> \in Load!Nodes(mod)
        BY DEF Load!OwnerEdges
    <2>1. Load!ResolvesInput(mod, a.inputs[i])
        BY <1>1 DEF Load!ResolvesAgent
    <2>2. Load!Has(mod, "agent", a.inputs[i].ref.agent)
        BY <2>1 DEF Load!ResolvesInput
    <2>3. QED
        BY <2>2 DEF Load!Has, Load!Nodes
<1>9. QED
    BY <1>4, <1>5, <1>6, <1>7, <1>8 DEF Load!GraphDependencies

(* One binding for a target, and one default.                               *)
Unambiguous(auth) ==
    /\ \A i, j \in DOMAIN auth : auth[i].targets = {} /\ auth[j].targets = {} => i = j
    /\ \A i, j \in DOMAIN auth : i # j => auth[i].targets \cap auth[j].targets = {}

(* Auth blocks that decode bind a target once and have one default.         *)
LEMMA DecodedUnambiguous ==
    ASSUME NEW X, NEW auth \in Seq(X), Load!DecodesAuth(auth)
    PROVE  Unambiguous(auth)
<1> DEFINE T == {i \in DOMAIN auth : auth[i].targets = {}}
<1>1. IsFiniteSet(T) /\ Load!Cardinality(T) = Cardinality(T)
    <2>1. DOMAIN auth = 1 .. Len(auth) /\ Len(auth) \in Nat
        OBVIOUS
    <2>2. IsFiniteSet(1 .. Len(auth))
        BY <2>1, FS_Interval
    <2>3. IsFiniteSet(T)
        BY <2>1, <2>2, FS_Subset
    <2>4. QED
        BY <2>3 DEF Load!Cardinality, Cardinality
<1>2. Cardinality(T) <= 1
    BY <1>1 DEF Load!DecodesAuth
<1>3. ASSUME NEW i \in T, NEW j \in T, i # j
      PROVE  FALSE
    <2> HIDE DEF T
    <2>1. {i, j} \subseteq T /\ IsFiniteSet({i, j}) /\ Cardinality({i, j}) = 2
        <3>1. IsFiniteSet({i}) /\ Cardinality({i}) = 1
            BY FS_Singleton
        <3>2. j \notin {i} /\ {i, j} = {i} \cup {j}
            BY <1>3
        <3>3. IsFiniteSet({i} \cup {j}) /\ Cardinality({i} \cup {j}) = Cardinality({i}) + 1
            BY <3>1, <3>2, FS_AddElement, Zenon
        <3>4. Cardinality({i} \cup {j}) = 2
            <4>1. 1 + 1 = 2
                OBVIOUS
            <4>2. QED
                BY <3>1, <3>3, <4>1, Zenon
        <3>5. QED
            BY <3>2, <3>3, <3>4, Zenon
    <2>2. Cardinality({i, j}) <= Cardinality(T) /\ Cardinality(T) \in Nat
        BY <1>1, <2>1, FS_Subset, FS_CardinalityType
    <2>3. QED
        BY <1>2, <2>1, <2>2
<1>4. QED
    BY <1>3 DEF Load!DecodesAuth, Unambiguous

(* The credential of a target is in the binding that names it, in the       *)
(* default when there is none, wherever they stand.                         *)
LEMMA AuthForIs ==
    ASSUME NEW s, NEW X, s.auth \in Seq(X), Unambiguous(s.auth), NEW t
    PROVE  /\ \A i \in DOMAIN s.auth :
                 t \in s.auth[i].targets => Load!AuthFor(s, t) = s.auth[i].scheme
           /\ \A i \in DOMAIN s.auth :
                 /\ s.auth[i].targets = {}
                 /\ \A j \in DOMAIN s.auth : t \notin s.auth[j].targets
                 => Load!AuthFor(s, t) = s.auth[i].scheme
           /\ (\A i \in DOMAIN s.auth : t \notin s.auth[i].targets /\ s.auth[i].targets # {})
                 => Load!AuthFor(s, t) = None
<1> DEFINE named == {i \in DOMAIN s.auth : t \in s.auth[i].targets}
           default == {i \in DOMAIN s.auth : s.auth[i].targets = {}}
<1>1. Load!AuthFor(s, t) =
         IF named # {} THEN s.auth[Load!Min(named)].scheme
         ELSE IF default # {} THEN s.auth[Load!Max(default)].scheme ELSE None
    BY DEF Load!AuthFor
<1>2. ASSUME NEW i \in named
      PROVE  Load!Min(named) = i
    <2>1. named = {i}
        BY DEF Unambiguous
    <2>2. \A y \in {i} : i =< y
        OBVIOUS
    <2> HIDE DEF named
    <2>3. QED
        BY <2>1, <2>2 DEF Load!Min
<1>3. ASSUME NEW i \in default
      PROVE  Load!Max(default) = i
    <2>1. default = {i}
        BY DEF Unambiguous
    <2>2. \A y \in {i} : i >= y
        OBVIOUS
    <2> HIDE DEF default
    <2>3. QED
        BY <2>1, <2>2 DEF Load!Max
<1>4. ASSUME NEW i \in DOMAIN s.auth, t \in s.auth[i].targets
      PROVE  Load!AuthFor(s, t) = s.auth[i].scheme
    <2>1. i \in named
        BY <1>4
    <2> HIDE DEF named, default
    <2>2. QED
        BY <2>1, <1>1, <1>2
<1>5. ASSUME NEW i \in DOMAIN s.auth, s.auth[i].targets = {},
             \A j \in DOMAIN s.auth : t \notin s.auth[j].targets
      PROVE  Load!AuthFor(s, t) = s.auth[i].scheme
    <2>1. i \in default /\ named = {}
        BY <1>5
    <2> HIDE DEF named, default
    <2>2. QED
        BY <2>1, <1>1, <1>3
<1>6. ASSUME \A i \in DOMAIN s.auth : t \notin s.auth[i].targets /\ s.auth[i].targets # {}
      PROVE  Load!AuthFor(s, t) = None
    <2>1. named = {} /\ default = {}
        BY <1>6
    <2> HIDE DEF named, default
    <2>2. QED
        BY <2>1, <1>1
<1>7. QED
    BY <1>4, <1>5, <1>6

(* The elements of a sequence from the last one to the first.               *)
LEMMA ReversedIs ==
    ASSUME NEW X, NEW q \in Seq(X)
    PROVE  /\ Reverse(q) \in Seq(X) /\ DOMAIN Reverse(q) = DOMAIN q
           /\ \A i \in DOMAIN q : /\ Len(q) - i + 1 \in DOMAIN q
                                  /\ Reverse(q)[i] = q[Len(q) - i + 1]
                                  /\ Reverse(q)[Len(q) - i + 1] = q[i]
<1>1. Len(q) \in Nat /\ DOMAIN q = 1 .. Len(q) /\ \A i \in 1 .. Len(q) : q[i] \in X
    OBVIOUS
<1>2. \A i \in 1 .. Len(q) : /\ Len(q) - i + 1 \in 1 .. Len(q)
                             /\ Len(q) - (Len(q) - i + 1) + 1 = i
    BY <1>1
<1>3. Reverse(q) = [i \in 1 .. Len(q) |-> q[Len(q) - i + 1]]
    BY DEF Reverse
<1>4. Reverse(q) \in [1 .. Len(q) -> X]
    BY <1>1, <1>2, <1>3
<1>5. QED
    BY <1>1, <1>2, <1>3, <1>4

(* Unambiguous auth blocks mean the same in the reversed order.             *)
LEMMA AuthInAnyOrder ==
    ASSUME NEW X, NEW s, s.auth \in Seq(Auths(X)), "auth" \in DOMAIN s, Unambiguous(s.auth), NEW t
    PROVE  Load!AuthFor(s, t) = Load!AuthFor([s EXCEPT !.auth = Reverse(@)], t)
<1> DEFINE q == s.auth
           r == [s EXCEPT !.auth = Reverse(@)]
           o(i) == Len(q) - i + 1
<1>1. r.auth = Reverse(q)
    OBVIOUS
<1>2. /\ Reverse(q) \in Seq(Auths(X)) /\ DOMAIN Reverse(q) = DOMAIN q
      /\ \A i \in DOMAIN q : o(i) \in DOMAIN q /\ Reverse(q)[i] = q[o(i)] /\ Reverse(q)[o(i)] = q[i]
    BY ReversedIs
<1>3. \A i \in DOMAIN q : o(i) \in DOMAIN q /\ o(o(i)) = i
    OBVIOUS
<1> HIDE DEF r, q, o
<1>4. Unambiguous(r.auth)
    <2>1. ASSUME NEW i \in DOMAIN q, NEW j \in DOMAIN q
          PROVE  /\ r.auth[i].targets = {} /\ r.auth[j].targets = {} => i = j
                 /\ i # j => r.auth[i].targets \cap r.auth[j].targets = {}
        <3>1. o(i) = o(j) => i = j
            BY <1>3
        <3>2. /\ q[o(i)].targets = {} /\ q[o(j)].targets = {} => o(i) = o(j)
              /\ o(i) # o(j) => q[o(i)].targets \cap q[o(j)].targets = {}
            BY <1>3 DEF Unambiguous, q
        <3>3. r.auth[i] = q[o(i)] /\ r.auth[j] = q[o(j)]
            BY <1>1, <1>2
        <3>4. QED
            BY <3>1, <3>2, <3>3
    <2>2. DOMAIN r.auth = DOMAIN q
        BY <1>1, <1>2
    <2>3. QED
        BY <2>1, <2>2 DEF Unambiguous
<1>5. r.auth \in Seq(Auths(X)) /\ DOMAIN r.auth = DOMAIN q
    BY <1>1, <1>2
<1>6. CASE \E i \in DOMAIN q : t \in q[i].targets
    <2> PICK i \in DOMAIN q : t \in q[i].targets
        BY <1>6
    <2>1. Load!AuthFor(s, t) = q[i].scheme
        BY AuthForIs DEF q
    <2>2. o(i) \in DOMAIN r.auth /\ r.auth[o(i)] = q[i]
        BY <1>1, <1>2
    <2>3. Load!AuthFor(r, t) = q[i].scheme
        BY <1>4, <1>5, <2>2, AuthForIs
    <2>4. QED
        BY <2>1, <2>3 DEF r
<1>7. CASE (\A i \in DOMAIN q : t \notin q[i].targets) /\ \E i \in DOMAIN q : q[i].targets = {}
    <2> PICK i \in DOMAIN q : q[i].targets = {}
        BY <1>7
    <2>1. Load!AuthFor(s, t) = q[i].scheme
        BY <1>7, AuthForIs DEF q
    <2>2. o(i) \in DOMAIN r.auth /\ r.auth[o(i)] = q[i]
        BY <1>1, <1>2
    <2>3. \A j \in DOMAIN r.auth : t \notin r.auth[j].targets
        BY <1>1, <1>2, <1>7
    <2>4. Load!AuthFor(r, t) = q[i].scheme
        BY <1>4, <1>5, <2>2, <2>3, AuthForIs
    <2>5. QED
        BY <2>1, <2>4 DEF r
<1>8. CASE \A i \in DOMAIN q : t \notin q[i].targets /\ q[i].targets # {}
    <2>1. Load!AuthFor(s, t) = None
        BY <1>8, AuthForIs DEF q
    <2>2. \A j \in DOMAIN r.auth : t \notin r.auth[j].targets /\ r.auth[j].targets # {}
        BY <1>1, <1>2, <1>8
    <2>3. Load!AuthFor(r, t) = None
        BY <1>4, <1>5, <2>2, AuthForIs
    <2>4. QED
        BY <2>1, <2>3 DEF r
<1>9. QED
    BY <1>6, <1>7, <1>8

(* A closure of a target that validated can be dialed and authenticated.    *)
LEMMA ClosurePlans ==
    ASSUME NEW mod, Usable(mod), NEW a \in Load!Blocks(mod, "agent"),
           NEW t \in Load!Blocks(mod, "target"),
           t.name = "claude_agents", t.plugin = None, Load!ValidatesTarget(mod, t)
    PROVE  LET c == Load!DesiredConfig(mod, a, t.name) IN
           /\ \A s \in Range(c.servers) :
                 s.url # None /\ s.auth \in {None, "connection"} /\ (s.auth # None => t.vault)
           /\ \A i \in DOMAIN c.tools :
                 c.tools[i].kind = "mcp" =>
                    /\ c.tools[i].server \in DOMAIN c.servers
                    /\ c.servers[c.tools[i].server].transport = "http"
<1> DEFINE c == Load!DesiredConfig(mod, a, t.name)
           tools == [i \in DOMAIN a.tools |-> Load!ToolConfig(mod[<<"tool", a.tools[i]>>])]
           servers == {u.server : u \in {w \in Load!Range(tools) : w.kind = "mcp"}}
           config(n) == Load!MCPServerConfig(mod[<<"mcp_server", n>>], t.name)
           S == [n \in servers |-> config(n)]
<1>1. c.tools = tools /\ c.servers = S
    BY DEF Load!DesiredConfig
<1>2. ASSUME NEW n \in servers
      PROVE  /\ config(n).transport = "http" /\ config(n).url # None
             /\ config(n).auth \in {None, "connection"} /\ (config(n).auth # None => t.vault)
    <2>1. PICK i \in DOMAIN a.tools : tools[i].kind = "mcp" /\ n = tools[i].server
        BY DEF Load!Range
    <2> DEFINE b == mod[<<"tool", a.tools[i]>>]
               s == mod[<<"mcp_server", n>>]
    <2>2. tools[i] = Load!ToolConfig(b)
        OBVIOUS
    <2>3. b.source.kind = "mcp" /\ n = b.source.uri.server
        BY <2>1, <2>2 DEF Load!ToolConfig
    <2>4. Load!Has(mod, "tool", a.tools[i])
        BY AgentIs DEF Load!ResolvesAgent, Load!Range
    <2> HIDE DEF tools
    <2>5. Load!Has(mod, "mcp_server", n) /\ n \in Load!ReferencedServers(mod)
        BY <2>3, <2>4, ToolServer
    <2>6. s \in Load!Blocks(mod, "mcp_server") /\ s.name = n
        BY <2>5, HasBlock
    <2>7. Load!DecodesMCPServer(s)
        BY <2>6, ServerIs
    <2>8. /\ t.name \in DOMAIN Load!BuiltinCapabilities
          /\ Load!BuiltinCapabilities[t.name] = Load!Capabilities(FALSE, {"connection"}, TRUE)
        BY DEF Load!BuiltinCapabilities
    <2> HIDE DEF s
    <2>9. Load!BindsServer(Load!Capabilities(FALSE, {"connection"}, TRUE), t, s)
        BY <2>5, <2>6, <2>8 DEF Load!ValidatesTarget
    <2>10. /\ s.transport # "stdio"
           /\ \/ Load!AuthFor(s, t.name) = None
              \/ Load!AuthFor(s, t.name) = "connection" /\ t.vault
        BY <2>9 DEF Load!BindsServer, Load!Capabilities
    <2>11. s.transport = "http" /\ s.url # None
        BY <2>7, <2>10 DEF Load!DecodesMCPServer
    <2>12. /\ config(n).transport = s.transport /\ config(n).url = s.url
           /\ config(n).auth = Load!AuthFor(s, t.name)
        BY DEF Load!MCPServerConfig, s
    <2>13. QED
        BY <2>10, <2>11, <2>12
<1>3. ASSUME NEW i \in DOMAIN tools, tools[i].kind = "mcp"
      PROVE  tools[i].server \in servers
    BY <1>3 DEF Load!Range
<1> HIDE DEF tools, servers, config, c
<1>4. /\ DOMAIN S = servers /\ \A n \in servers : S[n] = config(n)
      /\ Range(S) = {config(n) : n \in servers}
    BY DEF Range
<1> HIDE DEF S
<1>5. \A s \in Range(c.servers) :
         s.url # None /\ s.auth \in {None, "connection"} /\ (s.auth # None => t.vault)
    BY <1>1, <1>2, <1>4
<1>6. \A i \in DOMAIN c.tools :
         c.tools[i].kind = "mcp" =>
            /\ c.tools[i].server \in DOMAIN c.servers
            /\ c.servers[c.tools[i].server].transport = "http"
    BY <1>1, <1>2, <1>3, <1>4
<1>7. QED
    BY <1>5, <1>6 DEF c

(* Whatever the files of a module are: if it loads, it renders, orders and  *)
(* has its credentials, and what is validated for a Claude target can be    *)
(* planned (module.Load, internal/parser, validateModuleTargets).           *)
THEOREM AnyLoadedModuleServes ==
    ASSUME NEW X, NEW B, \A b \in B : BlockTyped(X, b),
           case.kind = "module" => case.files \in Seq(Seq(B))
    PROVE  LoadedModuleServes
<1> DEFINE files == case.files
           mod == Load!Symbols(files)
<1> SUFFICES ASSUME case.kind = "module", Load!Loads(files)
             PROVE  LoadedModuleServes
    BY DEF LoadedModuleServes, LoadedModuleRenders, OneCredential, ValidatedModulePlans
<1>1. files \in Seq(Seq(B)) /\ \A i \in DOMAIN files : files[i] \in Seq(B)
    OBVIOUS
<1>2. Usable(mod) /\ Load!Range(mod) = AllDeclared(files)
    BY <1>1, LoadedUsable
<1>3. \A b \in Load!Range(mod) : b \in B /\ BlockTyped(X, b)
    <2> SUFFICES ASSUME NEW b \in AllDeclared(files)
                 PROVE  b \in B
        BY <1>2
    <2>1. PICK i \in DOMAIN files : b \in Load!Range(files[i])
        BY DEF AllDeclared
    <2>2. files[i] \in Seq(B)
        BY <1>1
    <2> HIDE DEF files
    <2>3. QED
        BY <2>1, <2>2 DEF Load!Range
<1> HIDE DEF mod
<1>4. LoadedModuleRenders
    <2>1. ASSUME NEW f \in Range(files), NEW b \in Range(f)
          PROVE  mod[Load!Addr(b)] = b
        <3>1. b \in AllDeclared(files)
            BY DEF AllDeclared, Load!Range, Range
        <3>2. QED
            BY <1>2, <3>1 DEF Usable, IsTable
    <2>2. ASSUME NEW a \in Load!Blocks(mod, "agent"), NEW i \in DOMAIN a.gated
          PROVE  Contains(a.tools, a.gated[i])
        <3>1. a.tools \in Seq(X)
            BY <1>3 DEF BlockTyped, Load!Blocks
        <3>2. a.gated[i] \in Load!Range(a.tools)
            BY <1>2, AgentIs DEF Load!DecodesAgent, Load!Range
        <3>3. PICK k \in DOMAIN a.tools : a.tools[k] = a.gated[i]
            BY <3>2 DEF Load!Range
        <3>4. k \in 1 .. Len(a.tools)
            BY <3>1
        <3>5. QED
            BY <3>3, <3>4 DEF Contains
    <2>3. ASSUME NEW a \in Load!Blocks(mod, "agent"), a.prompt # None,
                 NEW v \in mod[<<"prompt", a.prompt>>].vars
          PROVE  (\E i \in DOMAIN a.inputs : a.inputs[i].name = v) \/ Contains(a.outputs, v)
        <3>1. a.outputs \in Seq(X)
            BY <1>3 DEF BlockTyped, Load!Blocks
        <3>2. \/ v \in Load!Range(Load!Field(a.inputs, "name"))
              \/ v \in Load!Range(a.outputs)
            BY <1>2, <2>3, AgentIs DEF Load!ResolvesAgent, Load!ValidatePromptVars
        <3>3. CASE v \in Load!Range(Load!Field(a.inputs, "name"))
            BY <3>3 DEF Load!Range, Load!Field
        <3>4. CASE v \in Load!Range(a.outputs)
            <4>1. PICK k \in DOMAIN a.outputs : a.outputs[k] = v
                BY <3>4 DEF Load!Range
            <4>2. k \in 1 .. Len(a.outputs)
                BY <3>1, <4>1
            <4>3. QED
                BY <4>1, <4>2 DEF Contains
        <3>5. QED
            BY <3>2, <3>3, <3>4
    <2>4. QED
        BY <1>2, <2>1, <2>2, <2>3, AgentRenders DEF LoadedModuleRenders, mod, files
<1>5. OneCredential
    <2>1. ASSUME NEW s \in Load!Blocks(mod, "mcp_server"), NEW t \in Load!Blocks(mod, "target")
          PROVE  /\ Load!AuthFor(s, t.name) = Load!AuthFor([s EXCEPT !.auth = Reverse(@)], t.name)
                 /\ (s.auth # <<>> /\ s.name \in Load!ReferencedServers(mod)) =>
                       Load!AuthFor(s, t.name) # None
        <3>1. s.auth \in Seq(Auths(X)) /\ "auth" \in DOMAIN s
            BY <1>3 DEF BlockTyped, Load!Blocks
        <3>2. Unambiguous(s.auth)
            BY <1>2, <3>1, ServerIs, DecodedUnambiguous DEF Load!DecodesMCPServer
        <3>3. Load!AuthFor(s, t.name) = Load!AuthFor([s EXCEPT !.auth = Reverse(@)], t.name)
            BY <3>1, <3>2, AuthInAnyOrder
        <3>4. QED
            BY <1>2, <3>3 DEF Usable, Load!Resolves, Load!AuthCovered
    <2>2. QED
        BY <2>1 DEF OneCredential, mod, files
<1>6. ValidatedModulePlans
    <2>1. ASSUME NEW t \in Load!Blocks(mod, "target"), NEW a \in Load!Blocks(mod, "agent"),
                 t.name = "claude_agents", t.plugin = None, Load!ValidatesTarget(mod, t)
          PROVE  LET c == Load!DesiredConfig(mod, a, t.name) IN
                 /\ \A s \in Range(c.servers) :
                     s.url # None /\ s.auth \in {None, "connection"} /\ (s.auth # None => t.vault)
                 /\ Claude!Expressible(c) \/ ~ Claude!ModelExpressible(c.model)
                    \/ \E u \in Range(c.tools) :
                            u.kind # "mcp" /\ (u.kind # "builtin" \/ u.tool \notin Managed)
        <3> DEFINE c == Load!DesiredConfig(mod, a, t.name)
        <3>1. /\ \A s \in Range(c.servers) :
                    s.url # None /\ s.auth \in {None, "connection"} /\ (s.auth # None => t.vault)
              /\ \A i \in DOMAIN c.tools :
                    c.tools[i].kind = "mcp" =>
                       /\ c.tools[i].server \in DOMAIN c.servers
                       /\ c.servers[c.tools[i].server].transport = "http"
            BY <1>2, <2>1, ClosurePlans
        <3> HIDE DEF c
        <3>2. ASSUME Claude!ModelExpressible(c.model),
                     ~ \E u \in Range(c.tools) :
                          u.kind # "mcp" /\ (u.kind # "builtin" \/ u.tool \notin Managed)
              PROVE  Claude!Expressible(c)
            <4>1. \A i \in DOMAIN c.tools : Claude!ToolExpressible(c, c.tools[i])
                BY <3>1, <3>2 DEF Claude!ToolExpressible, Range
            <4>2. QED
                BY <3>2, <4>1 DEF Claude!Expressible
        <3>3. QED
            BY <3>1, <3>2 DEF c
    <2>2. QED
        BY <2>1 DEF ValidatedModulePlans, mod, files
<1>7. QED
    BY <1>4, <1>5, <1>6 DEF LoadedModuleServes

-----------------------------------------------------------------------------
(* Claude configurations.                                                   *)

Toolset(type, server, enabled, policy, configs) ==
    [type |-> type, server |-> server, enabled |-> enabled, policy |-> policy,
     configs |-> configs]

Config(name, enabled, policy) == [name |-> name, enabled |-> enabled, policy |-> policy]

(* Null is none of the values that the code writes out, and no object.      *)
NullIsNothing ==
    /\ None \notin {Claude!Allow, Claude!Ask, "standard", "fast"}
    /\ \A a, b, c, p, e : Toolset(a, b, c, p, e) # None
    /\ \A name, url : [name |-> name, url |-> url] # None
    /\ \A request, foreign : Claude!PlatformStore(request, foreign) # None

(* A closure that provider.DesiredConfig renders and the target expresses.  *)
IsClosure(d) ==
    /\ "name" \notin DOMAIN d
    /\ Claude!Expressible(d)
    /\ "speed" \in d.model.params => d.model.speed # None

(* The toolset of the spec for a server, with the permission of its tools.  *)
ToolPermission(d, t) == IF t.block \in d.gated THEN Claude!Ask ELSE Claude!Allow

SpecConfigs(d, g) ==
    [i \in DOMAIN Claude!Members(d.tools, g) |->
        Config(Claude!Members(d.tools, g)[i].tool, TRUE,
               ToolPermission(d, Claude!Members(d.tools, g)[i]))]

OpenConfigs(d, g) ==
    [i \in DOMAIN Claude!Members(d.tools, g) |->
        Config(Claude!Members(d.tools, g)[i].tool, TRUE, None)]

ToolsetType(g) == IF g = None THEN "agent" ELSE "mcp"
ToolsetPolicy(g, mcp) == IF g = None THEN Claude!Allow ELSE mcp

SpecToolset(d, g) ==
    Toolset(ToolsetType(g), g, FALSE, ToolsetPolicy(g, Claude!Ask), SpecConfigs(d, g))

(* An update of one field is the record with another value.                 *)
WithPolicy(t, x) == [t EXCEPT !.policy = x]
WithConfigs(t, x) == [t EXCEPT !.configs = x]

IsToolset(t) == t = Toolset(t.type, t.server, t.enabled, t.policy, t.configs)
IsConfig(c) == c = Config(c.name, c.enabled, c.policy)

(* A toolset with another permission, or with other configurations, is      *)
(* otherwise the toolset it was.                                            *)
LEMMA UpdatedToolset ==
    ASSUME NEW t, NEW x, IsToolset(t)
    PROVE  /\ WithPolicy(t, x) = Toolset(t.type, t.server, t.enabled, x, t.configs)
           /\ WithConfigs(t, x) = Toolset(t.type, t.server, t.enabled, t.policy, x)
BY DEF Toolset, WithPolicy, WithConfigs, IsToolset

(* A tool's configuration with another permission is otherwise the one it   *)
(* was.                                                                     *)
LEMMA UpdatedConfig ==
    ASSUME NEW c, NEW x, IsConfig(c)
    PROVE  WithPolicy(c, x) = Config(c.name, c.enabled, x)
BY DEF Config, WithPolicy, IsConfig

(* The toolsets of the spec, default permissions resolved.                  *)
LEMMA SpecToolsAre ==
    ASSUME NEW d
    PROVE  Claude!SpecTools(d) =
              [i \in DOMAIN Claude!Groups(d.tools) |-> SpecToolset(d, Claude!Groups(d.tools)[i])]
<1> DEFINE gs == Claude!Groups(d.tools)
           ts == [i \in DOMAIN gs |-> Claude!NewToolset(d, gs[i])]
           Resolved(t) == IF t.type = "mcp" THEN [t EXCEPT !.policy = Claude!Ask] ELSE t
<1> HIDE DEF gs
<1>1. ASSUME NEW g
      PROVE  Resolved(Claude!NewToolset(d, g)) = SpecToolset(d, g)
    <2> DEFINE t == Claude!NewToolset(d, g)
    <2>1. t = Toolset(ToolsetType(g), g, FALSE, ToolsetPolicy(g, None), SpecConfigs(d, g))
        BY DEF Claude!NewToolset, Claude!EnabledTool, Toolset, ToolsetType, ToolsetPolicy,
           SpecConfigs, Config, ToolPermission
    <2> HIDE DEF t
    <2>3. /\ t.type = ToolsetType(g) /\ t.server = g /\ t.enabled = FALSE
          /\ t.configs = SpecConfigs(d, g)
          /\ IsToolset(t)
        BY <2>1 DEF Toolset, IsToolset
    <2>2. WithPolicy(t, Claude!Ask)
             = Toolset(ToolsetType(g), g, FALSE, Claude!Ask, SpecConfigs(d, g))
        BY <2>3, UpdatedToolset
    <2>4. CASE g = None
        <3>1. Resolved(t) = t
            BY <2>3, <2>4 DEF ToolsetType
        <3>2. ToolsetPolicy(g, None) = ToolsetPolicy(g, Claude!Ask)
            BY <2>4 DEF ToolsetPolicy
        <3> HIDE DEF Resolved
        <3>3. QED
            BY <2>1, <3>1, <3>2 DEF SpecToolset, t
    <2>5. CASE g # None
        <3>1. Resolved(t) = WithPolicy(t, Claude!Ask)
            BY <2>3, <2>5 DEF ToolsetType, WithPolicy
        <3>2. ToolsetPolicy(g, Claude!Ask) = Claude!Ask
            BY <2>5 DEF ToolsetPolicy
        <3> HIDE DEF Resolved
        <3>3. QED
            BY <2>2, <3>1, <3>2 DEF SpecToolset, t
    <2>6. QED
        BY <2>4, <2>5
<1>2. Claude!SpecTools(d) = Claude!ToolsetDefaults(ts)
    BY DEF Claude!SpecTools, gs
<1>3. DOMAIN ts = DOMAIN gs /\ \A i \in DOMAIN gs : ts[i] = Claude!NewToolset(d, gs[i])
    OBVIOUS
<1> HIDE DEF ts
<1>4. Claude!ToolsetDefaults(ts) = [i \in DOMAIN ts |-> Resolved(ts[i])]
    BY DEF Claude!ToolsetDefaults
<1> HIDE DEF Resolved
<1>5. \A i \in DOMAIN gs : Resolved(ts[i]) = SpecToolset(d, gs[i])
    BY <1>1, <1>3
<1>6. Claude!ToolsetDefaults(ts) = [i \in DOMAIN gs |-> SpecToolset(d, gs[i])]
    BY <1>3, <1>4, <1>5
<1>7. QED
    BY <1>2, <1>6 DEF gs

(* Reading back changes a permission only where there is none: a toolset of *)
(* the spec reads as it is, and so does one whose permissions were not      *)
(* written when all tools are granted.                                      *)
LEMMA EchoOfSpec ==
    ASSUME NEW d, NEW g, NullIsNothing
    PROVE  /\ Claude!EchoToolset(SpecToolset(d, g)) = SpecToolset(d, g)
           /\ d.gated = {} =>
                 Claude!EchoToolset(Toolset(ToolsetType(g), g, FALSE, ToolsetPolicy(g, Claude!Ask),
                                            OpenConfigs(d, g)))
                    = SpecToolset(d, g)
<1> DEFINE ms == Claude!Members(d.tools, g)
           n(i) == ms[i].tool
           q(i) == ToolPermission(d, ms[i])
<1>1. ASSUME NEW i \in DOMAIN ms
      PROVE  /\ Claude!EchoConfig(Config(n(i), TRUE, q(i))) = Config(n(i), TRUE, q(i))
             /\ d.gated = {} =>
                   Claude!EchoConfig(Config(n(i), TRUE, None)) = Config(n(i), TRUE, q(i))
    <2>1. q(i) # None /\ (d.gated = {} => q(i) = Claude!Allow)
        BY DEF ToolPermission, NullIsNothing
    <2>2. \A p : Claude!EchoConfig(Config(n(i), TRUE, p))
                    = Config(n(i), TRUE, Claude!EchoToolPermission(p))
        <3> TAKE p
        <3> DEFINE c == Config(n(i), TRUE, p)
        <3>1. /\ c.policy = p /\ c.name = n(i) /\ c.enabled = TRUE
              /\ IsConfig(c)
            BY DEF Config, IsConfig
        <3> HIDE DEF n, c
        <3>2. Claude!EchoConfig(c) = WithPolicy(c, Claude!EchoToolPermission(p))
            BY <3>1 DEF Claude!EchoConfig, WithPolicy
        <3>3. Claude!EchoConfig(c) = Config(n(i), TRUE, Claude!EchoToolPermission(p))
            BY <3>1, <3>2, UpdatedConfig
        <3>4. QED
            BY <3>3 DEF c
    <2>3. QED
        BY <2>1, <2>2 DEF Claude!EchoToolPermission
<1>2. ASSUME NEW cs, NEW es, DOMAIN cs = DOMAIN ms, DOMAIN es = DOMAIN ms,
             es = [i \in DOMAIN ms |-> es[i]],
             \A i \in DOMAIN ms : Claude!EchoConfig(cs[i]) = es[i],
             NEW p
      PROVE  Claude!EchoToolset(Toolset(ToolsetType(g), g, FALSE, p, cs))
                = Toolset(ToolsetType(g), g, FALSE, p, es)
    <2> DEFINE t == Toolset(ToolsetType(g), g, FALSE, p, cs)
               fs == [j \in DOMAIN t.configs |-> Claude!EchoConfig(t.configs[j])]
    <2>1. /\ t.configs = cs /\ t.type = ToolsetType(g) /\ t.server = g /\ t.enabled = FALSE
          /\ t.policy = p /\ IsToolset(t)
        BY DEF Toolset, IsToolset
    <2>2. fs = es
        BY <1>2, <2>1
    <2>3. Claude!EchoToolset(t) = WithConfigs(t, fs)
        BY DEF Claude!EchoToolset, WithConfigs
    <2> HIDE DEF fs, t
    <2>4. Claude!EchoToolset(t) = Toolset(ToolsetType(g), g, FALSE, p, es)
        BY <2>1, <2>2, <2>3, UpdatedToolset
    <2>5. QED
        BY <2>4 DEF t
<1>3. /\ DOMAIN SpecConfigs(d, g) = DOMAIN ms
      /\ SpecConfigs(d, g) = [i \in DOMAIN ms |-> SpecConfigs(d, g)[i]]
      /\ \A i \in DOMAIN ms : SpecConfigs(d, g)[i] = Config(n(i), TRUE, q(i))
      /\ DOMAIN OpenConfigs(d, g) = DOMAIN ms
      /\ \A i \in DOMAIN ms : OpenConfigs(d, g)[i] = Config(n(i), TRUE, None)
    BY DEF SpecConfigs, OpenConfigs
<1> HIDE DEF ms, n, q
<1>4. \A i \in DOMAIN ms :
         /\ Claude!EchoConfig(SpecConfigs(d, g)[i]) = SpecConfigs(d, g)[i]
         /\ d.gated = {} => Claude!EchoConfig(OpenConfigs(d, g)[i]) = SpecConfigs(d, g)[i]
    BY <1>1, <1>3
<1>5. QED
    BY <1>2, <1>3, <1>4 DEF SpecToolset

(* The platform resolves what the request leaves open to what the spec says. *)
OpenToolset(t) == IF t.type = "mcp" THEN [t EXCEPT !.policy = None] ELSE t

(* What the platform resolves of the toolset that a request leaves open is  *)
(* the toolset of the spec.                                                 *)
LEMMA StoredToolset ==
    ASSUME NEW d, NEW g, NullIsNothing
    PROVE  Claude!StoreToolset(OpenToolset(SpecToolset(d, g))) = SpecToolset(d, g)
<1> DEFINE t == SpecToolset(d, g)
           o == Toolset(ToolsetType(g), g, FALSE, ToolsetPolicy(g, None), SpecConfigs(d, g))
           ms == Claude!Members(d.tools, g)
<1>1. OpenToolset(t) = o
    <2>1. t = Toolset(ToolsetType(g), g, FALSE, ToolsetPolicy(g, Claude!Ask), SpecConfigs(d, g))
        BY DEF SpecToolset
    <2>2. /\ t.type = ToolsetType(g) /\ t.server = g /\ t.enabled = FALSE
          /\ t.configs = SpecConfigs(d, g)
          /\ IsToolset(t)
        BY <2>1 DEF Toolset, IsToolset
    <2> HIDE DEF t
    <2>3. WithPolicy(t, None) = Toolset(ToolsetType(g), g, FALSE, None, SpecConfigs(d, g))
        BY <2>2, UpdatedToolset
    <2>4. CASE g = None
        <3>1. OpenToolset(t) = t
            BY <2>2, <2>4 DEF OpenToolset, ToolsetType
        <3>2. QED
            BY <2>1, <2>4, <3>1 DEF ToolsetPolicy
    <2>5. CASE g # None
        <3>1. OpenToolset(t) = WithPolicy(t, None)
            BY <2>2, <2>5 DEF OpenToolset, ToolsetType, WithPolicy
        <3>2. QED
            BY <2>3, <2>5, <3>1 DEF ToolsetPolicy
    <2>6. QED
        BY <2>4, <2>5
<1>2. /\ o.type = ToolsetType(g) /\ o.server = g /\ o.enabled = FALSE
      /\ o.policy = ToolsetPolicy(g, None) /\ o.configs = SpecConfigs(d, g)
    BY DEF Toolset
<1>3. (IF o.policy = None THEN Claude!Ask ELSE o.policy) = ToolsetPolicy(g, Claude!Ask)
    BY <1>2 DEF ToolsetPolicy, NullIsNothing
<1>4. ASSUME NEW i \in DOMAIN ms
      PROVE  Claude!StoreConfig(SpecConfigs(d, g)[i]) = SpecConfigs(d, g)[i]
    <2> DEFINE c == SpecConfigs(d, g)[i]
               p == ToolPermission(d, ms[i])
    <2>1. c = Config(ms[i].tool, TRUE, p)
        BY DEF SpecConfigs
    <2>2. p # None
        BY DEF ToolPermission, NullIsNothing
    <2>3. /\ c.name = ms[i].tool /\ c.enabled = TRUE /\ c.policy = p
          /\ IsConfig(c)
        BY <2>1 DEF Config, IsConfig
    <2> HIDE DEF c, p
    <2>4. Claude!StoreConfig(c) = WithPolicy(c, p)
        BY <2>2, <2>3 DEF Claude!StoreConfig, WithPolicy
    <2>5. Claude!StoreConfig(c) = c
        BY <2>3, <2>4, UpdatedConfig DEF IsConfig
    <2>6. QED
        BY <2>5 DEF c
<1>5. [j \in DOMAIN o.configs |-> Claude!StoreConfig(o.configs[j])] = SpecConfigs(d, g)
    <2>1. /\ DOMAIN SpecConfigs(d, g) = DOMAIN ms
          /\ SpecConfigs(d, g) = [i \in DOMAIN ms |-> SpecConfigs(d, g)[i]]
        BY DEF SpecConfigs
    <2> HIDE DEF ms, o
    <2>2. QED
        BY <1>2, <1>4, <2>1
<1> HIDE DEF o
<1>6. QED
    BY <1>1, <1>2, <1>3, <1>5 DEF Claude!StoreToolset, SpecToolset, Toolset

(* What is stored of a desired configuration, in either of its forms, is    *)
(* the spec of the module, with the metadata of others.                     *)
StoredSpec(d, foreign) ==
    [name |-> d.addr, model |-> Claude!SpecModel(d.model), system |-> d.instructions,
     description |-> d.description, mcp_servers |-> Claude!SpecMCPServers(d),
     marker |-> d.addr, foreign |-> foreign, tools |-> Claude!SpecTools(d)]

(* What the platform stores of a request, made from either form of the      *)
(* desired configuration, is the spec of the module.                        *)
LEMMA StoredIs ==
    ASSUME NEW d, NEW x, NEW foreign, NullIsNothing,
           Claude!NormalizeDesired(x) = Claude!NormalizeSpec(d)
    PROVE  Claude!PlatformStore(Claude!NormalizeAPIRequest(x), foreign) = StoredSpec(d, foreign)
<1> DEFINE gs == Claude!Groups(d.tools)
           spec == Claude!NormalizeSpec(d)
           opened == [i \in DOMAIN spec.tools |-> OpenToolset(spec.tools[i])]
           q == [spec EXCEPT !.tools = opened]
<1>1. Claude!NormalizeAPIRequest(x) = q
    BY DEF Claude!NormalizeAPIRequest, OpenToolset
<1>2. /\ spec.tools = Claude!SpecTools(d)
      /\ q = [name |-> d.addr, model |-> Claude!SpecModel(d.model), system |-> d.instructions,
              description |-> d.description, tools |-> opened,
              mcp_servers |-> Claude!SpecMCPServers(d), marker |-> d.addr]
    <2> HIDE DEF opened
    <2>1. QED
        BY DEF Claude!NormalizeSpec
<1> HIDE DEF spec, opened, gs
<1>3. /\ q.name = d.addr /\ q.model = Claude!SpecModel(d.model) /\ q.system = d.instructions
      /\ q.description = d.description /\ q.tools = opened
      /\ q.mcp_servers = Claude!SpecMCPServers(d) /\ q.marker = d.addr
    BY <1>2
<1> HIDE DEF q
<1>4. [i \in DOMAIN q.tools |-> Claude!StoreToolset(q.tools[i])] = Claude!SpecTools(d)
    <2> DEFINE st == Claude!SpecTools(d)
    <2>1. st = [i \in DOMAIN gs |-> SpecToolset(d, gs[i])]
        BY SpecToolsAre DEF gs
    <2>2. DOMAIN st = DOMAIN gs /\ \A i \in DOMAIN gs : st[i] = SpecToolset(d, gs[i])
        BY <2>1
    <2> HIDE DEF st
    <2>3. DOMAIN opened = DOMAIN gs /\ \A i \in DOMAIN gs : opened[i] = OpenToolset(st[i])
        BY <1>2, <2>2 DEF opened, st
    <2>4. \A i \in DOMAIN gs : Claude!StoreToolset(opened[i]) = SpecToolset(d, gs[i])
        BY <2>2, <2>3, StoredToolset
    <2>5. QED
        BY <1>3, <2>1, <2>3, <2>4 DEF st
<1>5. QED
    BY <1>1, <1>3, <1>4 DEF Claude!PlatformStore, StoredSpec

(* Reading such an object, or the normalized form, gives the spec again.    *)
LEMMA EchoToolsIs ==
    ASSUME NEW d, NullIsNothing
    PROVE  Claude!EchoTools(Claude!SpecTools(d)) = Claude!SpecTools(d)
<1> DEFINE gs == Claude!Groups(d.tools)
           st == Claude!SpecTools(d)
<1>1. st = [i \in DOMAIN gs |-> SpecToolset(d, gs[i])]
    BY SpecToolsAre
<1>2. DOMAIN st = DOMAIN gs /\ \A i \in DOMAIN gs : st[i] = SpecToolset(d, gs[i])
    BY <1>1
<1> HIDE DEF st, gs
<1>3. \A i \in DOMAIN gs : Claude!EchoToolset(st[i]) = SpecToolset(d, gs[i])
    BY <1>2, EchoOfSpec
<1>4. [i \in DOMAIN st |-> Claude!EchoToolset(st[i])] = st
    BY <1>1, <1>2, <1>3
<1>5. QED
    BY <1>4 DEF Claude!EchoTools, st

(* The model of the spec reads as it is: it names its speed.                *)
LEMMA EchoModelIs ==
    ASSUME NEW d, NullIsNothing, IsClosure(d)
    PROVE  Claude!EchoModel(Claude!SpecModel(d.model)) = Claude!SpecModel(d.model)
<1> DEFINE m == Claude!SpecModel(d.model)
<1>1. m.speed # None /\ m = [id |-> m.id, speed |-> m.speed]
    BY DEF Claude!SpecModel, NullIsNothing, IsClosure
<1> HIDE DEF m
<1>2. Claude!EchoModel(m) = m
    BY <1>1 DEF Claude!EchoModel
<1>3. QED
    BY <1>2 DEF m

(* An object with the fields of the spec, whose toolsets read as its        *)
(* toolsets, reads as the spec.                                             *)
LEMMA EchoIs ==
    ASSUME NEW d, NullIsNothing, IsClosure(d),
           NEW r, r.name = d.addr, r.model = Claude!SpecModel(d.model), r.system = d.instructions,
           r.description = d.description, r.mcp_servers = Claude!SpecMCPServers(d),
           r.marker = d.addr, Claude!EchoTools(r.tools) = Claude!SpecTools(d)
    PROVE  Claude!NormalizeAPIEcho(r) = Claude!NormalizeSpec(d)
BY EchoModelIs DEF Claude!NormalizeAPIEcho, Claude!NormalizeSpec

(* An object with the toolsets of the spec can be read: each is of a known  *)
(* type and has a permission.                                               *)
LEMMA SpecReadable ==
    ASSUME NEW d, NullIsNothing, NEW r, r.tools = Claude!SpecTools(d)
    PROVE  Claude!EchoReadable(r)
<1> DEFINE gs == Claude!Groups(d.tools)
           st == Claude!SpecTools(d)
<1>1. st = [i \in DOMAIN gs |-> SpecToolset(d, gs[i])]
    BY SpecToolsAre
<1>2. DOMAIN st = DOMAIN gs /\ \A i \in DOMAIN gs : st[i] = SpecToolset(d, gs[i])
    BY <1>1
<1> HIDE DEF st, gs
<1>3. \A i \in DOMAIN gs : st[i].type \in {"agent", "mcp"} /\ st[i].policy # None
    <2> SUFFICES ASSUME NEW i \in DOMAIN gs
                 PROVE  st[i].type \in {"agent", "mcp"} /\ st[i].policy # None
        OBVIOUS
    <2>1. /\ st[i].type = ToolsetType(gs[i])
          /\ st[i].policy = ToolsetPolicy(gs[i], Claude!Ask)
        BY <1>2 DEF SpecToolset, Toolset
    <2>2. QED
        BY <2>1 DEF ToolsetType, ToolsetPolicy, NullIsNothing
<1>4. QED
    BY <1>2, <1>3 DEF Claude!EchoReadable, st

(* The form of the state file reads as the closure.                         *)
LEMMA StateFormIs ==
    ASSUME NEW d, NullIsNothing, IsClosure(d)
    PROVE  LET s == Claude!NormalizeSpec(d) IN
           /\ Claude!NormalizeDesired(d) = s /\ Claude!Accepts(d)
           /\ Claude!NormalizeDesired(s) = s /\ Claude!Accepts(s)
<1> DEFINE s == Claude!NormalizeSpec(d)
<1>1. Claude!NormalizeDesired(d) = s /\ Claude!Accepts(d)
    BY DEF Claude!NormalizeDesired, Claude!Accepts, Claude!IsNormalized, IsClosure
<1>2. "name" \in DOMAIN s /\ s.name = d.addr /\ s.model = Claude!SpecModel(d.model)
      /\ s.system = d.instructions /\ s.description = d.description /\ s.marker = d.addr
      /\ s.tools = Claude!SpecTools(d) /\ s.mcp_servers = Claude!SpecMCPServers(d)
    BY DEF Claude!NormalizeSpec
<1> HIDE DEF s
<1>3. Claude!NormalizeAPIEcho(s) = s
    BY <1>2, EchoToolsIs, EchoIs DEF s
<1>4. Claude!EchoReadable(s)
    BY <1>2, SpecReadable
<1>5. QED
    BY <1>1, <1>2, <1>3, <1>4 DEF Claude!NormalizeDesired, Claude!Accepts, Claude!IsNormalized, s

(* So does one that was written before permissions were.                    *)
LEMMA OldFormIs ==
    ASSUME NEW d, NullIsNothing, IsClosure(d), d.gated = {}
    PROVE  Claude!NormalizeDesired(Claude!WithoutPermissions(Claude!NormalizeSpec(d)))
              = Claude!NormalizeSpec(d)
<1> DEFINE s == Claude!NormalizeSpec(d)
           gs == Claude!Groups(d.tools)
           st == Claude!SpecTools(d)
           Open(c) == [c EXCEPT !.policy = None]
           Old(t) == [t EXCEPT !.configs = [j \in DOMAIN t.configs |-> Open(t.configs[j])]]
           ot(g) == Toolset(ToolsetType(g), g, FALSE, ToolsetPolicy(g, Claude!Ask), OpenConfigs(d, g))
           old == [i \in DOMAIN s.tools |-> Old(s.tools[i])]
           o == [s EXCEPT !.tools = old]
<1>1. Claude!WithoutPermissions(s) = o
    BY DEF Claude!WithoutPermissions
<1>2. s.tools = st /\ o = [name |-> d.addr, model |-> Claude!SpecModel(d.model),
                           system |-> d.instructions, description |-> d.description,
                           tools |-> old, mcp_servers |-> Claude!SpecMCPServers(d),
                           marker |-> d.addr]
    <2> HIDE DEF old
    <2>1. QED
        BY DEF Claude!NormalizeSpec
<1>3. ASSUME NEW g
      PROVE  Old(SpecToolset(d, g)) = ot(g)
    <2> DEFINE t == SpecToolset(d, g)
               ms == Claude!Members(d.tools, g)
               cs == [j \in DOMAIN t.configs |-> Open(t.configs[j])]
    <2>1. t = Toolset(ToolsetType(g), g, FALSE, ToolsetPolicy(g, Claude!Ask), SpecConfigs(d, g))
        BY DEF SpecToolset
    <2>6. /\ t.configs = SpecConfigs(d, g) /\ t.type = ToolsetType(g) /\ t.server = g
          /\ t.enabled = FALSE /\ t.policy = ToolsetPolicy(g, Claude!Ask)
          /\ IsToolset(t)
        BY <2>1 DEF Toolset, IsToolset
    <2>2. DOMAIN SpecConfigs(d, g) = DOMAIN ms
          /\ \A i \in DOMAIN ms : Open(SpecConfigs(d, g)[i]) = Config(ms[i].tool, TRUE, None)
        <3>1. \A i \in DOMAIN ms :
                 SpecConfigs(d, g)[i] = Config(ms[i].tool, TRUE, ToolPermission(d, ms[i]))
            BY DEF SpecConfigs
        <3>2. ASSUME NEW i \in DOMAIN ms
              PROVE  Open(SpecConfigs(d, g)[i]) = Config(ms[i].tool, TRUE, None)
            <4> DEFINE c == SpecConfigs(d, g)[i]
            <4>4. Open(c) = WithPolicy(c, None)
                BY DEF WithPolicy
            <4>5. c = Config(ms[i].tool, TRUE, ToolPermission(d, ms[i]))
                BY <3>1
            <4>1. c.name = ms[i].tool /\ c.enabled = TRUE /\ IsConfig(c)
                BY <4>5 DEF Config, IsConfig
            <4> HIDE DEF ms, c, Open
            <4>2. WithPolicy(c, None) = Config(ms[i].tool, TRUE, None)
                BY <4>1, UpdatedConfig
            <4>3. QED
                BY <4>2, <4>4 DEF c
        <3>3. QED
            BY <3>2 DEF SpecConfigs
    <2>5. Old(t) = WithConfigs(t, cs)
        BY DEF WithConfigs
    <2> HIDE DEF t, Open, ms
    <2>3. cs = OpenConfigs(d, g)
        BY <2>6, <2>2 DEF OpenConfigs, ms
    <2> HIDE DEF cs
    <2>4. WithConfigs(t, cs) = ot(g)
        BY <2>6, <2>3, UpdatedToolset
    <2> HIDE DEF Old
    <2>7. QED
        BY <2>4, <2>5 DEF t
<1> HIDE DEF s, Old, ot, o
<1>4. st = [i \in DOMAIN gs |-> SpecToolset(d, gs[i])]
    BY SpecToolsAre
<1>5. DOMAIN st = DOMAIN gs /\ \A i \in DOMAIN gs : st[i] = SpecToolset(d, gs[i])
    BY <1>4
<1> HIDE DEF st, gs
<1>6. /\ DOMAIN old = DOMAIN gs
      /\ \A i \in DOMAIN gs : old[i] = ot(gs[i])
    BY <1>2, <1>3, <1>5
<1>7. \A g : Claude!EchoToolset(ot(g)) = SpecToolset(d, g)
    BY EchoOfSpec DEF ot
<1> HIDE DEF old
<1>8. Claude!EchoTools(old) = st
    BY <1>4, <1>5, <1>6, <1>7 DEF Claude!EchoTools
<1>9. /\ "name" \in DOMAIN o /\ o.name = d.addr /\ o.model = Claude!SpecModel(d.model)
      /\ o.system = d.instructions /\ o.description = d.description /\ o.marker = d.addr
      /\ o.tools = old /\ o.mcp_servers = Claude!SpecMCPServers(d)
    BY <1>2
<1>10. Claude!NormalizeAPIEcho(o) = s
    BY <1>8, <1>9, EchoIs DEF st, s
<1>11. QED
    BY <1>1, <1>9, <1>10 DEF Claude!NormalizeDesired, Claude!IsNormalized, s

(* Every form of a configuration compares as what it stands for: for any    *)
(* agent a Claude target can express, and any object of the platform        *)
(* (normalize.go, diff.go).                                                 *)
THEOREM AnyConfigRoundTrips ==
    ASSUME NullIsNothing, case.kind = "agent" => IsClosure(case.desired)
    PROVE  ConfigRoundTrips
<1> SUFFICES ASSUME case.kind = "agent"
             PROVE  ApplySettles /\ StateFormFaithful
    BY DEF ConfigRoundTrips, ApplySettles, StateFormFaithful
<1> DEFINE d == case.desired
           spec == Claude!NormalizeSpec(d)
           s == Claude!NormalizeStateConfig(d)
           old == Claude!WithoutPermissions(s)
           r == Claude!PlatformStore(Claude!NormalizeAPIRequest(d), {"team"})
           q == Claude!PlatformStore(Claude!NormalizeAPIRequest(s), {"team"})
<1>1. /\ s = spec /\ Claude!NormalizeDesired(d) = spec /\ Claude!NormalizeDesired(s) = spec
      /\ Claude!Accepts(d) /\ Claude!Accepts(s)
    BY StateFormIs DEF Claude!NormalizeStateConfig
<1>2. r = StoredSpec(d, {"team"}) /\ q = StoredSpec(d, {"team"}) /\ r # None
    <2> HIDE DEF d, s
    <2>1. QED
        BY <1>1, StoredIs DEF NullIsNothing
<1>3. d.gated = {} => Claude!NormalizeDesired(old) = spec
    BY <1>1, OldFormIs
<1> HIDE DEF d, s, old, r, q, spec
<1>4. /\ r.name = d.addr /\ r.model = Claude!SpecModel(d.model) /\ r.system = d.instructions
      /\ r.description = d.description /\ r.marker = d.addr
      /\ r.tools = Claude!SpecTools(d) /\ r.mcp_servers = Claude!SpecMCPServers(d)
    BY <1>2 DEF StoredSpec
<1>5. Claude!NormalizeAPIEcho(r) = spec /\ Claude!EchoReadable(r) /\ spec.marker = d.addr
    <2>1. IsClosure(d)
        BY DEF d
    <2>2. spec.marker = d.addr
        BY DEF spec, Claude!NormalizeSpec
    <2>3. QED
        BY <1>4, <2>1, <2>2, EchoToolsIs, EchoIs, SpecReadable DEF spec
<1>7. \A o : Claude!DiffObjects(o, o) = {}
    BY DEF Claude!DiffObjects, Claude!DiffLeaf, Claude!DiffReplaceArray
<1>8. ApplySettles
    <2>1. ~ Claude!DiffRejects(d, r) /\ ~ Claude!DiffRejects(s, r)
        BY <1>1, <1>4, <1>5 DEF Claude!DiffRejects
    <2>2. Claude!Diff(d, r) = {} /\ Claude!Diff(s, r) = {}
        BY <1>1, <1>2, <1>5, <1>7 DEF Claude!Diff
    <2>3. QED
        BY <1>2, <2>1, <2>2 DEF ApplySettles, d, s, r, q
<1>9. StateFormFaithful
    <2> DEFINE x == case.remote
    <2>1. Claude!NormalizeStateConfig(s) = s
        BY <1>1 DEF Claude!NormalizeStateConfig
    <2>2. Claude!DiffRejects(s, x) <=> Claude!DiffRejects(d, x)
        BY <1>1 DEF Claude!DiffRejects
    <2>3. Claude!Diff(s, x) = Claude!Diff(d, x)
          /\ (d.gated = {} => Claude!Diff(old, x) = Claude!Diff(d, x))
        BY <1>1, <1>3 DEF Claude!Diff
    <2>4. QED
        BY <2>1, <2>2, <2>3 DEF StateFormFaithful, d, s, old
<1>10. QED
    BY <1>8, <1>9

(* A fold whose step is given as a table runs through the list.             *)
RunsThrough(list, A, base, step, f) ==
    /\ f \in [SUBSET DOMAIN list -> A]
    /\ \A s \in SUBSET DOMAIN list :
          /\ s = {} => f[s] = base
          /\ s # {} => /\ Greatest(s) \in DOMAIN list
                       /\ f[s \ {Greatest(s)}] \in A
                       /\ f[s] = step[<<f[s \ {Greatest(s)}], list[Greatest(s)]>>]

(* The fold of a table over a list exists: it is what runs through the      *)
(* list.                                                                    *)
LEMMA FoldOverList ==
    ASSUME NEW B, NEW list \in Seq(B), NEW A, NEW base \in A, NEW step \in [A \X B -> A]
    PROVE  \E f : RunsThrough(list, A, base, step, f)
<1> DEFINE n == Len(list)
           at == [p \in A \X (1 .. n) |-> step[<<p[1], list[p[2]]>>]]
<1>1. n \in Nat /\ DOMAIN list = 1 .. n /\ \A k \in 1 .. n : list[k] \in B
    OBVIOUS
<1>2. PICK f : SetFold(n, A, base, at, f)
    <2>1. at \in [A \X (1 .. n) -> A]
        <3>1. ASSUME NEW p \in A \X (1 .. n)
              PROVE  step[<<p[1], list[p[2]]>>] \in A
            <4>1. <<p[1], list[p[2]]>> \in A \X B
                BY <1>1
            <4>2. QED
                BY <4>1
        <3>2. QED
            BY <3>1
    <2> HIDE DEF at, n
    <2>2. QED
        BY <1>1, <2>1, SetFoldExists
<1>3. f \in [SUBSET DOMAIN list -> A]
    BY <1>1, <1>2 DEF SetFold
<1>4. ASSUME NEW s \in SUBSET DOMAIN list, s # {}
      PROVE  /\ Greatest(s) \in DOMAIN list
             /\ f[s \ {Greatest(s)}] \in A
             /\ f[s] = step[<<f[s \ {Greatest(s)}], list[Greatest(s)]>>]
    <2>1. Greatest(s) \in 1 .. n
        BY <1>1, <1>4, GreatestOf
    <2>2. s \ {Greatest(s)} \in SUBSET DOMAIN list
        OBVIOUS
    <2>3. f[s \ {Greatest(s)}] \in A
        BY <1>3, <2>2
    <2>4. f[s] = at[<<f[s \ {Greatest(s)}], Greatest(s)>>]
        BY <1>1, <1>2, <1>4 DEF SetFold
    <2>5. <<f[s \ {Greatest(s)}], Greatest(s)>> \in A \X (1 .. n)
        BY <2>1, <2>3
    <2>6. QED
        BY <1>1, <2>1, <2>3, <2>4, <2>5
<1>5. \A s \in SUBSET DOMAIN list : s = {} => f[s] = base
    BY <1>1, <1>2 DEF SetFold
<1> HIDE DEF at, n
<1>6. QED
    BY <1>3, <1>4, <1>5 DEF RunsThrough

(* What is appended is in the list, with what was there.                    *)
Elements(q) == {q[i] : i \in DOMAIN q}

(* Appending to a list adds the element to what the list holds.             *)
LEMMA AppendedElements ==
    ASSUME NEW S, NEW q \in Seq(S), NEW x \in S
    PROVE  Append(q, x) \in Seq(S) /\ Elements(Append(q, x)) = Elements(q) \cup {x}
<1>1. /\ DOMAIN Append(q, x) = (DOMAIN q) \cup {Len(q) + 1} /\ Len(q) + 1 \notin DOMAIN q
      /\ Append(q, x)[Len(q) + 1] = x /\ Append(q, x) \in Seq(S)
      /\ \A i \in DOMAIN q : Append(q, x)[i] = q[i]
    OBVIOUS
<1> DEFINE r == Append(q, x)
           k == Len(q) + 1
<1> HIDE DEF r, k
<1>2. {r[i] : i \in (DOMAIN q) \cup {k}} = {q[i] : i \in DOMAIN q} \cup {x}
    BY <1>1 DEF r, k
<1>3. QED
    BY <1>1, <1>2 DEF r, k, Elements

(* The servers of the toolsets, tool by tool.                               *)
GroupsAdd(gs, t) ==
    IF Claude!Contains(gs, Claude!ServerOf(t)) THEN gs ELSE Append(gs, Claude!ServerOf(t))

(* Groups goes over the tools in order, adding the server of each.          *)
LEMMA GroupsUnfold ==
    ASSUME NEW B, NEW tools \in Seq(B)
    PROVE  \E g : /\ g[0] = <<>>
                  /\ \A k \in 0 .. (Len(tools) - 1) : g[k + 1] = GroupsAdd(g[k], tools[k + 1])
                  /\ Claude!Groups(tools) = g[Len(tools)]
<1> DEFINE n == Len(tools)
           G == {Claude!ServerOf(t) : t \in B}
           A == Seq(G)
           step == [p \in A \X B |-> GroupsAdd(p[1], p[2])]
           Unfolds(f) == f = [s \in SUBSET DOMAIN tools |->
                                IF s = {} THEN <<>>
                                ELSE GroupsAdd(f[s \ {Greatest(s)}], tools[Greatest(s)])]
           iter == CHOOSE f : Unfolds(f)
           g == [k \in 0 .. n |-> iter[1 .. k]]
<1>1. n \in Nat /\ DOMAIN tools = 1 .. n /\ \A k \in 1 .. n : tools[k] \in B
    OBVIOUS
<1>2. PICK f : RunsThrough(tools, A, <<>>, step, f)
    <2>1. step \in [A \X B -> A]
        <3>1. ASSUME NEW p \in A \X B
              PROVE  GroupsAdd(p[1], p[2]) \in A
            <4>1. p[1] \in Seq(G) /\ Claude!ServerOf(p[2]) \in G
                OBVIOUS
            <4> HIDE DEF G
            <4>2. QED
                BY <4>1 DEF GroupsAdd
        <3>2. QED
            BY <3>1
    <2>2. <<>> \in A
        OBVIOUS
    <2> HIDE DEF A, step
    <2>3. QED
        BY <2>1, <2>2, FoldOverList
<1>3. Unfolds(f)
    <2>1. ASSUME NEW s \in SUBSET DOMAIN tools, s # {}
          PROVE  f[s] = GroupsAdd(f[s \ {Greatest(s)}], tools[Greatest(s)])
        <3>1. <<f[s \ {Greatest(s)}], tools[Greatest(s)]>> \in A \X B
            BY <1>1, <1>2, <2>1 DEF RunsThrough
        <3>2. f[s] = step[<<f[s \ {Greatest(s)}], tools[Greatest(s)]>>]
            BY <1>2, <2>1 DEF RunsThrough
        <3> HIDE DEF A
        <3>3. QED
            BY <3>1, <3>2
    <2> HIDE DEF A, step
    <2>2. \A s \in SUBSET DOMAIN tools :
             f[s] = IF s = {} THEN <<>>
                    ELSE GroupsAdd(f[s \ {Greatest(s)}], tools[Greatest(s)])
        BY <1>2, <2>1 DEF RunsThrough
    <2>3. f = [s \in SUBSET DOMAIN tools |-> f[s]]
        BY <1>2 DEF RunsThrough
    <2>4. QED
        BY <2>2, <2>3
<1>4. Unfolds(iter)
    <2> HIDE DEF Unfolds
    <2> QED
        BY <1>3
<1>5. Claude!Groups(tools) = iter[1 .. n]
    BY <1>1 DEF Claude!Groups, Claude!FoldLeft, Claude!MapThenFoldSet, Claude!Max,
       Greatest, GroupsAdd
<1> HIDE DEF iter, step, A
<1>6. iter[1 .. 0] = <<>>
    <2>1. 1 .. 0 = {} /\ 1 .. 0 \in SUBSET DOMAIN tools
        OBVIOUS
    <2>2. QED
        BY <1>4, <2>1
<1>7. ASSUME NEW k \in 0 .. (n - 1)
      PROVE  iter[1 .. (k + 1)] = GroupsAdd(iter[1 .. k], tools[k + 1])
    <2>1. /\ 1 .. (k + 1) \in SUBSET (1 .. n) /\ 1 .. (k + 1) # {}
          /\ Greatest(1 .. (k + 1)) = k + 1
          /\ (1 .. (k + 1)) \ {k + 1} = 1 .. k
        BY <1>1, FoldPrefix
    <2>2. QED
        BY <1>1, <1>4, <2>1
<1>8. /\ g[0] = <<>> /\ g[n] = iter[1 .. n]
      /\ \A k \in 0 .. (n - 1) : g[k + 1] = GroupsAdd(g[k], tools[k + 1])
    <2>1. 0 \in 0 .. n /\ n \in 0 .. n
        BY <1>1
    <2>2. ASSUME NEW k \in 0 .. (n - 1)
          PROVE  g[k + 1] = GroupsAdd(g[k], tools[k + 1])
        <3>1. k \in 0 .. n /\ k + 1 \in 0 .. n
            BY <1>1
        <3>2. QED
            BY <1>7, <3>1
    <2>3. QED
        BY <1>6, <2>1, <2>2
<1> HIDE DEF g
<1>9. QED
    BY <1>5, <1>8

(* The tools of one toolset, tool by tool.                                  *)
MembersAdd(g, ts, t) == IF Claude!ServerOf(t) = g THEN Append(ts, t) ELSE ts

(* Members goes over the tools in order, adding those of the server.        *)
LEMMA MembersUnfold ==
    ASSUME NEW B, NEW tools \in Seq(B), NEW v
    PROVE  \E g : /\ g[0] = <<>>
                  /\ \A k \in 0 .. (Len(tools) - 1) : g[k + 1] = MembersAdd(v, g[k], tools[k + 1])
                  /\ Claude!Members(tools, v) = g[Len(tools)]
<1> DEFINE n == Len(tools)
           A == Seq(B)
           step == [p \in A \X B |-> MembersAdd(v, p[1], p[2])]
           Unfolds(f) == f = [s \in SUBSET DOMAIN tools |->
                                IF s = {} THEN <<>>
                                ELSE MembersAdd(v, f[s \ {Greatest(s)}], tools[Greatest(s)])]
           iter == CHOOSE f : Unfolds(f)
           g == [k \in 0 .. n |-> iter[1 .. k]]
<1>1. n \in Nat /\ DOMAIN tools = 1 .. n /\ \A k \in 1 .. n : tools[k] \in B
    OBVIOUS
<1>2. PICK f : RunsThrough(tools, A, <<>>, step, f)
    <2>1. step \in [A \X B -> A]
        <3>1. ASSUME NEW p \in A \X B
              PROVE  MembersAdd(v, p[1], p[2]) \in A
            <4>1. p[1] \in Seq(B) /\ p[2] \in B
                OBVIOUS
            <4>2. QED
                BY <4>1 DEF MembersAdd
        <3>2. QED
            BY <3>1
    <2>2. <<>> \in A
        OBVIOUS
    <2> HIDE DEF A, step
    <2>3. QED
        BY <2>1, <2>2, FoldOverList
<1>3. Unfolds(f)
    <2>1. ASSUME NEW s \in SUBSET DOMAIN tools, s # {}
          PROVE  f[s] = MembersAdd(v, f[s \ {Greatest(s)}], tools[Greatest(s)])
        <3>1. <<f[s \ {Greatest(s)}], tools[Greatest(s)]>> \in A \X B
            BY <1>1, <1>2, <2>1 DEF RunsThrough
        <3>2. f[s] = step[<<f[s \ {Greatest(s)}], tools[Greatest(s)]>>]
            BY <1>2, <2>1 DEF RunsThrough
        <3> HIDE DEF A
        <3>3. QED
            BY <3>1, <3>2
    <2> HIDE DEF A, step
    <2>2. \A s \in SUBSET DOMAIN tools :
             f[s] = IF s = {} THEN <<>>
                    ELSE MembersAdd(v, f[s \ {Greatest(s)}], tools[Greatest(s)])
        BY <1>2, <2>1 DEF RunsThrough
    <2>3. f = [s \in SUBSET DOMAIN tools |-> f[s]]
        BY <1>2 DEF RunsThrough
    <2>4. QED
        BY <2>2, <2>3
<1>4. Unfolds(iter)
    <2> HIDE DEF Unfolds
    <2> QED
        BY <1>3
<1>5. Claude!Members(tools, v) = iter[1 .. n]
    BY <1>1 DEF Claude!Members, Claude!FoldLeft, Claude!MapThenFoldSet, Claude!Max,
       Greatest, MembersAdd
<1> HIDE DEF iter, step, A
<1>6. iter[1 .. 0] = <<>>
    <2>1. 1 .. 0 = {} /\ 1 .. 0 \in SUBSET DOMAIN tools
        OBVIOUS
    <2>2. QED
        BY <1>4, <2>1
<1>7. ASSUME NEW k \in 0 .. (n - 1)
      PROVE  iter[1 .. (k + 1)] = MembersAdd(v, iter[1 .. k], tools[k + 1])
    <2>1. /\ 1 .. (k + 1) \in SUBSET (1 .. n) /\ 1 .. (k + 1) # {}
          /\ Greatest(1 .. (k + 1)) = k + 1
          /\ (1 .. (k + 1)) \ {k + 1} = 1 .. k
        BY <1>1, FoldPrefix
    <2>2. QED
        BY <1>1, <1>4, <2>1
<1>8. /\ g[0] = <<>> /\ g[n] = iter[1 .. n]
      /\ \A k \in 0 .. (n - 1) : g[k + 1] = MembersAdd(v, g[k], tools[k + 1])
    <2>1. 0 \in 0 .. n /\ n \in 0 .. n
        BY <1>1
    <2>2. ASSUME NEW k \in 0 .. (n - 1)
          PROVE  g[k + 1] = MembersAdd(v, g[k], tools[k + 1])
        <3>1. k \in 0 .. n /\ k + 1 \in 0 .. n
            BY <1>1
        <3>2. QED
            BY <1>7, <3>1
    <2>3. QED
        BY <1>6, <2>1, <2>2
<1> HIDE DEF g
<1>9. QED
    BY <1>5, <1>8

(* The servers of the request, toolset by toolset.                          *)
ServerEntry(d, g) == [name |-> g, url |-> d.servers[g].url]

ServersAdd(d, ss, g) == IF g = None THEN ss ELSE Append(ss, ServerEntry(d, g))

(* SpecMCPServers goes over the toolsets in order, adding the server of     *)
(* each that has one.                                                       *)
LEMMA ServersUnfold ==
    ASSUME NEW d, NEW B, Claude!Groups(d.tools) \in Seq(B)
    PROVE  LET gs == Claude!Groups(d.tools) IN
           \E g : /\ g[0] = <<>>
                  /\ \A k \in 0 .. (Len(gs) - 1) : g[k + 1] = ServersAdd(d, g[k], gs[k + 1])
                  /\ Claude!SpecMCPServers(d) = g[Len(gs)]
<1> DEFINE gs == Claude!Groups(d.tools)
           n == Len(gs)
           G == {ServerEntry(d, t) : t \in B}
           A == Seq(G)
           step == [p \in A \X B |-> ServersAdd(d, p[1], p[2])]
           Unfolds(f) == f = [s \in SUBSET DOMAIN gs |->
                                IF s = {} THEN <<>>
                                ELSE ServersAdd(d, f[s \ {Greatest(s)}], gs[Greatest(s)])]
           iter == CHOOSE f : Unfolds(f)
           g == [k \in 0 .. n |-> iter[1 .. k]]
<1>0. gs \in Seq(B)
    OBVIOUS
<1> HIDE DEF gs
<1>1. n \in Nat /\ DOMAIN gs = 1 .. n /\ \A k \in 1 .. n : gs[k] \in B
    BY <1>0
<1>2. PICK f : RunsThrough(gs, A, <<>>, step, f)
    <2>1. step \in [A \X B -> A]
        <3>1. ASSUME NEW p \in A \X B
              PROVE  ServersAdd(d, p[1], p[2]) \in A
            <4>1. p[1] \in Seq(G) /\ ServerEntry(d, p[2]) \in G
                OBVIOUS
            <4> HIDE DEF G
            <4>2. QED
                BY <4>1 DEF ServersAdd
        <3>2. QED
            BY <3>1
    <2>2. <<>> \in A
        OBVIOUS
    <2> HIDE DEF A, step
    <2>3. QED
        BY <1>0, <2>1, <2>2, FoldOverList
<1>3. Unfolds(f)
    <2>1. ASSUME NEW s \in SUBSET DOMAIN gs, s # {}
          PROVE  f[s] = ServersAdd(d, f[s \ {Greatest(s)}], gs[Greatest(s)])
        <3>1. <<f[s \ {Greatest(s)}], gs[Greatest(s)]>> \in A \X B
            BY <1>1, <1>2, <2>1 DEF RunsThrough
        <3>2. f[s] = step[<<f[s \ {Greatest(s)}], gs[Greatest(s)]>>]
            BY <1>2, <2>1 DEF RunsThrough
        <3> HIDE DEF A
        <3>3. QED
            BY <3>1, <3>2
    <2> HIDE DEF A, step
    <2>2. \A s \in SUBSET DOMAIN gs :
             f[s] = IF s = {} THEN <<>>
                    ELSE ServersAdd(d, f[s \ {Greatest(s)}], gs[Greatest(s)])
        BY <1>2, <2>1 DEF RunsThrough
    <2>3. f = [s \in SUBSET DOMAIN gs |-> f[s]]
        BY <1>2 DEF RunsThrough
    <2>4. QED
        BY <2>2, <2>3
<1>4. Unfolds(iter)
    <2> HIDE DEF Unfolds
    <2> QED
        BY <1>3
<1>5. Claude!SpecMCPServers(d) = iter[1 .. n]
    BY <1>1 DEF gs, Claude!SpecMCPServers, Claude!FoldLeft, Claude!MapThenFoldSet, Claude!Max,
       Greatest, ServersAdd, ServerEntry
<1> HIDE DEF iter, step, A
<1>6. iter[1 .. 0] = <<>>
    <2>1. 1 .. 0 = {} /\ 1 .. 0 \in SUBSET DOMAIN gs
        OBVIOUS
    <2>2. QED
        BY <1>4, <2>1
<1>7. ASSUME NEW k \in 0 .. (n - 1)
      PROVE  iter[1 .. (k + 1)] = ServersAdd(d, iter[1 .. k], gs[k + 1])
    <2>1. /\ 1 .. (k + 1) \in SUBSET (1 .. n) /\ 1 .. (k + 1) # {}
          /\ Greatest(1 .. (k + 1)) = k + 1
          /\ (1 .. (k + 1)) \ {k + 1} = 1 .. k
        BY <1>1, FoldPrefix
    <2>2. QED
        BY <1>1, <1>4, <2>1
<1>8. /\ g[0] = <<>> /\ g[n] = iter[1 .. n]
      /\ \A k \in 0 .. (n - 1) : g[k + 1] = ServersAdd(d, g[k], gs[k + 1])
    <2>1. 0 \in 0 .. n /\ n \in 0 .. n
        BY <1>1
    <2>2. ASSUME NEW k \in 0 .. (n - 1)
          PROVE  g[k + 1] = ServersAdd(d, g[k], gs[k + 1])
        <3>1. k \in 0 .. n /\ k + 1 \in 0 .. n
            BY <1>1
        <3>2. QED
            BY <1>7, <3>1
    <2>3. QED
        BY <1>6, <2>1, <2>2
<1> HIDE DEF g
<1>9. QED
    BY <1>5, <1>8 DEF gs

(* The elements up to k + 1 are those up to k, and one more.                *)
LEMMA PrefixImage ==
    ASSUME NEW f, NEW k \in Nat
    PROVE  {f[i] : i \in 1 .. (k + 1)} = {f[i] : i \in 1 .. k} \cup {f[k + 1]}
<1>1. 1 .. (k + 1) = (1 .. k) \cup {k + 1}
    OBVIOUS
<1> DEFINE n == k + 1
<1> HIDE DEF n
<1>2. {f[i] : i \in (1 .. k) \cup {n}} = {f[i] : i \in 1 .. k} \cup {f[n]}
    OBVIOUS
<1>3. QED
    BY <1>1, <1>2 DEF n

(* There is a toolset for the server of each tool, and for no other.        *)
LEMMA GroupsAre ==
    ASSUME NEW B, NEW tools \in Seq(B)
    PROVE  /\ Claude!Groups(tools) \in Seq({Claude!ServerOf(t) : t \in B})
           /\ Elements(Claude!Groups(tools)) = {Claude!ServerOf(tools[i]) : i \in DOMAIN tools}
<1> DEFINE n == Len(tools)
           G == {Claude!ServerOf(t) : t \in B}
           h == [i \in DOMAIN tools |-> Claude!ServerOf(tools[i])]
<1>1. n \in Nat /\ DOMAIN tools = 1 .. n /\ \A k \in 1 .. n : tools[k] \in B /\ h[k] \in G
    OBVIOUS
<1>2. PICK g : /\ g[0] = <<>>
               /\ \A k \in 0 .. (n - 1) : g[k + 1] = GroupsAdd(g[k], tools[k + 1])
               /\ Claude!Groups(tools) = g[n]
    BY GroupsUnfold
<1>3. \A k \in 1 .. n : h[k] = Claude!ServerOf(tools[k])
    BY <1>1
<1>4. {h[i] : i \in DOMAIN tools} = {Claude!ServerOf(tools[i]) : i \in DOMAIN tools}
    OBVIOUS
<1> HIDE DEF n, G, h
<1> DEFINE Inv(k) == g[k] \in Seq(G) /\ Elements(g[k]) = {h[i] : i \in 1 .. k}
           T == {k \in Nat : k <= n => Inv(k)}
<1>5. 0 \in T
    <2>1. 1 .. 0 = {} /\ <<>> \in Seq(G) /\ Elements(<<>>) = {}
        BY DEF Elements
    <2>2. QED
        BY <1>2, <2>1
<1>6. ASSUME NEW k \in T
      PROVE  k + 1 \in T
    <2>1. SUFFICES ASSUME k + 1 <= n
                   PROVE  Inv(k + 1)
        OBVIOUS
    <2>2. k \in Nat /\ k \in 0 .. (n - 1) /\ k + 1 \in 1 .. n /\ Inv(k)
        BY <1>1, <2>1
    <2> HIDE DEF T
    <2>3. g[k + 1] = GroupsAdd(g[k], tools[k + 1]) /\ h[k + 1] \in G
          /\ h[k + 1] = Claude!ServerOf(tools[k + 1])
        BY <1>1, <1>2, <1>3, <2>2
    <2>4. {h[i] : i \in 1 .. (k + 1)} = {h[i] : i \in 1 .. k} \cup {h[k + 1]}
        BY <2>2, PrefixImage
    <2>5. CASE Claude!Contains(g[k], h[k + 1])
        <3>1. h[k + 1] \in Elements(g[k])
            BY <2>2, <2>5 DEF Claude!Contains, Elements
        <3>2. g[k + 1] = g[k]
            BY <2>3, <2>5 DEF GroupsAdd
        <3>3. QED
            BY <2>2, <2>4, <3>1, <3>2
    <2>6. CASE ~ Claude!Contains(g[k], h[k + 1])
        <3>1. g[k + 1] = Append(g[k], h[k + 1])
            BY <2>3, <2>6 DEF GroupsAdd
        <3>2. g[k + 1] \in Seq(G) /\ Elements(g[k + 1]) = Elements(g[k]) \cup {h[k + 1]}
            BY <2>2, <2>3, <3>1, AppendedElements
        <3>3. QED
            BY <2>2, <2>4, <3>2
    <2>7. QED
        BY <2>5, <2>6
<1>7. T = Nat
    <2> HIDE DEF T
    <2> QED
        BY <1>5, <1>6, Induction DEF T
<1>8. Inv(n)
    <2> HIDE DEF Inv
    <2>1. n \in {k \in Nat : k <= n => Inv(k)}
        BY <1>1, <1>7
    <2>2. QED
        BY <1>1, <2>1
<1>9. QED
    BY <1>1, <1>2, <1>4, <1>8 DEF G

(* A toolset has the tools of its server.                                   *)
LEMMA MembersAre ==
    ASSUME NEW B, NEW tools \in Seq(B), NEW v
    PROVE  /\ Claude!Members(tools, v) \in Seq(B)
           /\ \A t : t \in Elements(Claude!Members(tools, v)) <=>
                        \E i \in DOMAIN tools : tools[i] = t /\ Claude!ServerOf(t) = v
<1> DEFINE n == Len(tools)
<1>1. n \in Nat /\ DOMAIN tools = 1 .. n /\ \A k \in 1 .. n : tools[k] \in B
    OBVIOUS
<1>2. PICK g : /\ g[0] = <<>>
               /\ \A k \in 0 .. (n - 1) : g[k + 1] = MembersAdd(v, g[k], tools[k + 1])
               /\ Claude!Members(tools, v) = g[n]
    BY MembersUnfold
<1> HIDE DEF n
<1> DEFINE Inv(k) ==
              /\ g[k] \in Seq(B)
              /\ \A t : t \in Elements(g[k]) <=>
                           \E i \in 1 .. k : tools[i] = t /\ Claude!ServerOf(t) = v
           T == {k \in Nat : k <= n => Inv(k)}
<1>5. 0 \in T
    <2>1. 1 .. 0 = {} /\ <<>> \in Seq(B) /\ Elements(<<>>) = {}
        BY DEF Elements
    <2>2. QED
        BY <1>2, <2>1
<1>6. ASSUME NEW k \in T
      PROVE  k + 1 \in T
    <2>1. SUFFICES ASSUME k + 1 <= n
                   PROVE  Inv(k + 1)
        OBVIOUS
    <2>2. k \in Nat /\ k \in 0 .. (n - 1) /\ k + 1 \in 1 .. n /\ Inv(k)
        BY <1>1, <2>1
    <2> HIDE DEF T
    <2> DEFINE u == tools[k + 1]
    <2>3. g[k + 1] = MembersAdd(v, g[k], u) /\ u \in B
        BY <1>1, <1>2, <2>2
    <2>4. 1 .. (k + 1) = (1 .. k) \cup {k + 1}
        BY <2>2
    <2>5. CASE Claude!ServerOf(u) = v
        <3>1. g[k + 1] = Append(g[k], u)
            BY <2>3, <2>5 DEF MembersAdd
        <3>2. g[k + 1] \in Seq(B) /\ Elements(g[k + 1]) = Elements(g[k]) \cup {u}
            BY <2>2, <2>3, <3>1, AppendedElements
        <3>3. QED
            BY <2>2, <2>4, <2>5, <3>2
    <2>6. CASE Claude!ServerOf(u) # v
        <3>1. g[k + 1] = g[k]
            BY <2>3, <2>6 DEF MembersAdd
        <3>2. QED
            BY <2>2, <2>4, <2>6, <3>1
    <2>7. QED
        BY <2>5, <2>6
<1>7. T = Nat
    <2> HIDE DEF T
    <2> QED
        BY <1>5, <1>6, Induction DEF T
<1>8. Inv(n)
    BY <1>1, <1>7
<1>9. QED
    BY <1>1, <1>2, <1>8

(* The request names the server of every toolset of one.                    *)
LEMMA ServersAre ==
    ASSUME NEW d, NEW B, Claude!Groups(d.tools) \in Seq(B)
    PROVE  /\ Claude!SpecMCPServers(d) \in Seq({ServerEntry(d, g) : g \in B})
           /\ \A g \in Elements(Claude!Groups(d.tools)) :
                 g # None => ServerEntry(d, g) \in Elements(Claude!SpecMCPServers(d))
<1> DEFINE gs == Claude!Groups(d.tools)
           n == Len(gs)
           E == {ServerEntry(d, g) : g \in B}
<1>0. gs \in Seq(B)
    OBVIOUS
<1>2. PICK q : /\ q[0] = <<>>
               /\ \A k \in 0 .. (n - 1) : q[k + 1] = ServersAdd(d, q[k], gs[k + 1])
               /\ Claude!SpecMCPServers(d) = q[n]
    BY ServersUnfold
<1> HIDE DEF gs
<1>1. n \in Nat /\ DOMAIN gs = 1 .. n /\ \A k \in 1 .. n : gs[k] \in B
    BY <1>0
<1>3. \A g \in B : ServerEntry(d, g) \in E
    OBVIOUS
<1> HIDE DEF n, E
<1> DEFINE Inv(k) ==
              /\ q[k] \in Seq(E)
              /\ \A i \in 1 .. k : gs[i] # None => ServerEntry(d, gs[i]) \in Elements(q[k])
           T == {k \in Nat : k <= n => Inv(k)}
<1>5. 0 \in T
    <2>1. 1 .. 0 = {} /\ <<>> \in Seq(E)
        OBVIOUS
    <2>2. QED
        BY <1>2, <2>1
<1>6. ASSUME NEW k \in T
      PROVE  k + 1 \in T
    <2>1. SUFFICES ASSUME k + 1 <= n
                   PROVE  Inv(k + 1)
        OBVIOUS
    <2>2. k \in Nat /\ k \in 0 .. (n - 1) /\ k + 1 \in 1 .. n /\ Inv(k)
        BY <1>1, <2>1
    <2> HIDE DEF T
    <2> DEFINE u == gs[k + 1]
    <2>3. q[k + 1] = ServersAdd(d, q[k], u) /\ ServerEntry(d, u) \in E
        BY <1>1, <1>2, <1>3, <2>2
    <2>4. 1 .. (k + 1) = (1 .. k) \cup {k + 1}
        BY <2>2
    <2>5. CASE u # None
        <3>1. q[k + 1] = Append(q[k], ServerEntry(d, u))
            BY <2>3, <2>5 DEF ServersAdd
        <3>2. /\ q[k + 1] \in Seq(E)
              /\ Elements(q[k + 1]) = Elements(q[k]) \cup {ServerEntry(d, u)}
            BY <2>2, <2>3, <3>1, AppendedElements
        <3>3. QED
            BY <2>2, <2>4, <2>5, <3>2
    <2>6. CASE u = None
        <3>1. q[k + 1] = q[k]
            BY <2>3, <2>6 DEF ServersAdd
        <3>2. QED
            BY <2>2, <2>4, <2>6, <3>1
    <2>7. QED
        BY <2>5, <2>6
<1>7. T = Nat
    <2> HIDE DEF T
    <2> QED
        BY <1>5, <1>6, Induction DEF T
<1>8. Inv(n)
    BY <1>1, <1>7
<1>9. \A g \in Elements(gs) : g # None => ServerEntry(d, g) \in Elements(q[n])
    BY <1>1, <1>8 DEF Elements
<1>10. QED
    BY <1>2, <1>8, <1>9 DEF gs, E

(* An answer of the platform: of each tool of each toolset it says whether  *)
(* it is enabled and with which permission.                                 *)
ConfigAnswered(c) == IsConfig(c) /\ c.policy # None

ToolsetAnswered(t) ==
    /\ IsToolset(t)
    /\ t.configs = [j \in DOMAIN t.configs |-> t.configs[j]]
    /\ \A j \in DOMAIN t.configs : ConfigAnswered(t.configs[j])

IsAnswer(r) ==
    /\ r # None
    /\ r.tools = [i \in DOMAIN r.tools |-> r.tools[i]]
    /\ \A i \in DOMAIN r.tools : ToolsetAnswered(r.tools[i])
    /\ \A i \in DOMAIN r.mcp_servers : r.mcp_servers[i] # None

(* Reading such a toolset changes nothing.                                  *)
LEMMA EchoOfAnswer ==
    ASSUME NEW t, ToolsetAnswered(t)
    PROVE  Claude!EchoToolset(t) = t
<1> DEFINE cs == t.configs
           es == [j \in DOMAIN cs |-> Claude!EchoConfig(cs[j])]
<1>1. ASSUME NEW c, ConfigAnswered(c)
      PROVE  Claude!EchoConfig(c) = c
    <2>1. Claude!EchoConfig(c) = WithPolicy(c, c.policy)
        BY <1>1 DEF Claude!EchoConfig, Claude!EchoToolPermission, WithPolicy, ConfigAnswered
    <2>2. WithPolicy(c, c.policy) = Config(c.name, c.enabled, c.policy)
        BY <1>1, UpdatedConfig DEF ConfigAnswered
    <2>3. QED
        BY <1>1, <2>1, <2>2 DEF ConfigAnswered, IsConfig
<1>2. es = cs
    <2>1. cs = [j \in DOMAIN cs |-> cs[j]] /\ \A j \in DOMAIN cs : ConfigAnswered(cs[j])
        BY DEF ToolsetAnswered
    <2> HIDE DEF cs
    <2>2. QED
        BY <1>1, <2>1
<1>3. Claude!EchoToolset(t) = WithConfigs(t, es)
    BY DEF Claude!EchoToolset, WithConfigs
<1> HIDE DEF es
<1>4. WithConfigs(t, es) = Toolset(t.type, t.server, t.enabled, t.policy, es)
    BY UpdatedToolset DEF ToolsetAnswered
<1>5. t = Toolset(t.type, t.server, t.enabled, t.policy, t.configs)
    BY DEF ToolsetAnswered, IsToolset
<1>6. QED
    BY <1>2, <1>3, <1>4, <1>5

(* An object is not null.                                                   *)
LEMMA ToolsetIsNotNull ==
    ASSUME NullIsNothing, NEW t, IsToolset(t)
    PROVE  t # None
<1>1. Toolset(t.type, t.server, t.enabled, t.policy, t.configs) # None
    BY Zenon DEF NullIsNothing
<1>2. QED
    BY <1>1 DEF IsToolset

(* Two lists without a difference are the same.                             *)
LEMMA SameArrays ==
    ASSUME NEW key, NEW want, NEW got, Claude!DiffReplaceArray(key, want, got) = {},
           \A i \in DOMAIN want : want[i] # None, \A i \in DOMAIN got : got[i] # None
    PROVE  DOMAIN want = DOMAIN got /\ \A i \in DOMAIN want : want[i] = got[i]
<1> DEFINE W(i) == IF i \in DOMAIN want THEN want[i] ELSE None
           G(i) == IF i \in DOMAIN got THEN got[i] ELSE None
<1>1. \A i \in (DOMAIN want) \cup (DOMAIN got) : W(i) = G(i)
    <2>1. {<<key, i>> : i \in {k \in (DOMAIN want) \cup (DOMAIN got) : W(k) # G(k)}} = {}
        BY DEF Claude!DiffReplaceArray
    <2> HIDE DEF W, G
    <2>2. QED
        BY <2>1
<1>2. QED
    BY <1>1

(* What a module declares is what the toolsets of its spec grant.           *)
SpecGrant(d, g, t) == <<g, Config(t.tool, TRUE, ToolPermission(d, t))>>

(* The toolsets of the spec grant the tools that the module declares, with  *)
(* their permissions, and nothing else.                                     *)
LEMMA SpecGrants ==
    ASSUME NEW d, NEW B, d.tools \in Seq(B), NEW ts,
           DOMAIN ts = DOMAIN Claude!Groups(d.tools),
           \A i \in DOMAIN ts : ts[i] = SpecToolset(d, Claude!Groups(d.tools)[i])
    PROVE  Claude!Grants(ts) = Claude!DeclaredGrants(d)
<1> DEFINE gs == Claude!Groups(d.tools)
           G == Claude!Grants(ts)
           D == Claude!DeclaredGrants(d)
<1>1. /\ \A i \in DOMAIN gs : \E k \in DOMAIN d.tools : gs[i] = Claude!ServerOf(d.tools[k])
      /\ \A k \in DOMAIN d.tools : \E i \in DOMAIN gs : gs[i] = Claude!ServerOf(d.tools[k])
    <2>1. Elements(gs) = {Claude!ServerOf(d.tools[i]) : i \in DOMAIN d.tools}
        BY GroupsAre
    <2> HIDE DEF gs
    <2>2. QED
        BY <2>1 DEF Elements
<1>2. \A x : x \in D <=> \E k \in DOMAIN d.tools :
                            x = SpecGrant(d, Claude!ServerOf(d.tools[k]), d.tools[k])
    <2>1. Claude!Range(d.tools) = {d.tools[k] : k \in DOMAIN d.tools}
        BY DEF Claude!Range
    <2>2. D = {SpecGrant(d, Claude!ServerOf(t), t) : t \in Claude!Range(d.tools)}
        BY DEF Claude!DeclaredGrants, Config, ToolPermission, SpecGrant
    <2> HIDE DEF D
    <2>3. QED
        BY <2>1, <2>2
<1>3. \A x : x \in G <=> \E i \in DOMAIN gs : \E j \in DOMAIN Claude!Members(d.tools, gs[i]) :
                            x = SpecGrant(d, gs[i], Claude!Members(d.tools, gs[i])[j])
    <2>1. ASSUME NEW i \in DOMAIN gs
          PROVE  /\ ts[i].server = gs[i]
                 /\ DOMAIN ts[i].configs = DOMAIN Claude!Members(d.tools, gs[i])
                 /\ \A j \in DOMAIN Claude!Members(d.tools, gs[i]) :
                       ts[i].configs[j] =
                           Config(Claude!Members(d.tools, gs[i])[j].tool, TRUE,
                                  ToolPermission(d, Claude!Members(d.tools, gs[i])[j]))
        <3>1. ts[i].server = gs[i] /\ ts[i].configs = SpecConfigs(d, gs[i])
            BY DEF SpecToolset, Toolset
        <3>2. QED
            BY <3>1 DEF SpecConfigs
    <2> DEFINE U(i) == {<<ts[i].server, c>> : c \in Claude!Range(ts[i].configs)}
    <2>2. G = UNION {U(i) : i \in DOMAIN ts}
        BY DEF Claude!Grants
    <2>3. \A x, i : x \in U(i) <=> \E c \in Claude!Range(ts[i].configs) : x = <<ts[i].server, c>>
        OBVIOUS
    <2>7. \A x : x \in G <=> \E i \in DOMAIN ts : x \in U(i)
        <3> HIDE DEF G, U
        <3> QED
            BY <2>2
    <2>4. \A i \in DOMAIN ts : \A c : c \in Claude!Range(ts[i].configs) <=>
                                  \E j \in DOMAIN ts[i].configs : c = ts[i].configs[j]
        BY DEF Claude!Range
    <2> HIDE DEF G, U, gs
    <2>5. DOMAIN ts = DOMAIN gs
        BY DEF gs
    <2>8. ASSUME NEW x, NEW i \in DOMAIN gs
          PROVE  x \in U(i) <=>
                    \E j \in DOMAIN Claude!Members(d.tools, gs[i]) :
                        x = SpecGrant(d, gs[i], Claude!Members(d.tools, gs[i])[j])
        <3>1. x \in U(i) <=> \E j \in DOMAIN ts[i].configs : x = <<ts[i].server, ts[i].configs[j]>>
            BY <2>3, <2>4, <2>5
        <3>2. QED
            BY <2>1, <3>1 DEF SpecGrant
    <2>6. ASSUME NEW x
          PROVE  x \in G <=> \E i \in DOMAIN gs : x \in U(i)
        BY <2>7, <2>5
    <2>9. QED
        BY <2>6, <2>8
<1>4. \A g, t : (\E j \in DOMAIN Claude!Members(d.tools, g) : t = Claude!Members(d.tools, g)[j]) <=>
                   \E k \in DOMAIN d.tools : d.tools[k] = t /\ Claude!ServerOf(t) = g
    <2> TAKE g, t
    <2>1. t \in Elements(Claude!Members(d.tools, g)) <=>
             \E k \in DOMAIN d.tools : d.tools[k] = t /\ Claude!ServerOf(t) = g
        BY MembersAre
    <2>2. QED
        BY <2>1 DEF Elements
<1> HIDE DEF gs, G, D
<1>5. ASSUME NEW x \in G
      PROVE  x \in D
    <2>1. PICK i \in DOMAIN gs : \E j \in DOMAIN Claude!Members(d.tools, gs[i]) :
                 x = SpecGrant(d, gs[i], Claude!Members(d.tools, gs[i])[j])
        BY <1>3
    <2>2. PICK j \in DOMAIN Claude!Members(d.tools, gs[i]) :
                 x = SpecGrant(d, gs[i], Claude!Members(d.tools, gs[i])[j])
        BY <2>1
    <2>3. PICK k \in DOMAIN d.tools :
                 /\ d.tools[k] = Claude!Members(d.tools, gs[i])[j]
                 /\ Claude!ServerOf(Claude!Members(d.tools, gs[i])[j]) = gs[i]
        BY <1>4
    <2>4. x = SpecGrant(d, Claude!ServerOf(d.tools[k]), d.tools[k])
        BY <2>2, <2>3
    <2>5. QED
        BY <1>2, <2>4
<1>6. ASSUME NEW x \in D
      PROVE  x \in G
    <2>1. PICK k \in DOMAIN d.tools : x = SpecGrant(d, Claude!ServerOf(d.tools[k]), d.tools[k])
        BY <1>2
    <2>2. PICK i \in DOMAIN gs : gs[i] = Claude!ServerOf(d.tools[k])
        BY <1>1
    <2> DEFINE t == d.tools[k]
    <2>5. \E l \in DOMAIN d.tools : d.tools[l] = t /\ Claude!ServerOf(t) = gs[i]
        BY <2>2
    <2> HIDE DEF t
    <2>6. t \in Elements(Claude!Members(d.tools, gs[i]))
        BY <2>5, MembersAre
    <2>3. PICK j \in DOMAIN Claude!Members(d.tools, gs[i]) : t = Claude!Members(d.tools, gs[i])[j]
        BY <2>6 DEF Elements
    <2>4. QED
        BY <1>3, <2>1, <2>2, <2>3 DEF t
<1>7. QED
    BY <1>5, <1>6 DEF G, D

(* A plan that finds nothing to do leaves no denial and no grant unseen:    *)
(* for any agent a Claude target can express, whatever the platform answers *)
(* of it (diff.go, normalize.go).                                           *)
THEOREM AnyGrantIsSeen ==
    ASSUME NullIsNothing, NEW B,
           case.kind = "agent" =>
               /\ IsClosure(case.desired)
               /\ case.desired.tools \in Seq(B)
               /\ \A s \in DOMAIN case.desired.servers :
                     s # None /\ \E i \in DOMAIN case.desired.tools :
                                    /\ case.desired.tools[i].kind = "mcp"
                                    /\ case.desired.tools[i].server = s
               /\ IsAnswer(case.remote)
    PROVE  NoGrantUnseen
<1> DEFINE d == case.desired
           r == case.remote
           gs == Claude!Groups(d.tools)
           want == Claude!NormalizeSpec(d)
           got == Claude!NormalizeAPIEcho(r)
<1> SUFFICES ASSUME case.kind = "agent", ~ Claude!DiffRejects(d, r), Claude!Diff(d, r) = {}
             PROVE  /\ Claude!Grants(r.tools) = Claude!DeclaredGrants(d)
                    /\ \A i \in DOMAIN r.tools : ~ r.tools[i].enabled
                    /\ \A s \in DOMAIN d.servers : \E i \in DOMAIN r.mcp_servers :
                        r.mcp_servers[i] = [name |-> s, url |-> d.servers[s].url]
    BY DEF NoGrantUnseen
<1>1. /\ Claude!DiffReplaceArray("tools", want.tools, got.tools) = {}
      /\ Claude!DiffReplaceArray("mcp_servers", want.mcp_servers, got.mcp_servers) = {}
    <2>1. Claude!NormalizeDesired(d) = want /\ r # None
        BY StateFormIs DEF IsAnswer
    <2> HIDE DEF d, r, want, got
    <2>2. Claude!DiffObjects(want, Claude!NormalizeAPIEcho(r)) = {}
        BY <2>1 DEF Claude!Diff
    <2>3. QED
        BY <2>2 DEF Claude!DiffObjects, got
<1>2. /\ want.tools = Claude!SpecTools(d) /\ want.mcp_servers = Claude!SpecMCPServers(d)
      /\ got.tools = Claude!EchoTools(r.tools) /\ got.mcp_servers = r.mcp_servers
    BY DEF Claude!NormalizeSpec, Claude!NormalizeAPIEcho
<1>3. d.tools \in Seq(B) /\ IsAnswer(r)
    OBVIOUS
<1>4. /\ gs \in Seq({Claude!ServerOf(t) : t \in B})
      /\ Elements(gs) = {Claude!ServerOf(d.tools[i]) : i \in DOMAIN d.tools}
    BY <1>3, GroupsAre
<1>5. \A s \in DOMAIN d.servers : s # None /\ s \in Elements(gs)
    <2>1. ASSUME NEW s \in DOMAIN d.servers
          PROVE  s # None /\ \E i \in DOMAIN d.tools : s = Claude!ServerOf(d.tools[i])
        BY DEF Claude!ServerOf
    <2> HIDE DEF d, gs
    <2>2. QED
        BY <1>4, <2>1
<1>6. /\ DOMAIN Claude!SpecTools(d) = DOMAIN gs
      /\ \A i \in DOMAIN gs : Claude!SpecTools(d)[i] = SpecToolset(d, gs[i])
    BY SpecToolsAre
<1>7. Claude!EchoTools(r.tools) = r.tools
    <2> HIDE DEF r
    <2>1. \A i \in DOMAIN r.tools : Claude!EchoToolset(r.tools[i]) = r.tools[i]
        BY <1>3, EchoOfAnswer DEF IsAnswer
    <2>2. r.tools = [i \in DOMAIN r.tools |-> r.tools[i]]
        BY <1>3 DEF IsAnswer
    <2>3. QED
        BY <2>1, <2>2 DEF Claude!EchoTools
<1> HIDE DEF d, r, gs, want, got
<1>8. DOMAIN r.tools = DOMAIN gs /\ \A i \in DOMAIN gs : r.tools[i] = SpecToolset(d, gs[i])
    <2>1. \A i \in DOMAIN gs : SpecToolset(d, gs[i]) # None
        <3>1. \A g : IsToolset(SpecToolset(d, g))
            BY DEF SpecToolset, IsToolset, Toolset
        <3>2. QED
            BY <3>1, ToolsetIsNotNull
    <2>2. \A i \in DOMAIN r.tools : r.tools[i] # None
        <3> SUFFICES ASSUME NEW i \in DOMAIN r.tools
                     PROVE  r.tools[i] # None
            OBVIOUS
        <3>1. IsToolset(r.tools[i])
            BY <1>3 DEF IsAnswer, ToolsetAnswered
        <3>2. QED
            BY <3>1, ToolsetIsNotNull
    <2>3. QED
        BY <1>1, <1>2, <1>6, <1>7, <2>1, <2>2, SameArrays
<1>9. Claude!Grants(r.tools) = Claude!DeclaredGrants(d)
    BY <1>3, <1>8, SpecGrants DEF gs
<1>10. \A i \in DOMAIN r.tools : ~ r.tools[i].enabled
    <2> SUFFICES ASSUME NEW i \in DOMAIN r.tools
                 PROVE  ~ r.tools[i].enabled
        OBVIOUS
    <2>1. r.tools[i] = SpecToolset(d, gs[i])
        BY <1>8
    <2>2. SpecToolset(d, gs[i]).enabled = FALSE
        BY DEF SpecToolset, Toolset
    <2>3. QED
        BY <2>1, <2>2
<1>11. ASSUME NEW s \in DOMAIN d.servers
       PROVE  \E i \in DOMAIN r.mcp_servers : r.mcp_servers[i] = [name |-> s, url |-> d.servers[s].url]
    <2> DEFINE ss == Claude!SpecMCPServers(d)
               G == {Claude!ServerOf(t) : t \in B}
               E == {ServerEntry(d, g) : g \in G}
    <2>1. ss \in Seq(E) /\ ServerEntry(d, s) \in Elements(ss)
        <3>1. Claude!Groups(d.tools) \in Seq(G)
            BY <1>4 DEF gs
        <3>2. s # None /\ s \in Elements(Claude!Groups(d.tools))
            BY <1>5 DEF gs
        <3> HIDE DEF G
        <3>3. ss \in Seq({ServerEntry(d, g) : g \in G})
            BY <3>1, ServersAre
        <3>4. ServerEntry(d, s) \in Elements(ss)
            BY <3>1, <3>2, ServersAre
        <3>5. QED
            BY <3>3, <3>4
    <2>2. \A e \in E : e # None
        <3>1. \A g : ServerEntry(d, g) # None
            BY Zenon DEF NullIsNothing, ServerEntry
        <3> HIDE DEF G
        <3>2. QED
            BY <3>1
    <2> HIDE DEF ss, E
    <2>3. \A i \in DOMAIN ss : ss[i] # None
        BY <2>1, <2>2
    <2>4. DOMAIN ss = DOMAIN r.mcp_servers /\ \A i \in DOMAIN ss : ss[i] = r.mcp_servers[i]
        <3>1. Claude!DiffReplaceArray("mcp_servers", ss, r.mcp_servers) = {}
            BY <1>1, <1>2 DEF ss
        <3>2. \A i \in DOMAIN r.mcp_servers : r.mcp_servers[i] # None
            BY <1>3 DEF IsAnswer
        <3>3. QED
            BY <2>3, <3>1, <3>2, SameArrays
    <2>5. PICK i \in DOMAIN ss : ss[i] = ServerEntry(d, s)
        BY <2>1 DEF Elements
    <2>6. QED
        BY <2>4, <2>5 DEF ServerEntry
<1>12. QED
    BY <1>9, <1>10, <1>11 DEF d, r

-----------------------------------------------------------------------------
(* doctor.                                                                  *)

(* The elements of two lists, one after the other.                          *)
LEMMA JoinedElements ==
    ASSUME NEW C, NEW p \in Seq(C), NEW q \in Seq(C)
    PROVE  p \o q \in Seq(C) /\ Elements(p \o q) = Elements(p) \cup Elements(q)
<1> DEFINE m == Len(p)
           n == Len(q)
           r == p \o q
<1>1. /\ m \in Nat /\ n \in Nat /\ r \in Seq(C) /\ Len(r) = m + n
      /\ DOMAIN p = 1 .. m /\ DOMAIN q = 1 .. n /\ DOMAIN r = 1 .. (m + n)
      /\ \A i \in 1 .. (m + n) : r[i] = IF i <= m THEN p[i] ELSE q[i - m]
    OBVIOUS
<1> HIDE DEF m, n, r
<1>2. ASSUME NEW x \in Elements(r)
      PROVE  x \in Elements(p) \cup Elements(q)
    <2>1. PICK i \in 1 .. (m + n) : x = r[i]
        BY <1>1 DEF Elements
    <2>2. CASE i <= m
        <3>1. i \in DOMAIN p /\ x = p[i]
            BY <1>1, <2>1, <2>2
        <3>2. QED
            BY <3>1 DEF Elements
    <2>3. CASE ~ (i <= m)
        <3>1. i - m \in DOMAIN q /\ x = q[i - m]
            BY <1>1, <2>1, <2>3
        <3>2. QED
            BY <3>1 DEF Elements
    <2>4. QED
        BY <2>2, <2>3
<1>3. ASSUME NEW x \in Elements(p)
      PROVE  x \in Elements(r)
    <2>1. PICK i \in 1 .. m : x = p[i]
        BY <1>1 DEF Elements
    <2>2. i \in DOMAIN r /\ x = r[i]
        BY <1>1, <2>1
    <2>3. QED
        BY <2>2 DEF Elements
<1>4. ASSUME NEW x \in Elements(q)
      PROVE  x \in Elements(r)
    <2>1. PICK i \in 1 .. n : x = q[i]
        BY <1>1 DEF Elements
    <2>2. i + m \in DOMAIN r /\ x = r[i + m]
        BY <1>1, <2>1
    <2>3. QED
        BY <2>2 DEF Elements
<1>5. QED
    BY <1>1, <1>2, <1>3, <1>4 DEF r

(* A list of lists, flattened, has the elements of all of them.             *)
LEMMA FlatElements ==
    ASSUME NEW C, NEW seqs \in Seq(Seq(C))
    PROVE  /\ Claude!FlattenSeq(seqs) \in Seq(C)
           /\ \A x : x \in Elements(Claude!FlattenSeq(seqs)) <=>
                        \E i \in DOMAIN seqs : x \in Elements(seqs[i])
<1> DEFINE n == Len(seqs)
           step == [p \in Seq(C) \X Seq(C) |-> p[1] \o p[2]]
           Flattens(h) == h = [i \in 1 .. Len(seqs) |->
                                 IF i = 1 THEN seqs[i] ELSE h[i - 1] \o seqs[i]]
           flatten == CHOOSE h : Flattens(h)
<1>1. n \in Nat /\ DOMAIN seqs = 1 .. n /\ \A k \in 1 .. n : seqs[k] \in Seq(C)
    OBVIOUS
<1>2. PICK f : RunsThrough(seqs, Seq(C), <<>>, step, f)
    <2>1. step \in [Seq(C) \X Seq(C) -> Seq(C)]
        <3>1. \A p \in Seq(C) \X Seq(C) : p[1] \o p[2] \in Seq(C)
            OBVIOUS
        <3>2. QED
            BY <3>1
    <2>2. <<>> \in Seq(C)
        OBVIOUS
    <2> HIDE DEF step
    <2>3. QED
        BY <2>1, <2>2, FoldOverList
<1> DEFINE h == [i \in 1 .. n |-> f[1 .. i]]
<1>3. ASSUME NEW i \in 1 .. n
      PROVE  /\ f[1 .. (i - 1)] \in Seq(C)
             /\ f[1 .. i] = f[1 .. (i - 1)] \o seqs[i]
    <2> DEFINE k == i - 1
    <2>1. k \in 0 .. (n - 1) /\ k + 1 = i
        BY <1>1
    <2> HIDE DEF k
    <2>2. /\ 1 .. (k + 1) \in SUBSET (1 .. n) /\ 1 .. (k + 1) # {}
          /\ Greatest(1 .. (k + 1)) = k + 1
          /\ (1 .. (k + 1)) \ {k + 1} = 1 .. k
        BY <1>1, <2>1, FoldPrefix
    <2> HIDE DEF step, n
    <2>3. /\ f[1 .. k] \in Seq(C)
          /\ f[1 .. (k + 1)] = step[<<f[1 .. k], seqs[k + 1]>>]
        BY <1>1, <1>2, <2>2 DEF RunsThrough
    <2>4. <<f[1 .. k], seqs[k + 1]>> \in Seq(C) \X Seq(C)
        BY <1>1, <2>1, <2>3
    <2>5. f[1 .. (k + 1)] = f[1 .. k] \o seqs[k + 1]
        BY <2>3, <2>4 DEF step
    <2>6. QED
        BY <2>1, <2>3, <2>5 DEF k
<1>4. f[1 .. 0] = <<>>
    <2>1. 1 .. 0 = {} /\ 1 .. 0 \in SUBSET DOMAIN seqs
        OBVIOUS
    <2>2. QED
        BY <1>2, <2>1 DEF RunsThrough
<1>5. Flattens(h)
    <2>1. ASSUME NEW i \in 1 .. n
          PROVE  f[1 .. i] = IF i = 1 THEN seqs[i] ELSE h[i - 1] \o seqs[i]
        <3>1. CASE i = 1
            <4>1. f[1 .. 1] = <<>> \o seqs[1] /\ seqs[1] \in Seq(C)
                <5>1. 1 \in 1 .. n /\ 1 - 1 = 0
                    BY <3>1
                <5>2. f[1 .. 1] = f[1 .. (1 - 1)] \o seqs[1]
                    BY <1>3, <5>1
                <5>3. QED
                    BY <1>1, <1>4, <5>1, <5>2
            <4>2. \A q \in Seq(C) : <<>> \o q = q
                OBVIOUS
            <4>3. QED
                BY <3>1, <4>1, <4>2
        <3>2. CASE i # 1
            <4>1. i - 1 \in 1 .. n
                BY <1>1, <3>2
            <4>2. QED
                BY <1>3, <3>2, <4>1
        <3>3. QED
            BY <3>1, <3>2
    <2>2. h = [i \in 1 .. n |-> IF i = 1 THEN seqs[i] ELSE h[i - 1] \o seqs[i]]
        <3>1. \A i \in 1 .. n : h[i] = IF i = 1 THEN seqs[i] ELSE h[i - 1] \o seqs[i]
            BY <2>1
        <3>2. h = [i \in 1 .. n |-> h[i]]
            OBVIOUS
        <3> HIDE DEF h
        <3>3. QED
            BY <3>1, <3>2
    <2> HIDE DEF h
    <2>3. QED
        BY <2>2
<1>6. Flattens(flatten)
    <2> HIDE DEF Flattens, h
    <2> QED
        BY <1>5
<1>7. Claude!FlattenSeq(seqs) = IF n = 0 THEN seqs ELSE flatten[n]
    BY DEF Claude!FlattenSeq
<1> HIDE DEF flatten, h, step
<1> DEFINE Inv(k) ==
              /\ flatten[k] \in Seq(C)
              /\ \A x : x \in Elements(flatten[k]) <=>
                           \E i \in 1 .. k : x \in Elements(seqs[i])
           T == {k \in Nat : k + 1 <= n => Inv(k + 1)}
<1>8. 0 \in T
    <2>1. SUFFICES ASSUME 1 <= n
                   PROVE  Inv(1)
        BY <1>1
    <2>2. flatten[1] = seqs[1] /\ seqs[1] \in Seq(C)
        BY <1>1, <1>6, <2>1
    <2>3. \A i \in 1 .. 1 : i = 1
        OBVIOUS
    <2>4. QED
        BY <2>2, <2>3
<1>9. ASSUME NEW k \in T
      PROVE  k + 1 \in T
    <2> DEFINE l == k + 1
    <2>1. SUFFICES ASSUME l + 1 <= n
                   PROVE  Inv(l + 1)
        OBVIOUS
    <2>2. /\ l \in 1 .. n /\ l + 1 \in 1 .. n /\ l + 1 # 1 /\ (l + 1) - 1 = l /\ Inv(l)
        <3>1. k \in Nat /\ (k + 1 <= n => Inv(k + 1))
            <4> HIDE DEF Inv
            <4>1. QED
                OBVIOUS
        <3> HIDE DEF Inv, T
        <3>2. /\ l \in 1 .. n /\ l + 1 \in 1 .. n /\ l + 1 # 1 /\ (l + 1) - 1 = l /\ l <= n
            BY <1>1, <2>1, <3>1
        <3>3. QED
            BY <3>1, <3>2
    <2> HIDE DEF l, T
    <2>3. flatten[l + 1] = flatten[l] \o seqs[l + 1] /\ seqs[l + 1] \in Seq(C)
        BY <1>1, <1>6, <2>2
    <2>4. /\ flatten[l + 1] \in Seq(C)
          /\ Elements(flatten[l + 1]) = Elements(flatten[l]) \cup Elements(seqs[l + 1])
        BY <2>2, <2>3, JoinedElements
    <2>5. 1 .. (l + 1) = (1 .. l) \cup {l + 1}
        BY <2>2
    <2>6. QED
        BY <2>2, <2>4, <2>5
<1>10. T = Nat
    <2> HIDE DEF T
    <2> QED
        BY <1>8, <1>9, Induction DEF T
<1>11. CASE n = 0
    <2>1. seqs = <<>> /\ DOMAIN seqs = {}
        BY <1>1, <1>11
    <2>2. <<>> \in Seq(C) /\ Elements(<<>>) = {}
        BY DEF Elements
    <2>3. QED
        BY <1>7, <1>11, <2>1, <2>2
<1>12. CASE n # 0
    <2>1. Inv(n)
        <3>1. n - 1 \in Nat /\ (n - 1) + 1 = n
            BY <1>1, <1>12
        <3>2. n - 1 \in {k \in Nat : k + 1 <= n => Inv(k + 1)}
            BY <1>10, <3>1
        <3> HIDE DEF Inv
        <3>3. QED
            BY <1>1, <3>1, <3>2
    <2>2. QED
        BY <1>1, <1>7, <1>12, <2>1
<1>13. QED
    BY <1>11, <1>12

(* The tools of some toolsets by name: each is there, and is one of them.   *)
LEMMA PoliciesAre ==
    ASSUME NEW C, NEW F, \A t \in F : t.configs \in Seq(C), NEW ts \in Seq(F)
    PROVE  LET policies == Claude!DeclaredToolPolicies(ts) IN
           /\ \A i \in DOMAIN ts : \A c \in Elements(ts[i].configs) : c.name \in DOMAIN policies
           /\ \A n \in DOMAIN policies :
                 /\ policies[n].name = n
                 /\ \E i \in DOMAIN ts : policies[n] \in Elements(ts[i].configs)
<1> DEFINE lists == [i \in DOMAIN ts |-> ts[i].configs]
           all == Claude!FlattenSeq(lists)
           names == {all[i].name : i \in DOMAIN all}
           LastNamed(n, i) == /\ all[i].name = n
                              /\ \A j \in DOMAIN all : all[j].name = n => j <= i
           last(n) == CHOOSE i \in DOMAIN all : LastNamed(n, i)
           policies == Claude!DeclaredToolPolicies(ts)
<1>1. /\ lists \in Seq(Seq(C)) /\ DOMAIN lists = DOMAIN ts
      /\ \A i \in DOMAIN ts : lists[i] = ts[i].configs
    OBVIOUS
<1>2. policies = [n \in names |-> all[last(n)]]
    BY DEF Claude!DeclaredToolPolicies
<1> HIDE DEF lists, policies
<1>3. /\ all \in Seq(C)
      /\ \A x : x \in Elements(all) <=> \E i \in DOMAIN lists : x \in Elements(lists[i])
    BY <1>1, FlatElements
<1> HIDE DEF all
<1>4. Len(all) \in Nat /\ DOMAIN all = 1 .. Len(all)
    BY <1>3
<1>5. ASSUME NEW n \in names
      PROVE  last(n) \in DOMAIN all /\ all[last(n)].name = n
    <2> DEFINE s == {i \in DOMAIN all : all[i].name = n}
    <2>1. s \in SUBSET (1 .. Len(all)) /\ s # {}
        BY <1>4
    <2>2. Greatest(s) \in s /\ \A i \in s : Greatest(s) >= i
        BY <1>4, <2>1, GreatestOf
    <2>3. Greatest(s) \in DOMAIN all /\ LastNamed(n, Greatest(s))
        <3>1. Greatest(s) \in 1 .. Len(all) /\ all[Greatest(s)].name = n
            BY <1>4, <2>2
        <3>2. ASSUME NEW j \in DOMAIN all, all[j].name = n
              PROVE  j <= Greatest(s)
            <4>1. j \in s
                BY <3>2
            <4>2. Greatest(s) >= j
                BY <2>2, <4>1
            <4> HIDE DEF s
            <4>3. QED
                BY <1>4, <3>1, <4>2
        <3> HIDE DEF s
        <3>3. QED
            BY <1>4, <3>1, <3>2
    <2> HIDE DEF LastNamed
    <2>4. last(n) \in DOMAIN all /\ LastNamed(n, last(n))
        BY <2>3
    <2>5. QED
        BY <2>4 DEF LastNamed
<1> HIDE DEF last
<1>6. DOMAIN policies = names /\ \A n \in names : policies[n] = all[last(n)]
    BY <1>2
<1>7. ASSUME NEW i \in DOMAIN ts, NEW c \in Elements(ts[i].configs)
      PROVE  c.name \in DOMAIN policies
    <2>1. c \in Elements(all)
        BY <1>1, <1>3
    <2>2. PICK j \in DOMAIN all : c = all[j]
        BY <2>1 DEF Elements
    <2>3. QED
        BY <1>6, <2>2
<1>8. ASSUME NEW n \in DOMAIN policies
      PROVE  policies[n].name = n /\ \E i \in DOMAIN ts : policies[n] \in Elements(ts[i].configs)
    <2>1. n \in names
        BY <1>6
    <2>2. /\ policies[n].name = n
          /\ policies[n] = all[last(n)] /\ last(n) \in DOMAIN all
        BY <1>5, <1>6, <2>1
    <2>3. policies[n] \in Elements(all)
        BY <2>2 DEF Elements
    <2>4. QED
        BY <1>1, <1>3, <2>2, <2>3
<1>9. QED
    BY <1>7, <1>8 DEF policies

(* doctor fails a credential only if it does not authenticate.              *)
LEMMA CredentialsAre ==
    ASSUME NEW server, NEW vault
    PROVE  LET status == Claude!CredentialStatus(server, vault) IN
           /\ status = "failed" =>
                 vault.answers /\ ~ Claude!Authenticates(server, vault)
           /\ status = "ok" => Claude!Authenticates(server, vault)
BY DEF Claude!CredentialStatus, Claude!Authenticates, Claude!Expired

(* What the report can say a check is about.                                *)
LEMMA ReportIs ==
    ASSUME NEW job, NEW c \in Claude!BuildReport(job)
    PROVE  \/ \E v \in DOMAIN job.env :
                 c = Claude!Check("environment", v, IF job.env[v] THEN "ok" ELSE "failed")
           \/ c = Claude!Check("remote", job.desired.addr, "unknown")
           \/ job.answers /\ \E s : c = Claude!Check("remote", job.desired.addr, s)
           \/ /\ job.answers
              /\ \E s \in DOMAIN job.desired.servers :
                    c = Claude!Check("credential", s,
                           IF job.desired.servers[s].auth = None THEN "ok"
                           ELSE Claude!CredentialStatus(job.desired.servers[s], job.vault))
           \/ job.answers /\ \E n, s : c = Claude!Check("tool_permission", n, s)
<1>1. CASE c \in Claude!EnvironmentChecks(job.env)
    BY <1>1 DEF Claude!EnvironmentChecks
<1>2. CASE c \in Claude!ResourceChecks(job)
    <2>1. CASE c \in Claude!ProviderChecks(job.desired, job.remote, job.vault) /\ job.answers
        <3>1. CASE c \in Claude!CredentialChecks(job.desired.servers, job.vault)
            BY <2>1, <3>1 DEF Claude!CredentialChecks
        <3>2. CASE c \in Claude!PermissionChecks(job.desired, job.remote)
            BY <2>1, <3>2 DEF Claude!PermissionChecks
        <3>3. QED
            BY <2>1, <3>1, <3>2 DEF Claude!ProviderChecks
    <2>2. QED
        BY <1>2, <2>1 DEF Claude!ResourceChecks
<1>3. QED
    BY <1>1, <1>2 DEF Claude!BuildReport

(* No failure without an answer: for every job whatever.                    *)
LEMMA FailuresEstablished ==
    FailureIsEstablished
<1> DEFINE job == case.job
<1> SUFFICES ASSUME case.kind = "job", NEW c \in Claude!BuildReport(job), c.status = "failed"
             PROVE  \/ c.kind = "environment" /\ ~ job.env[c.subject]
                    \/ c.kind \in {"remote", "tool_permission"} /\ job.answers
                    \/ /\ c.kind = "credential"
                       /\ job.answers /\ job.vault.answers
                       /\ ~ Claude!Authenticates(job.desired.servers[c.subject], job.vault)
    BY DEF FailureIsEstablished
<1> HIDE DEF job
<1>1. CASE \E v \in DOMAIN job.env :
              c = Claude!Check("environment", v, IF job.env[v] THEN "ok" ELSE "failed")
    BY <1>1 DEF Claude!Check
<1>2. CASE c = Claude!Check("remote", job.desired.addr, "unknown")
    BY <1>2 DEF Claude!Check
<1>3. CASE job.answers /\ \E s : c = Claude!Check("remote", job.desired.addr, s)
    BY <1>3 DEF Claude!Check
<1>4. CASE /\ job.answers
           /\ \E s \in DOMAIN job.desired.servers :
                 c = Claude!Check("credential", s,
                        IF job.desired.servers[s].auth = None THEN "ok"
                        ELSE Claude!CredentialStatus(job.desired.servers[s], job.vault))
    <2>1. PICK s \in DOMAIN job.desired.servers :
                 c = Claude!Check("credential", s,
                        IF job.desired.servers[s].auth = None THEN "ok"
                        ELSE Claude!CredentialStatus(job.desired.servers[s], job.vault))
        BY <1>4
    <2>2. /\ c.kind = "credential" /\ c.subject = s
          /\ Claude!CredentialStatus(job.desired.servers[s], job.vault) = "failed"
        BY <2>1 DEF Claude!Check
    <2>3. QED
        BY <1>4, <2>2, CredentialsAre
<1>5. CASE job.answers /\ \E n, s : c = Claude!Check("tool_permission", n, s)
    BY <1>5 DEF Claude!Check
<1>6. QED
    BY <1>1, <1>2, <1>3, <1>4, <1>5, ReportIs

(* The spec lists every declared tool, under its name.                      *)
LEMMA SpecPolicies ==
    ASSUME NEW d, NEW B, d.tools \in Seq(B), Claude!NamesDistinct(d), NEW k \in DOMAIN d.tools
    PROVE  LET want == Claude!DeclaredToolPolicies(Claude!SpecTools(d))
               n == d.tools[k].tool
           IN  n \in DOMAIN want /\ want[n] = Claude!EnabledTool(d, d.tools[k])
<1> DEFINE ts == Claude!SpecTools(d)
           gs == Claude!Groups(d.tools)
           want == Claude!DeclaredToolPolicies(ts)
           F == {SpecToolset(d, g) : g \in {Claude!ServerOf(t) : t \in B}}
           C == {Claude!EnabledTool(d, t) : t \in B}
           t == d.tools[k]
           n == t.tool
<1>1. /\ DOMAIN ts = DOMAIN gs
      /\ \A i \in DOMAIN gs : ts[i] = SpecToolset(d, gs[i])
      /\ ts = [i \in DOMAIN gs |-> SpecToolset(d, gs[i])]
    BY SpecToolsAre
<1>2. ASSUME NEW g
      PROVE  /\ SpecToolset(d, g).configs \in Seq(C)
             /\ \A c : c \in Elements(SpecToolset(d, g).configs) <=>
                          \E i \in DOMAIN d.tools : /\ c = Claude!EnabledTool(d, d.tools[i])
                                                    /\ Claude!ServerOf(d.tools[i]) = g
    <2> DEFINE ms == Claude!Members(d.tools, g)
               cs == SpecToolset(d, g).configs
    <2>1. /\ ms \in Seq(B)
          /\ \A u : u \in Elements(ms) <=>
                       \E i \in DOMAIN d.tools : d.tools[i] = u /\ Claude!ServerOf(u) = g
        BY MembersAre
    <2>2. cs = [i \in DOMAIN ms |-> Claude!EnabledTool(d, ms[i])]
        BY DEF SpecToolset, Toolset, SpecConfigs, Config, ToolPermission, Claude!EnabledTool
    <2> HIDE DEF ms, cs
    <2>3. cs \in Seq(C)
        BY <2>1, <2>2
    <2>4. \A c : c \in Elements(cs) <=> \E u \in Elements(ms) : c = Claude!EnabledTool(d, u)
        BY <2>2 DEF Elements
    <2>5. QED
        BY <2>1, <2>3, <2>4 DEF cs
<1>3. /\ gs \in Seq({Claude!ServerOf(u) : u \in B})
      /\ Elements(gs) = {Claude!ServerOf(d.tools[i]) : i \in DOMAIN d.tools}
    BY GroupsAre
<1> DEFINE G == {Claude!ServerOf(u) : u \in B}
<1>4. ts \in Seq(F)
    <2>1. gs \in Seq(G) /\ ts = [i \in DOMAIN gs |-> SpecToolset(d, gs[i])]
        BY <1>1, <1>3
    <2> HIDE DEF gs, ts, G
    <2>2. \A i \in 1 .. Len(gs) : SpecToolset(d, gs[i]) \in {SpecToolset(d, g) : g \in G}
        BY <2>1
    <2>3. QED
        BY <2>1, <2>2 DEF G
<1>5. \A u \in F : u.configs \in Seq(C)
    BY <1>2
<1> HIDE DEF ts, gs, F, C, want
<1>6. /\ \A i \in DOMAIN ts : \A c \in Elements(ts[i].configs) : c.name \in DOMAIN want
      /\ \A m \in DOMAIN want :
            want[m].name = m /\ \E i \in DOMAIN ts : want[m] \in Elements(ts[i].configs)
    BY <1>4, <1>5, PoliciesAre DEF want
<1>7. \A u : Claude!EnabledTool(d, u).name = u.tool
    BY DEF Claude!EnabledTool
<1>8. n \in DOMAIN want
    <2>1. PICK i \in DOMAIN gs : gs[i] = Claude!ServerOf(t)
        BY <1>3 DEF Elements
    <2>2. Claude!EnabledTool(d, t) \in Elements(ts[i].configs)
        BY <1>1, <1>2, <2>1
    <2>3. QED
        BY <1>1, <1>6, <1>7, <2>1, <2>2
<1>9. want[n] = Claude!EnabledTool(d, t)
    <2>1. PICK i \in DOMAIN ts : want[n] \in Elements(ts[i].configs)
        BY <1>6, <1>8
    <2>2. PICK j \in DOMAIN d.tools : want[n] = Claude!EnabledTool(d, d.tools[j])
        BY <1>1, <1>2, <2>1
    <2>3. d.tools[j].tool = t.tool
        BY <1>6, <1>7, <1>8, <2>2
    <2>4. j = k
        BY <2>3 DEF Claude!NamesDistinct
    <2>5. QED
        BY <2>2, <2>4
<1>10. QED
    BY <1>8, <1>9 DEF want, ts

(* A tool without a failed check can be called as it is declared.           *)
LEMMA CheckedGranted ==
    ASSUME NEW d, NEW B, d.tools \in Seq(B), Claude!NamesDistinct(d), IsClosure(d),
           NEW C, \A c \in C : IsConfig(c) /\ c.enabled \in BOOLEAN,
           NEW F, \A t \in F : t.configs \in Seq(C),
           NEW r, r.tools \in Seq(F), Claude!NamesPlaced(d, r),
           \A c \in Claude!PermissionChecks(d, r) : c.status = "ok",
           NEW k \in DOMAIN d.tools
    PROVE  Claude!Granted(d, r, d.tools[k])
<1> DEFINE want == Claude!DeclaredToolPolicies(Claude!SpecTools(d))
           got == Claude!DeclaredToolPolicies(r.tools)
           t == d.tools[k]
           n == t.tool
           e == Claude!EnabledTool(d, t)
<1>1. n \in DOMAIN want /\ want[n] = e
    BY SpecPolicies
<1>2. Claude!NormalizeDesired(d).tools = Claude!SpecTools(d)
    BY DEF Claude!NormalizeDesired, Claude!IsNormalized, Claude!NormalizeSpec, IsClosure
<1>3. Claude!PermissionChecks(d, r) =
         {Claude!Check("tool_permission", m, Claude!PermissionStatus(want, got, m)) : m \in DOMAIN want}
    BY <1>2 DEF Claude!PermissionChecks
<1> HIDE DEF want, got
<1>4. n \in DOMAIN got /\ got[n].enabled /\ got[n].policy = e.policy
    <2>1. Claude!Check("tool_permission", n, Claude!PermissionStatus(want, got, n)).status = "ok"
        BY <1>1, <1>3
    <2>2. Claude!PermissionStatus(want, got, n) = "ok"
        BY <2>1 DEF Claude!Check
    <2>3. QED
        BY <1>1, <2>2 DEF Claude!PermissionStatus
<1>5. got[n].name = n /\ \E i \in DOMAIN r.tools : got[n] \in Elements(r.tools[i].configs)
    BY <1>4, PoliciesAre DEF got
<1>6. PICK i \in DOMAIN r.tools : got[n] \in Elements(r.tools[i].configs)
    BY <1>5
<1>7. r.tools[i].configs \in Seq(C) /\ r.tools[i].server = Claude!ServerOf(t)
    <2>1. r.tools[i] \in F
        OBVIOUS
    <2>2. got[n] \in Elements(r.tools[i].configs) => r.tools[i].server = Claude!ServerOf(t)
        BY <1>5 DEF Claude!NamesPlaced, Elements
    <2>3. QED
        BY <1>6, <2>1, <2>2
<1>8. got[n] \in C
    BY <1>6, <1>7 DEF Elements
<1>9. got[n] = e
    <2>1. got[n] = Config(n, TRUE, e.policy)
        BY <1>4, <1>5, <1>8 DEF IsConfig
    <2>2. e = Config(n, TRUE, e.policy)
        BY DEF Claude!EnabledTool, Config
    <2>3. QED
        BY <2>1, <2>2
<1>10. PICK j \in DOMAIN r.tools[i].configs : r.tools[i].configs[j] = e
    BY <1>6, <1>9 DEF Elements
<1>11. QED
    BY <1>7, <1>10 DEF Claude!Granted

(* doctor tells the truth: it says ready only if it is so, and reports a    *)
(* failure only where somebody answered, for every agent a Claude target    *)
(* can express, every vault and environment, and every answer of the        *)
(* platform; ready is so when the names of the tools tell them apart        *)
(* (doctor.go, check.go).                                                   *)
THEOREM AnyReportIsTruthful ==
    ASSUME NEW B, NEW C, \A c \in C : IsConfig(c) /\ c.enabled \in BOOLEAN,
           NEW F, \A t \in F : t.configs \in Seq(C),
           case.kind = "job" =>
               /\ IsClosure(case.job.desired)
               /\ case.job.desired.tools \in Seq(B)
               /\ case.job.remote # None => case.job.remote.tools \in Seq(F)
    PROVE  DoctorTruthful
<1> DEFINE job == case.job
           d == job.desired
           r == job.remote
<1>1. ASSUME case.kind = "job", Claude!NamesDistinct(d), r # None => Claude!NamesPlaced(d, r),
             Claude!Ready(Claude!BuildReport(job))
      PROVE  Claude!Serves(job)
    <2>1. \A c \in Claude!BuildReport(job) : c.status = "ok"
        BY <1>1 DEF Claude!Ready
    <2>2. /\ IsClosure(d) /\ d.tools \in Seq(B)
          /\ r # None => r.tools \in Seq(F) /\ Claude!NamesPlaced(d, r)
        BY <1>1
    <2> HIDE DEF job
    <2>3. ASSUME NEW v \in DOMAIN job.env
          PROVE  job.env[v]
        <3> DEFINE c == Claude!Check("environment", v, IF job.env[v] THEN "ok" ELSE "failed")
        <3>1. c \in Claude!BuildReport(job)
            BY DEF Claude!BuildReport, Claude!EnvironmentChecks
        <3>2. c.status = (IF job.env[v] THEN "ok" ELSE "failed")
            BY DEF Claude!Check
        <3> HIDE DEF c
        <3>3. QED
            BY <2>1, <3>1, <3>2
    <2>4. ASSUME job.tracked
          PROVE  /\ r # None
                 /\ \A c \in Claude!ProviderChecks(d, r, job.vault) : c.status = "ok"
        <3>1. \A c \in Claude!ResourceChecks(job) : c.status = "ok"
            BY <2>1 DEF Claude!BuildReport
        <3>2. \A s : Claude!Check("remote", d.addr, s).status = s
            BY DEF Claude!Check
        <3>3. job.answers
            BY <2>4, <3>1, <3>2 DEF Claude!ResourceChecks
        <3>4. job.remote # None
            BY <2>4, <3>1, <3>2, <3>3 DEF Claude!ResourceChecks
        <3>5. QED
            BY <2>4, <3>1, <3>3, <3>4 DEF Claude!ResourceChecks
    <2>5. ASSUME job.tracked, NEW k \in DOMAIN d.tools
          PROVE  Claude!Granted(d, r, d.tools[k])
        <3>1. \A c \in Claude!PermissionChecks(d, r) : c.status = "ok"
            BY <2>4, <2>5 DEF Claude!ProviderChecks
        <3>2. r.tools \in Seq(F) /\ Claude!NamesPlaced(d, r)
            BY <2>2, <2>4, <2>5
        <3> HIDE DEF d, r
        <3>3. QED
            BY <1>1, <2>2, <3>1, <3>2, CheckedGranted
    <2>6. ASSUME job.tracked, NEW s \in DOMAIN d.servers
          PROVE  d.servers[s].auth = None \/ Claude!Authenticates(d.servers[s], job.vault)
        <3> DEFINE c == Claude!Check("credential", s,
                           IF d.servers[s].auth = None THEN "ok"
                           ELSE Claude!CredentialStatus(d.servers[s], job.vault))
        <3>1. c \in Claude!ProviderChecks(d, r, job.vault)
            BY DEF Claude!ProviderChecks, Claude!CredentialChecks
        <3>2. c.status = (IF d.servers[s].auth = None THEN "ok"
                          ELSE Claude!CredentialStatus(d.servers[s], job.vault))
            BY DEF Claude!Check
        <3> HIDE DEF c
        <3>3. c.status = "ok"
            BY <2>4, <2>6, <3>1
        <3>4. QED
            BY <3>2, <3>3, CredentialsAre
    <2>7. QED
        BY <2>3, <2>4, <2>5, <2>6 DEF Claude!Serves
<1>2. ReadyIsTrue
    BY <1>1 DEF ReadyIsTrue
<1>3. QED
    BY <1>2, FailuresEstablished DEF DoctorTruthful
=============================================================================
