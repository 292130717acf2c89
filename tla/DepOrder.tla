------------------------------ MODULE DepOrder ------------------------------
(***************************************************************************)
(* The order in which Kastor visits addresses that depend on one another.  *)
(* Both users of an order walk the dependencies depth first and list an    *)
(* address when all it depends on has been listed:                         *)
(*   - graph.sortTopologically, over the blocks of a module;               *)
(*   - provider.reverseDependencyOrder, over tracked resources, with the   *)
(*     dependencies the state file recorded, the list then being reversed. *)
(* An address is a natural number; < on addresses stands for the           *)
(* lexicographic order of the code's strings.                              *)
(*                                                                         *)
(* The walk is written with an explicit stack and unrolled by a recursive  *)
(* function of the number of steps taken.                                  *)
(***************************************************************************)
EXTENDS Naturals, Sequences, SequencesExt, FiniteSets

Least(S) == CHOOSE x \in S : \A y \in S : x <= y

(* The loop state before the first root is visited. *)
WalkStart == [visited |-> {}, stack |-> <<>>, order |-> <<>>]

(* Enter an address: mark it visited and start going through its dependencies. *)
WalkEnter(w, x) ==
    [visited |-> w.visited \cup {x}, stack |-> Append(w.stack, x), order |-> w.order]

(* All dependencies of the address on top of the stack were visited: list it. *)
WalkLeave(w) ==
    [visited |-> w.visited, stack |-> Front(w.stack),
     order |-> Append(w.order, Last(w.stack))]

(* One step of the walk over the addresses S, where D[x] are the            *)
(* dependencies of x: descend into the first unvisited dependency in S,     *)
(* leave when there is none, and take the first unvisited root when the     *)
(* stack is empty.                                                          *)
WalkStep(S, D, w) ==
    LET below == (D[Last(w.stack)] \cap S) \ w.visited
        roots == S \ w.visited
    IN  IF w.stack # <<>>
        THEN IF below # {} THEN WalkEnter(w, Least(below)) ELSE WalkLeave(w)
        ELSE IF roots # {} THEN WalkEnter(w, Least(roots)) ELSE w

(* Every address is entered once and left once, so 2 * |S| steps list S. *)
PostOrder(S, D) ==
    LET walk[n \in Nat] ==
            IF n = 0 THEN WalkStart ELSE WalkStep(S, D, walk[n - 1])
    IN  walk[2 * Cardinality(S)].order

(* Mutant: the path is reported from the root of the walk on. *)
ClosedFromRoot(D, path) ==
    IF path # <<>> /\ D[Last(path)] \cap Range(path) # {} THEN {path} ELSE {}

(* The cycles closed by an edge from the last address of a path back to one *)
(* on the path.                                                             *)
CyclesClosed(D, path) ==
    {SubSeq(path, i, Len(path)) :
        i \in {k \in DOMAIN path : path[k] \in D[Last(path)]}}

(* Every cycle found on the walk is reported. *)
Cycles(S, D) ==
    LET walk[n \in Nat] ==
            IF n = 0 THEN WalkStart ELSE WalkStep(S, D, walk[n - 1])
    IN  UNION {CyclesClosed(D, walk[n].stack) : n \in 0 .. (2 * Cardinality(S))}
=============================================================================
