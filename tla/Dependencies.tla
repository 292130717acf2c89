---------------------------- MODULE Dependencies ----------------------------
(***************************************************************************)
(* What a dependency order has to achieve. D[x] is the set of addresses    *)
(* that x depends on; only those in S count.                               *)
(***************************************************************************)
EXTENDS Naturals, Sequences

(* No set of addresses in which each depends on another of the set. *)
Acyclic(S, D) ==
    \A X \in SUBSET S : X # {} => \E x \in X : D[x] \cap X = {}

(* s lists every address after those it depends on, unless they are part of *)
(* a circle that is listed between the two.                                 *)
DependenciesFirst(D, s) ==
    \A i, j \in 1 .. Len(s) :
        i <= j /\ s[j] \in D[s[i]] => ~Acyclic({s[k] : k \in i .. j}, D)

(* s lists each address of S once. *)
Lists(S, s) ==
    /\ {s[i] : i \in 1 .. Len(s)} = S
    /\ \A i, j \in 1 .. Len(s) : s[i] = s[j] => i = j
=============================================================================
