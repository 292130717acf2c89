---------------------------- MODULE MCReconcile ----------------------------
(* Instances of Reconcile for TLC. *)
EXTENDS Reconcile, TLC

CONSTANTS p1, p2, old, new, bad

Order == INSTANCE DepOrder

DepthFirst(S, D) == Order!PostOrder(S, D)

(* A module of agents 1 and 2. *)
Two(agents, c1, c2, d1, d2) ==
    [agents |-> agents, cfg |-> <<c1, c2>>, deps |-> <<d1, d2>>]

(* Agent 2 depends on agent 1; or agent 1 is no longer declared; or agent 2 *)
(* cannot be expressed.                                                     *)
Base == Two({1, 2}, old, old, {}, {1})
OneLeft == Two({2}, old, new, {}, {})
Unfit == Two({1, 2}, new, bad, {}, {1})

TwoAddrs == {1, 2}
AllModules == {Base, OneLeft, Unfit}

ProcSymmetry == Permutations(Proc)
=============================================================================
