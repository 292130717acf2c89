----------------------------- MODULE MCOwnership -----------------------------
(* Instances of Ownership for TLC. *)
EXTENDS Ownership, TLC

CONSTANTS claude, memory, other, official, builtin, rival

TwoTargets == {claude, memory}
TwoInOrder == claude :> 1 @@ memory :> 2
TwoLegacy == claude :> official @@ memory :> builtin

OtherTargets == {memory, other}
OtherInOrder == memory :> 1 @@ other :> 2
OtherLegacy == memory :> builtin @@ other :> rival

ProcSymmetry == Permutations(Proc)
=============================================================================
