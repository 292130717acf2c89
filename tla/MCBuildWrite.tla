---------------------------- MODULE MCBuildWrite ----------------------------
(* Instances of BuildWrite for TLC. *)
EXTENDS BuildWrite, TLC

CONSTANTS agent, tool, g1, g2

None == [kind |-> "none", data |-> g1]
Plain(c) == [kind |-> "plain", data |-> c]
Stub(c) == [kind |-> "stub", data |-> c]

InOrder == agent :> 1 @@ tool :> 2

(* A runtime tool whose stub changes, or which leaves the spec, in a module *)
(* whose agent changes with it.                                             *)
RuntimeSpecs ==
    {agent :> Plain(g1) @@ tool :> Stub(g1),
     agent :> Plain(g2) @@ tool :> Stub(g2),
     agent :> None @@ tool :> None}

(* The tool may also be rebound to another kind, generated at the same path. *)
Rebound == agent :> Plain(g1) @@ tool :> Plain(g2)
AllSpecs == RuntimeSpecs \cup {Rebound}
=============================================================================
