--------------------------- MODULE MCPluginInstall ---------------------------
(* Two modules of one user that share a plugin, one of which needs a second *)
(* plugin too. A lock may have been committed elsewhere, or spoilt there.   *)
EXTENDS PluginInstall, TLC

CONSTANTS eve, py, m1, m2

MCModules == {m1, m2}
MCPlugins == {eve, py}
MCRank == eve :> 1 @@ py :> 2
MCVersion == {1, 2}
MCConstraints == {{1}, {1, 2}}
MCOptions == {{}, {"upgrade"}, {"offline"}, {"frozen"}}
MCCommands == Permutations(Commands)

Pinned(constraint, version, sum) ==
    [constraint |-> constraint, version |-> version, sum |-> sum]

(* No lock; a full one; one whose second entry names no archive for this    *)
(* platform; one that does not parse.                                       *)
InitialLocks == {Absent, Unreadable} \cup
    {eve :> Pinned({1, 2}, 1, 1) @@ py :> Pinned({1}, 1, sum) : sum \in {1, Absent}}

Empty == [archive |-> Absent, exe |-> Absent]

MCInit ==
    /\ requires = m1 :> (eve :> {1, 2} @@ py :> {1}) @@ m2 :> (eve :> {1, 2} @@ py :> NotRequired)
    /\ lock \in {m1 :> l @@ m2 :> Absent : l \in InitialLocks}
    /\ \E files \in {Empty, [archive |-> 1, exe |-> Damaged], [archive |-> 2, exe |-> 2]} :
          /\ cache = eve :> (1 :> files @@ 2 :> Empty) @@ py :> (1 :> Empty @@ 2 :> Empty)
          /\ published = eve :> (1 :> (IF files.archive = 2 THEN 2 ELSE 1)
                                   @@ 2 :> (IF files.archive = 1 THEN Bare ELSE 1))
                           @@ py :> (1 :> 1 @@ 2 :> Absent)
    /\ Init

MCSpec == MCInit /\ [][Next]_vars
=============================================================================
