------------------------------ MODULE MCPlanWalk ------------------------------
(***************************************************************************)
(* An instance of PlanWalk for TLC.  Lists 1 (the root), 2, 3 and 8 nest;  *)
(* 4 and 5 are images; 6 is a referrer and an image, 7 a referrer and a    *)
(* list, which can be below the root as well, with an entry for "q".  6    *)
(* can have a referrer of its own, 9, and can be the referrer of 7.  2, 3, *)
(* 4 and 5 can be met along several paths, and 8 is deeper than MaxDepth   *)
(* along one of them.                                                      *)
(***************************************************************************)
EXTENDS PlanWalk

MCBlobsOf == [m \in {4, 5, 6, 9} |-> CASE m = 4 -> {"a", "shared"}
                                    [] m = 5 -> {"b", "shared"}
                                    [] m = 6 -> {"r"}
                                    [] m = 9 -> {"s"}]

Entries(manifests, platforms) == [to : manifests, platform : platforms]

Lists(manifests, platforms) ==
  {s \in SUBSET Entries(manifests, platforms) :
     \A d, e \in s : d.to = e.to => d.platform = e.platform}

MCGraphs ==
  {[children |-> [i \in {1, 2, 3, 7, 8} |-> CASE i = 1 -> first [] i = 2 -> second
                                           [] i = 3 -> Entries({third}, {"p"})
                                           [] i = 7 -> Entries({5}, {"q"})
                                           [] i = 8 -> Entries({5}, {"p"})],
    referrers |-> [m \in 1 .. 9 |-> CASE m = 1 -> ofRoot [] m = 4 -> ofImage
                                     [] m = 6 -> ofReferrer [] m = 7 -> {6} [] OTHER -> {}]] :
     first \in Lists({2, 3, 4}, {"p", Null}),
     second \in Lists({3, 4}, {"p"}),
     third \in {5, 7, 8},
     ofRoot \in SUBSET {6, 7},
     ofImage \in SUBSET {6}, ofReferrer \in SUBSET {9}}

=============================================================================
