------------------------------ MODULE MCStore ------------------------------
(***************************************************************************)
(* A store of at most three blobs in one shard and one in another.         *)
(***************************************************************************)
EXTENDS Store, TLC

CONSTANTS r0, sa, sb, sc, main, topic

MCShard   == (1 :> 0) @@ (2 :> 0) @@ (3 :> 0) @@ (4 :> 1)
MCAlike   == {<<2, 1>>, <<3, 2>>}
MCParents == [s \in State |-> CASE s = r0 -> {} [] s = sa -> {r0} [] OTHER -> {sa}]
MCManifest == [s \in State |-> CASE s = r0 -> {} [] s = sa -> {1} [] s = sb -> {2, 3}
                                [] OTHER -> {3, 4}]
=============================================================================
