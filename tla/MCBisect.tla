------------------------------ MODULE MCBisect ------------------------------
(***************************************************************************)
(* A line of states 0 .. N, and a merge of the last one with state 1.      *)
(***************************************************************************)
EXTENDS Bisect

CONSTANTS N

MCState == 0 .. N + 1
MCParents == [s \in MCState |-> IF s = 0 THEN {} ELSE IF s > N THEN {1, N} ELSE {s - 1}]
MCFlaky == 1 .. N
=============================================================================
