------------------------------- MODULE MCSync -------------------------------
(***************************************************************************)
(* Histories that two clients and a server hold parts of.                  *)
(***************************************************************************)
EXTENDS Sync, TLC

CONSTANTS server, k1, k2, main, topic, r0, sa, sb, sc, sm, sn, v1

\* sb and sc fork off sa; sm merges them; sn follows.
AllParents == (r0 :> <<>>) @@ (sa :> <<r0>>) @@ (sb :> <<sa>>) @@ (sc :> <<sa>>)
              @@ (sm :> <<sc, sb>>) @@ (sn :> <<sm>>)
MCParents == [s \in State |-> AllParents[s]]

\* sm merges sc, two commits from sa, with sn, one commit from sa: the walk from sm
\* meets sa before sb.
UnevenParents == (r0 :> <<>>) @@ (sa :> <<r0>>) @@ (sb :> <<sa>>) @@ (sc :> <<sb>>)
                 @@ (sn :> <<sa>>) @@ (sm :> <<sn, sc>>)

MCBlobs   == (r0 :> {}) @@ (sa :> {"x"}) @@ (sb :> {"x", "y"}) @@ (sc :> {"x"})
             @@ (sm :> {"x", "y"}) @@ (sn :> {"y"})

Heads(tip, other) == [ref \in Branch |-> IF ref = main THEN tip ELSE other]
Holding(states, tip, other) == [holds |-> states, heads |-> Heads(tip, other)]
Nothing == Holding({}, NoState, NoState)

Starting(forServer, inServer, forK1, inK1, forK2, inK2) ==
    [uses  |-> (server :> forServer) @@ (k1 :> forK1) @@ (k2 :> forK2),
     holds |-> (server :> inServer.holds) @@ (k1 :> inK1.holds) @@ (k2 :> inK2.holds),
     heads |-> (server :> inServer.heads) @@ (k1 :> inK1.heads) @@ (k2 :> inK2.heads)]

AtA  == Holding({r0, sa}, sa, NoState)
Past4 == {r0, sa, sb, sc, sm}

\* Two clients work on one branch, and pull each other's work.  Here as below they push
\* without --no-verify, which loses the lock whether a hook is installed or not.
Sharing == Starting({"serve"}, AtA, {"push", "verify", "fetch", "merge", "commit"}, AtA,
                    {"push", "verify", "fetch", "merge", "commit"}, AtA)

\* One of them forces, and moves its branches beside its push.
Forcing == Starting({"serve"}, AtA, {"push", "force", "verify", "branch", "commit"},
                    Holding({r0, sa, sb}, sb, sa),
                    {"push", "verify"}, Holding({r0, sa, sc}, sc, NoState))

\* Tags, over ssh, beside a user of the server.
Tagging == Starting({"ssh", "tag"}, AtA,
                    {"push", "verify", "tag", "fetch", "commit"}, AtA, {}, Nothing)

\* A clone, of a server on which states become unreachable.
Cloning == Starting({"serve", "gc", "branch"}, Holding(Past4, sm, sb), {}, Nothing,
                    {"clone", "fetch", "gc"}, Nothing)

\* Fetches that are limited, then deepened.
Shallow == Starting({"serve", "commit"}, Holding(Past4, sm, sc), {}, Nothing,
                    {"clone", "fetch", "depth"}, Nothing)

\* A push of an uneven merge, and one of the branch that it merged.
Uneven == Starting({"serve"}, Holding({r0}, r0, NoState),
                   {"push", "verify"}, Holding(State, sm, sc), {}, Nothing)

UnevenStart == {Uneven}
MCStarts == {Sharing, Forcing, Tagging, Cloning, Shallow}
=============================================================================
