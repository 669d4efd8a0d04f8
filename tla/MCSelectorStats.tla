--------------------------- MODULE MCSelectorStats ---------------------------
(* A client that asks for a selector at the time 1, a visitor that asks for *)
(* that one and for another one now, and room for two in the cache: when    *)
(* the visitor comes at the time 1 the two share a signature.               *)
EXTENDS SelectorStats, TLC
CONSTANTS r1, r2, s1, s2
MCRequests == {r1, r2}
MCSels == {s1, s2}
MCQueryOf == (r1 :> <<s1>>) @@ (r2 :> <<s1, s2>>)
MCTimeOf == (r1 :> 1) @@ (r2 :> Clock)
=============================================================================
