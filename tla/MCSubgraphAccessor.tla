------------------------ MODULE MCSubgraphAccessor ------------------------
(* SubgraphAccessor over a database of two vertices and two edges, with    *)
(* room for one more vertex and one more edge, for TLC.                    *)
EXTENDS SubgraphAccessor

CONSTANTS v1, v2, v3, e1, e2, e3

MCVertices == {v1, v2, v3}
MCEdges == {e1, e2, e3}

\* e1 goes from v1 to v2 and e2 is a self-loop on v2, so a projection of one
\* vertex, or of v2 and e2, leaves edges of its vertices outside graph_.
MCInitLive == {v1, v2}
MCInitFrom == (e1 :> v1) @@ (e2 :> v2) @@ (e3 :> NoVertex)
MCInitTo == (e1 :> v2) @@ (e2 :> v2) @@ (e3 :> NoVertex)

=============================================================================
