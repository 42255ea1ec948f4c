-------------------------- MODULE SubgraphAccessor --------------------------
(***************************************************************************)
(* query::SubgraphDbAccessor of src/query/db_accessor.cpp over the         *)
(* projected query::Graph of src/query/graph.hpp.  The accessor forwards   *)
(* every write to the transaction's DbAccessor and, when that succeeds,    *)
(* mirrors it into graph_, the projection; reads filter the database by    *)
(* graph_.  A call is one step: a transaction's accessor is used by one    *)
(* thread.                                                                 *)
(*                                                                         *)
(* The storage below DbAccessor and Graph's member functions other than    *)
(* Expand and OutEdges are not in the repository; they are modelled by     *)
(* their contracts: a write may fail with an error (a serialization        *)
(* conflict with another transaction), DeleteVertex refuses a vertex that  *)
(* still has edges, and the Graph members insert into, erase from and test *)
(* its two unordered sets.                                                 *)
(***************************************************************************)
EXTENDS FiniteSets, Functions, TLC

CONSTANTS
    Vertices,   \* vertex gids
    Edges,      \* edge gids
    NoVertex,   \* endpoint of an edge that was never created
    InitLive,   \* the vertices of the database when the accessor is made
    InitFrom,   \* the edges of the database then: their from and to
    InitTo

ASSUME /\ NoVertex \notin Vertices
       /\ InitLive \subseteq Vertices
       /\ InitFrom \in [Edges -> InitLive \cup {NoVertex}]
       /\ InitTo \in [Edges -> InitLive \cup {NoVertex}]

VARIABLES
    vstate,     \* storage: vertex gid -> "none", "live" or "deleted"
    estate,     \* storage: edge gid -> "none", "live" or "deleted"
    from,       \* storage: the from vertex of every edge
    to,         \* storage: the to vertex of every edge
    gv,         \* graph_->vertices_
    ge,         \* graph_->edges_: each EdgeAccessor kept, with the
                \* <<from, to>> it cached when it was made
    outcome     \* what the last call returned or threw

vars == <<vstate, estate, from, to, gv, ge, outcome>>
dbVars == <<vstate, estate, from, to>>
graphVars == <<gv, ge>>

Outcomes == {"ok", "nullopt", "error", "logic_error"}

-----------------------------------------------------------------------------
(* query::Graph: vertices_ and edges_, as sets.  An EdgeAccessor equals    *)
(* another of the same edge (InMemoryEdgeAccessor::operator== compares     *)
(* edge_ only) but keeps the from_vertex_ it was made with.                *)

ContainsVertex(v) == v \in gv
ContainsEdge(e) == e \in DOMAIN ge

\* unordered_set::insert keeps the element already there.
InsertGraphEdges(new) == ge' = ge @@ new

EraseGraphEdge(x) == ge' = Restrict(ge, DOMAIN ge \ {x})

\* Graph::OutEdges: the kept edges whose cached From() is the vertex.
GraphOutEdges(v) == {e \in DOMAIN ge : ge[e][1] = v}

\* Graph::Expand: the vertices and edges of a path go into the sets.  A
\* path of the query is a vertex, or two vertices and an edge between them
\* in either direction, all in the database.
PathsOfDb ==
    { [vs |-> {v}, es |-> {}] : v \in {u \in Vertices : vstate[u] = "live"} }
    \cup { [vs |-> {from[e], to[e]}, es |-> {e}] : e \in {x \in Edges : estate[x] = "live"} }

Expand(path) ==
    /\ gv' = gv \cup path.vs
    /\ InsertGraphEdges([e \in path.es |-> <<from[e], to[e]>>])
    /\ outcome' = "ok"
    /\ UNCHANGED dbVars

-----------------------------------------------------------------------------
(* The storage under DbAccessor.  Every write may fail with an error; one  *)
(* that succeeds changes the database as the name says.                    *)

Live(v) == vstate[v] = "live"
HasEdges(v) == \E e \in Edges : estate[e] = "live" /\ (from[e] = v \/ to[e] = v)

-----------------------------------------------------------------------------
(* SubgraphDbAccessor.                                                     *)

\* The logic_error every write throws for an element outside graph_.
Throw == outcome' = "logic_error" /\ UNCHANGED <<dbVars, graphVars>>

\* A write the storage refuses: the result is returned, graph_ untouched.
DbError == outcome' = "error" /\ UNCHANGED <<dbVars, graphVars>>

\* Mutant: the edge leaves graph_ also when the storage refused to delete it.
RemoveEdgeIgnoringError(e) ==
    \/ ~ContainsEdge(e) /\ Throw
    \/ ContainsEdge(e) /\ outcome' = "error" /\ EraseGraphEdge(e) /\ UNCHANGED <<dbVars, gv>>
    \/ /\ ContainsEdge(e) /\ estate[e] = "live"
       /\ estate' = [estate EXCEPT ![e] = "deleted"]
       /\ EraseGraphEdge(e)
       /\ outcome' = "ok"
       /\ UNCHANGED <<vstate, from, to, gv>>

\* RemoveEdge: throw unless graph_ holds the edge; DbAccessor::RemoveEdge;
\* on an error or nullopt return it, else erase the edge from graph_.
RemoveEdge(e) ==
    \/ ~ContainsEdge(e) /\ Throw
    \/ ContainsEdge(e) /\ DbError
    \/ /\ ContainsEdge(e)
       /\ IF estate[e] = "live"
          THEN /\ estate' = [estate EXCEPT ![e] = "deleted"]
               /\ EraseGraphEdge(e)
               /\ outcome' = "ok"
          ELSE outcome' = "nullopt" /\ UNCHANGED <<estate, ge>>
       /\ UNCHANGED <<vstate, from, to, gv>>

\* InsertEdge: throw unless graph_ holds both vertices; DbAccessor::InsertEdge
\* makes a new edge, which graph_ then takes.
InsertEdge(v, w) ==
    \/ ~(ContainsVertex(v) /\ ContainsVertex(w)) /\ Throw
    \/ ContainsVertex(v) /\ ContainsVertex(w) /\ DbError
    \/ /\ ContainsVertex(v) /\ ContainsVertex(w)
       /\ Live(v) /\ Live(w)
       /\ \E e \in Edges :
            /\ estate[e] = "none"
            /\ estate' = [estate EXCEPT ![e] = "live"]
            /\ from' = [from EXCEPT ![e] = v]
            /\ to' = [to EXCEPT ![e] = w]
            /\ InsertGraphEdges(e :> <<v, w>>)
       /\ outcome' = "ok"
       /\ UNCHANGED <<vstate, gv>>

\* DetachRemoveVertex always throws: a vertex of graph_ may have edges
\* outside it.
DetachRemoveVertex(v) == Throw

\* ChangeEdgeFrom: throw unless graph_ holds the new from vertex; the edge
\* itself is not checked.  DbAccessor::ChangeEdgeFrom moves the edge; graph_
\* is left as it was, with the EdgeAccessor it keeps.
ChangeEdgeFrom(e, v) ==
    \/ ~ContainsVertex(v) /\ Throw
    \/ ContainsVertex(v) /\ DbError
    \/ /\ ContainsVertex(v)
       /\ estate[e] = "live" /\ Live(v)
       /\ from' = [from EXCEPT ![e] = v]
       /\ outcome' = "ok"
       /\ UNCHANGED <<vstate, estate, to, gv, ge>>

\* RemoveVertex: throw unless graph_ holds the vertex; DbAccessor::RemoveVertex
\* fails for a vertex with edges (and may fail for any vertex); on an error
\* or nullopt return it, else erase the vertex from graph_.
RemoveVertex(v) ==
    \/ ~ContainsVertex(v) /\ Throw
    \/ ContainsVertex(v) /\ DbError
    \/ /\ ContainsVertex(v) /\ ~HasEdges(v)
       /\ IF Live(v)
          THEN /\ vstate' = [vstate EXCEPT ![v] = "deleted"]
               /\ gv' = gv \ {v}
               /\ outcome' = "ok"
          ELSE outcome' = "nullopt" /\ UNCHANGED <<vstate, gv>>
       /\ UNCHANGED <<estate, from, to, ge>>

\* InsertVertex: DbAccessor::InsertVertex cannot fail; graph_ takes the new
\* vertex.
InsertVertex ==
    \E v \in Vertices :
        /\ vstate[v] = "none"
        /\ vstate' = [vstate EXCEPT ![v] = "live"]
        /\ gv' = gv \cup {v}
        /\ outcome' = "ok"
        /\ UNCHANGED <<estate, from, to, ge>>

\* Vertices: the vertices of graph_.  FindVertex: the database's vertex, if
\* graph_ holds it.
VerticesOfGraph == gv
FindVertex(v) == IF Live(v) /\ ContainsVertex(v) THEN {v} ELSE {}

\* SubgraphVertexAccessor::OutEdges and InEdges: the vertex's edges in the
\* database that graph_ holds.
OutEdges(v) == {e \in Edges : estate[e] = "live" /\ from[e] = v /\ e \in DOMAIN ge}
InEdges(v) == {e \in Edges : estate[e] = "live" /\ to[e] = v /\ e \in DOMAIN ge}

-----------------------------------------------------------------------------

Init ==
    /\ vstate = [v \in Vertices |-> IF v \in InitLive THEN "live" ELSE "none"]
    /\ estate = [e \in Edges |-> IF InitFrom[e] # NoVertex THEN "live" ELSE "none"]
    /\ from = InitFrom
    /\ to = InitTo
    /\ gv = {}
    /\ ge = [e \in {} |-> <<NoVertex, NoVertex>>]
    /\ outcome = "ok"

Next ==
    \/ \E p \in PathsOfDb : Expand(p)
    \/ \E e \in Edges : RemoveEdge(e)
    \/ \E v, w \in Vertices : InsertEdge(v, w)
    \/ \E v \in Vertices : DetachRemoveVertex(v)
    \/ \E e \in Edges, v \in Vertices : ChangeEdgeFrom(e, v)
    \/ \E v \in Vertices : RemoveVertex(v)
    \/ InsertVertex

Spec == Init /\ [][Next]_vars

-----------------------------------------------------------------------------
(* Properties.                                                             *)

\* A vertex or edge leaves graph_ only in the call that deleted it from
\* the database: RemoveEdge and RemoveVertex return the storage's error or
\* nullopt before they touch graph_, so a failed removal never hides an
\* element that the database still holds.
ProjectionShrinksWithDb ==
    [][ /\ \A v \in gv \ gv' : vstate'[v] = "deleted"
        /\ \A e \in DOMAIN ge \ DOMAIN ge' : estate'[e] = "deleted" ]_vars

\* Graph::OutEdges, which reads the From() cached in the EdgeAccessors of
\* graph_, agrees with SubgraphVertexAccessor::OutEdges, which reads the
\* database.  ChangeEdgeFrom moves an edge of graph_ in the database and
\* leaves graph_'s accessor, with the old from vertex, in place.
GraphOutEdgesAgree == \A v \in gv : GraphOutEdges(v) = OutEdges(v)

=============================================================================
