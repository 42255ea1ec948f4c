\* Three vertex and three edge gids: two vertices and two edges exist when
\* the projection is made empty, the third of each is created through it.
CONSTANTS
    v1 = v1
    v2 = v2
    v3 = v3
    e1 = e1
    e2 = e2
    e3 = e3
    NoVertex = NoVertex
    Vertices <- MCVertices
    Edges <- MCEdges
    InitLive <- MCInitLive
    InitFrom <- MCInitFrom
    InitTo <- MCInitTo
SPECIFICATION Spec
PROPERTY ProjectionShrinksWithDb
