--------------------------- MODULE MCAuthentication ---------------------------
EXTENDS Authentication

CONSTANTS a, w, p1, p2, i1

MCDelegates == <<"vault", "key">>

\* Nothing, an address of a pod, and what is none.
MCHeaders == {<<>>, <<i1>>, <<i1, Garbled>>}

=============================================================================
