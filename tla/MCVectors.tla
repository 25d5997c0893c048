----------------------------- MODULE MCVectors -----------------------------
\* A small instance of Vectors.
EXTENDS Vectors, TLC

CONSTANTS m1, m2, f1, i1
Alike == Permutations({m1, m2})

\* Two memories alone, or a note or an image beside a memory yet to come.
Small == {
    [stores |-> {"memory"}, things |-> {m1, m2}],
    [stores |-> {"memory", "conversation"}, things |-> {f1}],
    [stores |-> {"memory", "media"}, things |-> {i1}]}

=============================================================================
