---------------------------- MODULE MCCanonical ----------------------------
\* Small instances of Canonical.
EXTENDS Canonical, TLC

CONSTANTS s1, s2, s3, kind, r1, r2

Alike == Permutations(Sources) \cup Permutations(Reviewers)

\* An id is named after a source: the three are alone, or two or all of them are
\* branches of one conversation.
EveryHome == {h \in [Sources -> Sources] : \A s \in Sources : h[h[s]] = h[s]}
AllAlone == {[s \in Sources |-> s]}

\* Every pair looks alike.
AllFound == [p \in Pairs |-> Kinds]

=============================================================================
