------------------------------ MODULE MCImport ------------------------------
(* Import on small instances. *)
EXTENDS Import, TLC

CONSTANTS a, b, c, s1, s2, p1, p2, t1, t2

\* A conversation, its continuation, and an edited version of the latter.
Versions == {<<a>>, <<a, b>>, <<a, c>>}

\* Continuations, packagings and titles are told apart by equality only.
Alike == {f @@ g @@ h : f \in Permutations({b, c}), g \in Permutations({p1, p2}),
                       h \in Permutations({t1, t2})}

=============================================================================
